----------------------------- MODULE MCPlanner -----------------------------
(***************************************************************************)
(* Instances of Planner for TLC: one good configuration of a local and an  *)
(* object storage, and one file for each way in which it can be wrong, in  *)
(* force or overridden by the more specific table.                         *)
(***************************************************************************)
EXTENDS Planner

None == <<>>
Entry(location, storage, values, health, notify) ==
  [location |-> location, storage |-> storage, values |-> values,
   health |-> health, notify |-> notify]

Good ==
  [syntax |-> "known keys", label |-> "asked", source |-> "/path",
   common |-> [threads |-> 4, prune |-> <<"-keep", "<age>:<count>">>],
   health |-> [warn |-> 24], notify |-> [topic |-> "alerts"],
   healthNotify |-> [sendFor |-> {"backup", "verify"}],
   storage |-> [onsite  |-> Entry("local", "/path", [maxPercent |-> 50], None, None),
                offsite |-> Entry("remote", "s3://bucket", None, [fail |-> 72],
                                  [interactive |-> TRUE])]]

\* The good file with other values for both storage entries.
With(values) == [Good EXCEPT !.storage.onsite.values = values,
                             !.storage.offsite.values = values]

MCFiles ==
  { Good,
    [Good EXCEPT !.syntax = "unknown keys"],
    [Good EXCEPT !.source = ""], [Good EXCEPT !.common = None],
    [Good EXCEPT !.common = [threads |-> -1, maxPercent |-> 200, prune |-> <<"-all", "word">>]],
    With([threads |-> 8, maxPercent |-> 0]), With([threads |-> 3]),
    With([prune |-> <<" ">>]), With([maxPercent |-> 101]),
    [Good EXCEPT !.health = [warn |-> 60]],
    [Good EXCEPT !.notify = [url |-> "own", sendFor |-> {"backup"}]],
    [Good EXCEPT !.storage.onsite.location = ""],
    [Good EXCEPT !.storage.onsite.location = "", !.source = ""],
    [Good EXCEPT !.storage.offsite.storage = "s3:"],
    [Good EXCEPT !.storage.offsite.location = "elsewhere"],
    [Good EXCEPT !.storage = [offsite |-> Entry("local", "file:///path", None, None, None)]] }

Keys(secret) == [s3_id |-> "id", s3_secret |-> secret]
GoodSecrets  == [owner |-> "operator", mode |-> "0600", syntax |-> "known keys",
                 storage |-> [offsite |-> Keys("secret")]]
MCSecretsFiles ==
  { GoodSecrets, [GoodSecrets EXCEPT !.owner = "root"],
    [GoodSecrets EXCEPT !.mode = "0644"],
    [GoodSecrets EXCEPT !.storage.offsite = [s3_id |-> "id"]],
    [GoodSecrets EXCEPT !.storage = [onsite |-> None]] }

GoodHost == [tools |-> {"duplicacy", "btrfs"}, rootVolume |-> TRUE,
             source |-> "subvolume", writable |-> TRUE]
MCHosts == { GoodHost, [GoodHost EXCEPT !.tools = {"duplicacy"}],
             [GoodHost EXCEPT !.tools = {"btrfs"}], [GoodHost EXCEPT !.rootVolume = FALSE],
             [GoodHost EXCEPT !.source = "directory", !.writable = FALSE] }
=============================================================================
