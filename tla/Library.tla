------------------------------ MODULE Library ------------------------------
(***************************************************************************)
(* What the shared schematic library promises to the servers that use it,   *)
(* for one name of one namespace: an entry with a payload and a category,   *)
(* changed by whole steps.  A fetch returns one payload the entry had while *)
(* it was running.  A save is carried out at least once before it is        *)
(* reported as saved, and possibly again while its answer is outstanding;   *)
(* a request reported as failed may have been carried out.                  *)
(***************************************************************************)
EXTENDS Integers

CONSTANTS
    Requests,   \* the library operations of the workers of all servers
    Calls,      \* what they may ask for
    Payload,    \* the payload of each content
    NoEntry, NoPayload, NoCall

VARIABLES
    entry,      \* the library's entry of the name
    known,      \* the categories created so far
    disk,       \* the payload of the disk backup of the name
    asked       \* the request's call, how far it got, the payload it saw, its answer

vars == <<entry, known, disk, asked>>

Idle == [call |-> NoCall, stage |-> "idle", payload |-> NoPayload, answer |-> ""]

Init ==
    /\ entry = NoEntry /\ known = {} /\ disk = NoPayload
    /\ asked = [r \in Requests |-> Idle]

Live == entry # NoEntry /\ ~entry.archived

\* "keep" leaves the category alone, "" is no category.
Category(c) == IF c.category # "keep" THEN c.category
               ELSE IF entry = NoEntry THEN "" ELSE entry.category
Allowed(c) == c.category \in known \cup {"", "keep"}

At(r, op, stage) ==
    /\ asked[r].stage = stage
    /\ asked[r].call.op = op

Becomes(r, stage, payload, answer) ==
    asked' = [asked EXCEPT ![r] = [call |-> @.call, stage |-> stage,
                                   payload |-> payload, answer |-> answer]]
Answers(r, answer) == Becomes(r, "done", NoPayload, answer)
\* The answer was lost on its way, and the request is reported as failed.
Reports(r, answer) == Answers(r, answer) \/ Answers(r, "failed")

Call(r) ==
    /\ asked[r].stage = "idle"
    /\ \E c \in Calls : asked' = [asked EXCEPT ![r] =
                          [call |-> c, stage |-> "called", payload |-> NoPayload, answer |-> ""]]
    /\ UNCHANGED <<entry, known, disk>>

Save(r) ==
    /\ At(r, "save", "called")
    /\ LET c == asked[r].call
       IN /\ entry = NoEntry \/ c.overwrite
          /\ Allowed(c)
          /\ entry' = [payload |-> Payload[c.content], archived |-> FALSE,
                       category |-> Category(c)]
    /\ UNCHANGED asked \/ Reports(r, "saved")
    /\ UNCHANGED <<known, disk>>

\* A save that may not overwrite meets an entry, archived entries included.
Meet(r) ==
    /\ At(r, "save", "called")
    /\ ~asked[r].call.overwrite /\ entry # NoEntry
    /\ Answers(r, "exists") \/ Becomes(r, "blocked", NoPayload, "")
    /\ UNCHANGED <<entry, known, disk>>

\* It may turn out that the entry holds just what the save wanted to store.
Recognise(r) ==
    /\ At(r, "save", "blocked")
    /\ \/ Live /\ entry.payload = Payload[asked[r].call.content] /\ Answers(r, "saved")
       \/ Answers(r, "exists")
    /\ UNCHANGED <<entry, known, disk>>

Reads(c) == c.op \in {"fetch", "export", "backupRemove"}

See(r) ==
    /\ asked[r].stage = "called" /\ Reads(asked[r].call)
    /\ Live
    /\ Becomes(r, "seen", entry.payload, "")
    /\ UNCHANGED <<entry, known, disk>>

\* The payload the client gets is the one it saw.
Fetched(r) ==
    /\ At(r, "fetch", "seen")
    /\ Becomes(r, "done", asked[r].payload, "fetched")
    /\ UNCHANGED <<entry, known, disk>>

Store(r) ==
    /\ asked[r].stage = "seen"
    /\ disk' = asked[r].payload
    /\ \/ At(r, "export", "seen") /\ Answers(r, "exported")
       \/ /\ At(r, "backupRemove", "seen")
          /\ Becomes(r, "stored", NoPayload, "")
    /\ UNCHANGED <<entry, known>>

Removing(r) == At(r, "remove", "called") \/ At(r, "backupRemove", "stored")

Remove(r) ==
    /\ Removing(r)
    /\ entry # NoEntry
    /\ entry' = NoEntry
    /\ Reports(r, "removed")
    /\ UNCHANGED <<known, disk>>

Archive(r) ==
    /\ At(r, "archive", "called")
    /\ Live
    /\ entry' = [entry EXCEPT !.archived = TRUE]
    /\ Reports(r, "archived")
    /\ UNCHANGED <<known, disk>>

Move(r) ==
    /\ At(r, "move", "called")
    /\ Live /\ Allowed(asked[r].call)
    /\ entry' = [entry EXCEPT !.category = asked[r].call.category]
    /\ Reports(r, "moved")
    /\ UNCHANGED <<known, disk>>

CreateCategory(r) ==
    /\ At(r, "createCategory", "called")
    /\ known' = known \cup {asked[r].call.category}
    /\ Reports(r, "created")
    /\ UNCHANGED <<entry, disk>>

\* Nothing of that name: for a removal an archived entry still counts.
Missing(r) ==
    /\ \/ Removing(r) /\ entry = NoEntry
       \/ asked[r].stage = "called" /\ ~At(r, "remove", "called") /\ ~Live
    /\ Answers(r, "missing")
    /\ UNCHANGED <<entry, known, disk>>

Fail(r) ==
    /\ asked[r].stage \notin {"idle", "done"}
    /\ Answers(r, "failed")
    /\ UNCHANGED <<entry, known, disk>>

Next ==
    \E r \in Requests :
      \/ Call(r) \/ Save(r) \/ Meet(r) \/ Recognise(r) \/ See(r) \/ Fetched(r) \/ Store(r)
      \/ Remove(r) \/ Archive(r) \/ Move(r) \/ CreateCategory(r) \/ Missing(r) \/ Fail(r)

Spec == Init /\ [][Next]_vars
=============================================================================
