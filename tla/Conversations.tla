---------------------------- MODULE Conversations ----------------------------
(***************************************************************************)
(* ai/conversations/s3.go: one conversation, kept as a metadata file, a    *)
(* cost file and one file per message in a store, and used by several      *)
(* processes at once.  Each has a copy of its own in memory and changes    *)
(* the files one after the other, without a lock.  Contents are reduced to *)
(* what can go wrong: which message a file holds, and the total in costs.  *)
(***************************************************************************)
EXTENDS Storage

CONSTANTS
    Message,           \* the messages, of one unit of cost and a key of its own each
    Session,           \* the contents of the metadata file: the CLI session in it
    MetaKey, CostKey,  \* the keys metadata.json and cost.json
    NoConv             \* the total of a process without a copy

ASSUME ConversationsAssumption ==
    /\ IsFiniteSet(Message)
    /\ MetaKey # CostKey
    /\ {MetaKey, CostKey} \cap Message = {}
    /\ Key = Message \cup {MetaKey, CostKey}
    /\ Data = Message \cup Session \cup (0 .. Cardinality(Message))

VARIABLES
    call,      \* the call of each process on the conversation store
    total,     \* TotalCost of each process's copy
    created,   \* Create was called; its caller alone knows the conversation
    known,     \* Create has returned
    added,     \* history: the messages AddMessage was called with
    acked      \* history: the messages for which AddMessage returned no error

vars == <<storageVars, call, total, created, known, added, acked>>

Idle == [op |-> "idle"]
SetCall(p, c) == call' = [call EXCEPT ![p] = c]

\* The files that a call writes, one after the other.
WritingMeta == {"create", "save"}
WritingCost == {"createCost", "saveCost", "addCost"}
Reading == {"getCost", "list", "read"}

Init ==
    /\ StorageInit
    /\ call = [p \in Process |-> Idle]
    /\ total = [p \in Process |-> NoConv]
    /\ created = FALSE
    /\ known = FALSE
    /\ added = {}
    /\ acked = {}

CallType ==
    [op : {"idle"} \cup WritingMeta \cup {"createCost", "saveCost"}]
        \cup [op : {"add", "addCost"}, msg : Message]
        \cup [op : {"getCost"}, before : SUBSET Message]
        \cup [op : {"list"}, before : SUBSET Message, sum : 0 .. Cardinality(Message)]
        \cup [op : {"read"}, before : SUBSET Message, sum : 0 .. Cardinality(Message),
              got : SUBSET Data, names : SUBSET [key : Key, tmp : BOOLEAN]]

TypeOK ==
    /\ StorageTypeOK
    /\ call \in [Process -> CallType]
    /\ total \in [Process -> 0 .. Cardinality(Message) \cup {NoConv}]
    /\ created \in BOOLEAN /\ known \in BOOLEAN
    /\ acked \subseteq added /\ added \subseteq Message

Begin(p, c, k, d) ==
    /\ call[p].op = "idle"
    /\ SetCall(p, c)
    /\ SetPut(p, PutCall(k, d))
    /\ UNCHANGED <<backend, object, tmp, faults>>

-----------------------------------------------------------------------------
\* Create, Save and AddMessage: the first Put of each.
Create(p) ==
    /\ ~created
    /\ created' = TRUE
    /\ \E s \in Session : Begin(p, [op |-> "create"], MetaKey, s)
    /\ UNCHANGED <<total, known, added, acked>>

Save(p) ==
    /\ total[p] # NoConv
    /\ \E s \in Session : Begin(p, [op |-> "save"], MetaKey, s)
    /\ UNCHANGED <<total, created, known, added, acked>>

AddMessage(p, m) ==
    /\ total[p] # NoConv
    /\ m \notin added
    /\ added' = added \cup {m}
    /\ Begin(p, [op |-> "add", msg |-> m], m, m)
    /\ UNCHANGED <<total, created, known, acked>>

\* The Put of a call returned and the next one, of the cost file, begins.
PutCost(p, next, sum) ==
    /\ put[p].at = "ok"
    /\ SetCall(p, next)
    /\ SetPut(p, PutCall(CostKey, sum))
    /\ UNCHANGED <<backend, object, tmp, faults, created, known, added, acked>>

CreateCost(p) ==
    /\ call[p].op = "create"
    /\ PutCost(p, [op |-> "createCost"], 0)
    /\ UNCHANGED total

SaveCost(p) ==
    /\ call[p].op = "save"
    /\ PutCost(p, [op |-> "saveCost"], total[p])
    /\ UNCHANGED total

\* Mutant of AddCost: the copy is charged again for the saved message.
AddCostTwice(p) ==
    /\ call[p].op = "add"
    /\ total' = [total EXCEPT ![p] = @ + 2]
    /\ PutCost(p, [call[p] EXCEPT !.op = "addCost"], total[p] + 1)

\* The caller has set msg.TotalCost to the total of its copy and the new cost.
AddCost(p) ==
    /\ call[p].op = "add"
    /\ total' = [total EXCEPT ![p] = @ + 1]
    /\ PutCost(p, [call[p] EXCEPT !.op = "addCost"], total[p] + 1)

\* The last Put returned: the call has succeeded.
PutsDone(p) ==
    /\ call[p].op \in WritingCost
    /\ put[p].at = "ok"
    /\ IF call[p].op = "createCost"
       THEN total' = [total EXCEPT ![p] = 0] /\ known' = TRUE
       ELSE UNCHANGED <<total, known>>
    /\ acked' = IF call[p].op = "addCost" THEN acked \cup {call[p].msg} ELSE acked
    /\ SetCall(p, Idle)
    /\ SetPut(p, NoPut)
    /\ UNCHANGED <<backend, object, tmp, faults, created, added>>

\* Mutant of PutsFail: AddMessage takes no notice of a failed write.
PutsFailUnnoticed(p) ==
    /\ put[p].at = "failed"
    /\ SetCall(p, Idle)
    /\ SetPut(p, NoPut)
    /\ acked' = IF "msg" \in DOMAIN call[p] THEN acked \cup {call[p].msg} ELSE acked
    /\ UNCHANGED <<backend, object, tmp, faults, total, created, known, added>>

\* A Put returned an error and so does the call; nothing is undone.
PutsFail(p) ==
    /\ put[p].at = "failed"
    /\ SetCall(p, Idle)
    /\ SetPut(p, NoPut)
    /\ UNCHANGED <<backend, object, tmp, faults, total, created, known, added, acked>>

-----------------------------------------------------------------------------
\* Get finds the metadata file, which is never deleted, and reads it; where it is no
\* JSON text Get returns an error and changes nothing.
Get(p) ==
    /\ known
    /\ call[p].op = "idle"
    /\ Exists(MetaKey) /\ GetObject(MetaKey) \in Session
    /\ SetCall(p, [op |-> "getCost", before |-> acked])
    /\ UNCHANGED <<storageVars, total, created, known, added, acked>>

GetCost(p) ==
    /\ call[p].op = "getCost"
    /\ GetObject(CostKey) \notin {Absent, Empty, Torn}
    /\ SetCall(p, [op |-> "list", before |-> call[p].before, sum |-> GetObject(CostKey)])
    /\ UNCHANGED <<storageVars, total, created, known, added, acked>>

\* The filter compares what follows the prefix with the two names: a name of the
\* file store has its second slash left there, and passes.
MessageNames(names) ==
    IF backend = "file" THEN names ELSE {x \in names : x.key \notin {MetaKey, CostKey}}

ListMessages(p) ==
    /\ call[p].op = "list"
    /\ \E names \in Listings :
          SetCall(p, [op |-> "read", before |-> call[p].before, sum |-> call[p].sum,
                      got |-> {}, names |-> MessageNames(names)])
    /\ UNCHANGED <<storageVars, total, created, known, added, acked>>

\* The names are sorted: time stamps, then cost.json, then metadata.json.  The
\* order of the messages, and of a file and its temporary file, is left open.
Rank(x) == CASE x.key = MetaKey -> 2 [] x.key = CostKey -> 1 [] OTHER -> 0
NextNames(names) == {x \in names : \A y \in names : Rank(x) <= Rank(y)}

\* Mutant of ReadMessage: the cost is read again with each message.
ReadMessageAndCost(p) ==
    /\ call[p].op = "read"
    /\ GetObject(CostKey) \notin {Absent, Empty, Torn}
    /\ \E x \in NextNames(call[p].names) :
          /\ Contents(x) \notin {Absent, Empty, Torn}
          /\ SetCall(p, [call[p] EXCEPT !.names = @ \ {x}, !.got = @ \cup {Contents(x)},
                                        !.sum = GetObject(CostKey)])
    /\ UNCHANGED <<storageVars, total, created, known, added, acked>>

\* One listed file.
ReadMessage(p) ==
    /\ call[p].op = "read"
    /\ \E x \in NextNames(call[p].names) :
          /\ Contents(x) \notin {Absent, Empty, Torn}
          /\ SetCall(p, [call[p] EXCEPT !.names = @ \ {x}, !.got = @ \cup {Contents(x)}])
    /\ UNCHANGED <<storageVars, total, created, known, added, acked>>

GetReturns(p) ==
    /\ call[p].op = "read"
    /\ call[p].names = {}
    /\ total' = [total EXCEPT ![p] = call[p].sum]
    /\ SetCall(p, Idle)
    /\ UNCHANGED <<storageVars, created, known, added, acked>>

\* The files that the next step of a Get may read.
NextRead(p) ==
    CASE call[p].op = "getCost" -> {[key |-> CostKey, tmp |-> FALSE]}
      [] call[p].op = "read" -> NextNames(call[p].names)
      [] OTHER -> {}

\* Mutant of GetFails: a message that cannot be read is left out.
GetSkips(p) ==
    /\ call[p].op = "read"
    /\ Fault
    /\ \E x \in NextNames(call[p].names) : SetCall(p, [call[p] EXCEPT !.names = @ \ {x}])
    /\ UNCHANGED <<backend, object, tmp, put, total, created, known, added, acked>>

\* A file is gone, or is no JSON text, or the store does not answer.
GetFails(p) ==
    /\ call[p].op \in Reading
    /\ IF \E x \in NextRead(p) : Contents(x) \in {Absent, Empty, Torn}
       THEN UNCHANGED faults
       ELSE Fault
    /\ SetCall(p, Idle)
    /\ UNCHANGED <<backend, object, tmp, put, total, created, known, added, acked>>

\* The process ends: its calls and its copy are gone, the files stay.
Crash(p) ==
    /\ Fault
    /\ SetCall(p, Idle)
    /\ SetPut(p, NoPut)
    /\ total' = [total EXCEPT ![p] = NoConv]
    /\ UNCHANGED <<backend, object, tmp, created, known, added, acked>>

StoreStep(p) == PutStep(p) /\ UNCHANGED <<call, total, created, known, added, acked>>

Next ==
    \E p \in Process :
        \/ Create(p) \/ CreateCost(p)
        \/ Save(p) \/ SaveCost(p)
        \/ \E m \in Message : AddMessage(p, m)
        \/ AddCost(p)
        \/ PutsDone(p) \/ PutsFail(p)
        \/ Get(p) \/ GetCost(p) \/ ListMessages(p)
        \/ ReadMessage(p) \/ GetReturns(p) \/ GetFails(p)
        \/ StoreStep(p)
        \/ Crash(p)

Spec == Init /\ [][Next]_vars

-----------------------------------------------------------------------------
\* A message file is whole or missing: whatever fails or overlaps, message files
\* have one writer each, and the rename shows its work only when it is complete.
MessagesAreWhole == \A m \in Message : object[m] \in {Absent, m}

\* A message for which AddMessage returned no error is in the store for good,
\* over crashes and over the calls of others that hold an older copy.
AckedMessagesSurvive == \A m \in acked : object[m] = m

\* Get is about to return what it read.
GetEnds(p) == call[p].op = "read" /\ call[p].names = {}

\* A Get that succeeds returns every message acknowledged before it was called
\* (as long as the directory fits into one page, see PageSize).
GetSeesAcked == \A p \in Process : GetEnds(p) => call[p].before \subseteq call[p].got

\* The total that a Get returns is backed by messages that it returns too: costs are
\* written after their message, and read before the directory is listed.
GetTotalIsBacked ==
    \A p \in Process : GetEnds(p) =>
        call[p].sum <= Cardinality(call[p].got \cap Message)

\* What README.md says of the file store, "The filesystem backend uses atomic writes
\* (temp file + rename) for safety.": no reader finds a file cut short or mixed.
\* The code breaks it: two writers of one key share one temporary file.
ObjectsAreWhole == \A k \in Key : object[k] \notin {Empty, Torn}
=============================================================================
