------------------------- MODULE ConversationsProofs -------------------------
(***************************************************************************)
(* What the message, cost and metadata files of a conversation hold, for   *)
(* any number of processes and messages.                                   *)
(***************************************************************************)
EXTENDS Conversations, FunctionTheorems, FiniteSetTheorems, TLAPS

-----------------------------------------------------------------------------
(* The records a process keeps. *)

Busy == {"open", "write", "rename", "remove"}

\* What a Put holds where it is.
LEMMA PutFields ==
    ASSUME NEW u \in PutType
    PROVE  /\ u.at \in {"idle", "ok", "failed"} \cup Busy
           /\ u.at \in Busy => u.key \in Key
           /\ u.at \in {"open", "write"} => u.data \in Data
           /\ u.at = "write" => /\ u.fd \in {"tmp", "object", "gone"}
                                /\ u = [at |-> "write", key |-> u.key, data |-> u.data,
                                        fd |-> u.fd]
BY DEF PutType, Busy

\* What a call holds where it is.
LEMMA CallFields ==
    ASSUME NEW c \in CallType
    PROVE  /\ c.op \in {"idle", "create", "save", "createCost", "saveCost", "add", "addCost",
                        "getCost", "list", "read"}
           /\ c.op \in {"add", "addCost"} => c.msg \in Message
           /\ c.op \in Reading => c.before \in SUBSET Message
           /\ c.op \in {"list", "read"} => c.sum \in 0 .. Cardinality(Message)
           /\ c.op = "read" => /\ c.got \in SUBSET Data
                               /\ c.names \in SUBSET [key : Key, tmp : BOOLEAN]
BY DEF CallType, WritingMeta, Reading

-----------------------------------------------------------------------------
(* The messages in the store, counted. *)

Stored(o) == {m \in Message : o[m] = m}

LEMMA StoredIsFinite ==
    ASSUME NEW o
    PROVE  /\ IsFiniteSet(Stored(o))
           /\ Cardinality(Stored(o)) \in Nat
           /\ Cardinality(Message) \in Nat
           /\ Cardinality(Stored(o)) <= Cardinality(Message)
<1>1. Stored(o) \subseteq Message
  BY DEF Stored
<1> QED BY <1>1, ConversationsAssumption, FS_Subset, FS_CardinalityType

LEMMA StoredGrows ==
    ASSUME NEW o, NEW o2, NEW m, \A x \in Message : o[x] = x => o2[x] = x
    PROVE  /\ Cardinality(Stored(o)) <= Cardinality(Stored(o2))
           /\ Cardinality(Stored(o) \ {m}) <= Cardinality(Stored(o2) \ {m})
<1>1. Stored(o) \subseteq Stored(o2) /\ Stored(o) \ {m} \subseteq Stored(o2) \ {m}
  BY DEF Stored
<1>2. IsFiniteSet(Stored(o2)) /\ IsFiniteSet(Stored(o2) \ {m})
  BY StoredIsFinite, FS_Subset
<1> QED BY <1>1, <1>2, FS_Subset

LEMMA OneMoreStored ==
    ASSUME NEW o, NEW m \in Message
    PROVE  /\ Cardinality(Stored(o) \ {m}) \in Nat
           /\ Cardinality(Stored(o) \ {m}) <= Cardinality(Stored(o))
           /\ o[m] = m => Cardinality(Stored(o) \ {m}) + 1 = Cardinality(Stored(o))
           /\ o[m] # m => Stored(o) \ {m} = Stored(o)
<1>1. IsFiniteSet(Stored(o)) /\ Stored(o) \ {m} \subseteq Stored(o)
  BY StoredIsFinite
<1>2. o[m] = m <=> m \in Stored(o)
  BY DEF Stored
<1> QED BY <1>1, <1>2, StoredIsFinite, FS_Subset, FS_CardinalityType, FS_RemoveElement

-----------------------------------------------------------------------------
(* One step of a Put, whichever it is. *)

\* The Put of another call loses its descriptor at most.
SamePut(u, v) ==
    /\ v.at = u.at
    /\ u.at \in Busy => v.key = u.key
    /\ u.at \in {"open", "write"} => v.data = u.data

LEMMA RenamedPuts ==
    ASSUME TypeOK, NEW k, NEW name \in [{"tmp", "object", "gone"} -> {"tmp", "object", "gone"}]
    PROVE  /\ Renamed(k, name) \in [Process -> PutType]
           /\ \A q \in Process :
                  /\ SamePut(put[q], Renamed(k, name)[q])
                  /\ put[q].at = "write" /\ put[q].key # k => Renamed(k, name)[q] = put[q]
<1> SUFFICES ASSUME NEW q \in Process
             PROVE  /\ Renamed(k, name)[q] \in PutType
                    /\ SamePut(put[q], Renamed(k, name)[q])
                    /\ put[q].at = "write" /\ put[q].key # k => Renamed(k, name)[q] = put[q]
  BY DEF Renamed
<1>1. put[q] \in PutType
  BY DEF TypeOK, StorageTypeOK
<1>2. CASE put[q].at = "write" /\ put[q].key = k
  <2>1. /\ put[q] = [at |-> "write", key |-> put[q].key, data |-> put[q].data, fd |-> put[q].fd]
        /\ put[q].key \in Key /\ put[q].data \in Data
        /\ put[q].fd \in {"tmp", "object", "gone"}
    BY <1>1, <1>2, PutFields DEF Busy
  <2>2. Renamed(k, name)[q] = [put[q] EXCEPT !.fd = name[put[q].fd]]
    BY <1>2 DEF Renamed
  <2>3. Renamed(k, name)[q] = [at |-> "write", key |-> put[q].key, data |-> put[q].data,
                               fd |-> name[put[q].fd]]
    BY <2>1, <2>2
  <2> QED BY <1>2, <2>1, <2>3 DEF SamePut, PutType
<1>3. CASE ~(put[q].at = "write" /\ put[q].key = k)
  <2>1. Renamed(k, name)[q] = put[q]
    BY <1>3 DEF Renamed
  <2> QED BY <1>1, <2>1 DEF SamePut
<1> QED BY <1>2, <1>3

\* The step of p touches the files of its key alone, and no other call's Put but for
\* its descriptor; what it leaves in them is what was there, or its data, or a part.
LEMMA PutSteps ==
    ASSUME TypeOK, NEW p \in Process, PutStep(p)
    PROVE  /\ put' \in [Process -> PutType]
           /\ put[p].at \in Busy
           /\ put'[p].at # "idle"
           /\ put'[p].at \in Busy => put'[p].key = put[p].key
           /\ put'[p].at \in {"open", "write"} =>
                  put[p].at \in {"open", "write"} /\ put'[p].data = put[p].data
           /\ \A q \in Process \ {p} :
                  /\ SamePut(put[q], put'[q])
                  /\ put[q].at = "write" /\ put[q].key # put[p].key => put'[q] = put[q]
<1> DEFINE k == put[p].key
<1>1. /\ put \in [Process -> PutType]
      /\ put[p] \in PutType
      /\ \A q \in Process : SamePut(put[q], put[q])
  BY DEF TypeOK, StorageTypeOK, SamePut
<1>2. CASE OpenTmp(p)
  BY <1>1, <1>2, PutFields DEF OpenTmp, SetPut, PutType, Busy
<1>3. CASE OpenFails(p)
  BY <1>1, <1>3 DEF OpenFails, SetPut, PutType, Busy
<1>4. CASE WriteTmp(p)
  BY <1>1, <1>4, PutFields DEF WriteTmp, SetPut, PutType, Busy
<1>5. CASE WriteTmpFails(p)
  BY <1>1, <1>5 DEF WriteTmpFails, SetPut, PutType, Busy
<1>6. CASE RenameFails(p)
  BY <1>1, <1>6, PutFields DEF RenameFails, SetPut, PutType, Busy
<1>7. CASE PutObject(p)
  BY <1>1, <1>7 DEF PutObject, SetPut, PutType, Busy
<1>8. CASE PutObjectFails(p)
  BY <1>1, <1>8 DEF PutObjectFails, SetPut, PutType, Busy
<1>9. ASSUME NEW name \in [{"tmp", "object", "gone"} -> {"tmp", "object", "gone"}],
             NEW r \in [at : {"ok", "failed"}],
             put[p].at \in Busy, put' = [Renamed(k, name) EXCEPT ![p] = r]
      PROVE  /\ put' \in [Process -> PutType]
             /\ put'[p].at \in {"ok", "failed"}
             /\ \A q \in Process \ {p} :
                    /\ SamePut(put[q], put'[q])
                    /\ put[q].at = "write" /\ put[q].key # k => put'[q] = put[q]
  <2>1. r \in PutType /\ r.at \in {"ok", "failed"}
    BY DEF PutType
  <2>2. /\ Renamed(k, name) \in [Process -> PutType]
        /\ \A q \in Process : /\ SamePut(put[q], Renamed(k, name)[q])
                              /\ put[q].at = "write" /\ put[q].key # k =>
                                     Renamed(k, name)[q] = put[q]
    BY RenamedPuts
  <2> QED BY <1>9, <2>1, <2>2
<1>10. CASE RenameTmp(p)
  <2>1. /\ put[p].at \in Busy
        /\ put' = [Renamed(put[p].key, [tmp |-> "object", object |-> "gone", gone |-> "gone"])
                   EXCEPT ![p] = [at |-> "ok"]]
    BY <1>10 DEF RenameTmp, Busy
  <2>2. [tmp |-> "object", object |-> "gone", gone |-> "gone"]
            \in [{"tmp", "object", "gone"} -> {"tmp", "object", "gone"}]
    OBVIOUS
  <2> QED BY <1>9, <2>1, <2>2 DEF Busy
<1>11. CASE RemoveTmp(p)
  <2>1. /\ put[p].at \in Busy
        /\ put' = [Renamed(put[p].key, [tmp |-> "gone", object |-> "object", gone |-> "gone"])
                   EXCEPT ![p] = [at |-> "failed"]]
    BY <1>11 DEF RemoveTmp, Busy
  <2>2. [tmp |-> "gone", object |-> "object", gone |-> "gone"]
            \in [{"tmp", "object", "gone"} -> {"tmp", "object", "gone"}]
    OBVIOUS
  <2> QED BY <1>9, <2>1, <2>2 DEF Busy
<1> QED BY <1>2, <1>3, <1>4, <1>5, <1>6, <1>7, <1>8, <1>10, <1>11 DEF PutStep

LEMMA FilesOfAPut ==
    ASSUME TypeOK, NEW p \in Process, PutStep(p)
    PROVE  LET k == put[p].key
               left == {object[k], tmp[k], Absent, Empty, Torn}
                          \cup {d \in {put[p].data} : put[p].at \in {"open", "write"}}
           IN /\ object' = [object EXCEPT ![k] = object'[k]] /\ object'[k] \in left
              /\ tmp' = [tmp EXCEPT ![k] = tmp'[k]] /\ tmp'[k] \in left
              /\ faults' \in Nat /\ UNCHANGED backend
<1>1. /\ put[p] \in PutType /\ faults \in Nat
      /\ object \in [Key -> Data \cup {Absent, Empty, Torn}]
      /\ tmp \in [Key -> Data \cup {Absent, Empty, Torn}]
  BY DEF TypeOK, StorageTypeOK
<1>2. put[p].key \in Key
  BY <1>1, PutFields, PutSteps
<1>3. Fault => faults' \in Nat
  BY <1>1 DEF Fault
<1>4. CASE OpenTmp(p) \/ OpenFails(p)
  BY <1>1, <1>2, <1>3, <1>4 DEF OpenTmp, OpenFails
<1>5. CASE WriteTmp(p) \/ WriteTmpFails(p)
  BY <1>1, <1>2, <1>3, <1>5 DEF WriteTmp, WriteTmpFails, WriteThrough, Written
<1>6. CASE RenameTmp(p)
  BY <1>1, <1>2, <1>3, <1>6 DEF RenameTmp
<1>7. CASE RenameFails(p) \/ RemoveTmp(p)
  BY <1>1, <1>2, <1>3, <1>7 DEF RenameFails, RemoveTmp
<1>8. CASE PutObject(p) \/ PutObjectFails(p)
  BY <1>1, <1>2, <1>3, <1>8 DEF PutObject, PutObjectFails
<1> QED BY <1>4, <1>5, <1>6, <1>7, <1>8 DEF PutStep

-----------------------------------------------------------------------------
(* The inductive invariant: message files. *)

\* A call writes the file it is about, and a call that writes nothing has no Put.
OwnFile(c, u) ==
    /\ c.op \in {"idle"} \cup Reading => u.at = "idle"
    /\ u.at \in Busy => /\ c.op \in WritingMeta => u.key = MetaKey
                        /\ c.op \in WritingCost => u.key = CostKey
                        /\ c.op = "add" => u.key = c.msg

\* The temporary file of a message holds what its one writer has put there.
MessageFile(c, u, o, t) ==
    /\ c.op = "add" => /\ u.at \in {"open", "write"} => u.data = c.msg
                       /\ u.at = "write" => u.fd = "tmp" /\ t[c.msg] = Empty
                       /\ u.at = "rename" => t[c.msg] = c.msg
                       /\ u.at = "ok" => o[c.msg] = c.msg
    /\ c.op = "addCost" => o[c.msg] = c.msg

AddsMessage(c, seen) == c.op \in {"add", "addCost"} => c.msg \in seen

SoleWriter(c, d) == ~(c.op = "add" /\ d.op = "add" /\ c.msg = d.msg)

MessageObjects(o, seen, done) ==
    /\ \A m \in Message : /\ o[m] \in {Absent, m}
                          /\ m \notin seen => o[m] = Absent
    /\ \A m \in done : o[m] = m

FilesInv ==
    /\ \A p \in Process : /\ OwnFile(call[p], put[p])
                          /\ MessageFile(call[p], put[p], object, tmp)
                          /\ AddsMessage(call[p], added)
    /\ \A p, q \in Process : p # q => SoleWriter(call[p], call[q])
    /\ MessageObjects(object, added, acked)

(* The inductive invariant: costs. *)

IsCost(v, o) == v \in 0 .. Cardinality(Stored(o))

\* The messages that the copy's total may count: the one being added is not in it yet.
Charged(c, o) == IF c.op = "add" THEN Stored(o) \ {c.msg} ELSE Stored(o)

CostFile(o, t) ==
    \A v \in {o[CostKey], t[CostKey]} : v \in {Absent, Empty, Torn} \/ IsCost(v, o)

CostsOfCall(c, u, s, o) ==
    /\ c.op \in WritingCost /\ u.at \in {"open", "write"} => IsCost(u.data, o)
    /\ c.op \in {"save", "add"} => s # NoConv
    /\ s = NoConv \/ s \in 0 .. Cardinality(Charged(c, o))
    /\ c.op \in {"list", "read"} => IsCost(c.sum, o)

CostsInv ==
    /\ CostFile(object, tmp)
    /\ \A p \in Process : CostsOfCall(call[p], put[p], total[p], object)

Inv == TypeOK /\ FilesInv /\ CostsInv

(* The inductive invariant: what a Get that has listed the files will return. *)

PageSuffices == backend = "file" \/ Cardinality(Key) <= PageSize

NoTmpFiles ==
    backend = "s3" => /\ \A k \in Key : tmp[k] = Absent
                      /\ \A p \in Process : put[p].at \notin {"write", "rename", "remove"}

Coming(c) == (c.got \cap Message) \cup {m \in Message : [key |-> m, tmp |-> FALSE] \in c.names}

GetOfCall(c, o) ==
    /\ c.op \in Reading => c.before \subseteq Stored(o)
    /\ c.op = "read" => /\ c.before \subseteq Coming(c)
                        /\ c.sum <= Cardinality(Coming(c))

GetInv == NoTmpFiles /\ (PageSuffices => \A p \in Process : GetOfCall(call[p], object))

-----------------------------------------------------------------------------
(* Steps of the store. *)

LEMMA Keys == /\ {MetaKey, CostKey} \cap Message = {} /\ MetaKey # CostKey
              /\ Message \subseteq Key /\ CostKey \in Key /\ MetaKey \in Key
              /\ \A m \in Message : m \notin {Absent, Empty, Torn}
              /\ \A n \in 0 .. Cardinality(Message) : n \notin {Absent, Empty, Torn}
              /\ Absent \notin {Empty, Torn}
              /\ Message \cup Session \cup (0 .. Cardinality(Message)) = Data
BY StorageAssumption, ConversationsAssumption

\* The put of a message writes the message, and nothing else.
LEMMA AddStep ==
    ASSUME TypeOK, NEW p \in Process, PutStep(p), call[p].op = "add",
           OwnFile(call[p], put[p]), MessageFile(call[p], put[p], object, tmp)
    PROVE  /\ MessageFile(call[p], put'[p], object', tmp')
           /\ put[p].key = call[p].msg
           /\ object'[call[p].msg] \in {object[call[p].msg], call[p].msg}
<1> DEFINE m == call[p].msg
<1>1. /\ put \in [Process -> PutType] /\ put[p] \in PutType
      /\ object \in [Key -> Data \cup {Absent, Empty, Torn}]
      /\ tmp \in [Key -> Data \cup {Absent, Empty, Torn}]
      /\ call[p] \in CallType
  BY DEF TypeOK, StorageTypeOK
<1>2. m \in Message /\ m \in Key
  BY <1>1, CallFields, Keys
<1>3. put[p].at \in Busy /\ put[p].key = m
  BY PutSteps DEF OwnFile
<1>4. /\ put[p].at \in {"open", "write"} => put[p].data = m
      /\ put[p].at = "write" => put[p].fd = "tmp" /\ tmp[m] = Empty
      /\ put[p].at = "rename" => tmp[m] = m
  BY DEF MessageFile
<1> HIDE DEF m
<1> SUFFICES /\ put'[p].at \in {"open", "write"} => put'[p].data = m
             /\ put'[p].at = "write" => put'[p].fd = "tmp" /\ tmp'[m] = Empty
             /\ put'[p].at = "rename" => tmp'[m] = m
             /\ put'[p].at = "ok" => object'[m] = m
             /\ object'[m] \in {object[m], m}
  BY <1>3 DEF m, MessageFile
<1>5. CASE OpenTmp(p)
  BY <1>1, <1>2, <1>3, <1>4, <1>5 DEF OpenTmp, SetPut
<1>6. CASE OpenFails(p)
  BY <1>1, <1>2, <1>3, <1>4, <1>6 DEF OpenFails, SetPut
<1>7. CASE WriteTmp(p)
  BY <1>1, <1>2, <1>3, <1>4, <1>7 DEF WriteTmp, WriteThrough, Written, SetPut
<1>8. CASE WriteTmpFails(p)
  BY <1>1, <1>2, <1>3, <1>4, <1>8 DEF WriteTmpFails, WriteThrough, SetPut
<1>9. CASE RenameTmp(p)
  <2>1. put'[p] = [at |-> "ok"]
    BY <1>9 DEF RenameTmp, Renamed
  <2> QED BY <1>1, <1>2, <1>3, <1>4, <1>9, <2>1 DEF RenameTmp
<1>10. CASE RenameFails(p)
  BY <1>1, <1>2, <1>3, <1>4, <1>10 DEF RenameFails, SetPut
<1>11. CASE RemoveTmp(p)
  <2>1. put'[p] = [at |-> "failed"]
    BY <1>11 DEF RemoveTmp, Renamed
  <2> QED BY <1>1, <1>2, <1>3, <1>4, <1>11, <2>1 DEF RemoveTmp
<1>12. CASE PutObject(p)
  BY <1>1, <1>2, <1>3, <1>4, <1>12 DEF PutObject, SetPut
<1>13. CASE PutObjectFails(p)
  BY <1>1, <1>2, <1>3, <1>4, <1>13 DEF PutObjectFails, SetPut
<1> QED BY <1>5, <1>6, <1>7, <1>8, <1>9, <1>10, <1>11, <1>12, <1>13 DEF PutStep

\* Which key a call writes.
LEMMA KeyOfCall ==
    ASSUME TypeOK, NEW p \in Process, PutStep(p), OwnFile(call[p], put[p])
    PROVE  \/ call[p].op \in WritingMeta /\ put[p].key = MetaKey
           \/ call[p].op \in WritingCost /\ put[p].key = CostKey
           \/ call[p].op = "add" /\ put[p].key = call[p].msg /\ call[p].msg \in Message
<1>1. call[p] \in CallType
  BY DEF TypeOK
<1>2. put[p].at \in Busy
  BY PutSteps
<1>3. put[p].at # "idle"
  BY <1>2 DEF Busy
<1> QED BY <1>1, <1>2, <1>3, CallFields DEF OwnFile, WritingMeta, WritingCost, Reading

LEMMA StoreKeepsFiles ==
    ASSUME TypeOK, FilesInv, NEW p \in Process, StoreStep(p)
    PROVE  FilesInv' /\ \A m \in Message : object[m] = m => object'[m] = m
<1> DEFINE k == put[p].key
<1>1. PutStep(p) /\ UNCHANGED <<call, total, created, known, added, acked>>
  BY DEF StoreStep
<1>2. /\ OwnFile(call[p], put[p]) /\ MessageFile(call[p], put[p], object, tmp)
      /\ MessageObjects(object, added, acked)
      /\ \A q \in Process : q # p => SoleWriter(call[p], call[q])
      /\ object \in [Key -> Data \cup {Absent, Empty, Torn}]
      /\ tmp \in [Key -> Data \cup {Absent, Empty, Torn}]
      /\ call \in [Process -> CallType]
      /\ put[p] \in PutType
  BY DEF FilesInv, TypeOK, StorageTypeOK
<1>3. \/ call[p].op \in WritingMeta /\ k = MetaKey
      \/ call[p].op \in WritingCost /\ k = CostKey
      \/ call[p].op = "add" /\ k = call[p].msg /\ call[p].msg \in Message
  BY <1>1, <1>2, KeyOfCall
<1>4. /\ object' = [object EXCEPT ![k] = object'[k]]
      /\ tmp' = [tmp EXCEPT ![k] = tmp'[k]]
  BY <1>1, FilesOfAPut
<1>5. /\ put[p].at \in Busy /\ put'[p].at # "idle"
      /\ put'[p].at \in Busy => put'[p].key = k
      /\ \A q \in Process \ {p} :
             /\ SamePut(put[q], put'[q])
             /\ put[q].at = "write" /\ put[q].key # k => put'[q] = put[q]
  BY <1>1, PutSteps
<1> HIDE DEF k
<1>6. /\ \A m \in Key : m # k => object'[m] = object[m] /\ tmp'[m] = tmp[m]
      /\ k \in Message => object'[k] \in {object[k], k}
  <2>1. \A m \in Key : m # k => object'[m] = object[m] /\ tmp'[m] = tmp[m]
    BY <1>2, <1>4
  <2>2. k \in Message => call[p].op = "add" /\ k = call[p].msg
    BY <1>3, Keys
  <2> QED BY <1>1, <1>2, <2>1, <2>2, AddStep
<1>7. /\ MessageObjects(object', added, acked)
      /\ \A m \in Message : object[m] = m => object'[m] = m
  <2>1. \A m \in Message : object'[m] \in {object[m], m}
    BY <1>6, Keys
  <2>2. ASSUME NEW m \in Message, m \notin added
        PROVE  object'[m] = Absent
    <3>1. ~(call[p].op = "add" /\ call[p].msg = m)
      BY <2>2 DEF FilesInv, AddsMessage
    <3>2. m # k
      BY <3>1, <1>3, Keys
    <3> QED BY <3>2, <1>6, <1>2, <2>2, Keys DEF MessageObjects
  <2>3. acked \subseteq Message
    BY DEF TypeOK
  <2> QED BY <2>1, <2>2, <2>3, <1>2 DEF MessageObjects
<1>8. ASSUME NEW q \in Process
      PROVE  OwnFile(call[q], put'[q]) /\ MessageFile(call[q], put'[q], object', tmp')
  <2>1. CASE q = p
    <3>1. OwnFile(call[p], put'[p])
      BY <1>1, <1>2, <1>5 DEF OwnFile, Busy, k
    <3>2. MessageFile(call[p], put'[p], object', tmp')
      <4>1. CASE call[p].op = "add"
        BY <4>1, <1>1, <1>2, AddStep
      <4>2. CASE call[p].op = "addCost"
        <5>1. call[p].msg \in Message
          BY <1>2, <4>2, CallFields
        <5> QED BY <4>2, <5>1, <1>2, <1>7 DEF MessageFile
      <4>3. CASE call[p].op \notin {"add", "addCost"}
        BY <4>3 DEF MessageFile
      <4> QED BY <4>1, <4>2, <4>3
    <3> QED BY <2>1, <3>1, <3>2
  <2>2. CASE q # p
    <3>1. /\ OwnFile(call[q], put[q]) /\ MessageFile(call[q], put[q], object, tmp)
          /\ SamePut(put[q], put'[q])
          /\ put[q].at = "write" /\ put[q].key # k => put'[q] = put[q]
          /\ put[q] \in PutType
      BY <2>2, <1>5 DEF FilesInv, TypeOK, StorageTypeOK
    <3>2. OwnFile(call[q], put'[q])
      BY <3>1 DEF OwnFile, SamePut
    <3>3. call[q].op \in {"add", "addCost"} => call[q].msg \in Message
      BY <1>2, CallFields
    <3>4. call[q].op = "add" => call[q].msg # k
      <4>1. call[q].op = "add" => ~(call[p].op = "add" /\ call[p].msg = call[q].msg)
        BY <1>2, <2>2 DEF SoleWriter
      <4> QED BY <4>1, <3>3, <1>3, Keys
    <3>5. MessageFile(call[q], put'[q], object', tmp')
      <4>1. CASE call[q].op = "add"
        <5>1. call[q].msg \in Key /\ call[q].msg # k
          BY <4>1, <3>3, <3>4, Keys
        <5>2. object'[call[q].msg] = object[call[q].msg] /\ tmp'[call[q].msg] = tmp[call[q].msg]
          BY <5>1, <1>6
        <5>3. put[q].at = "write" => put'[q] = put[q]
          BY <3>1, <4>1, <5>1 DEF OwnFile, Busy
        <5>4. put'[q].at = put[q].at /\ (put[q].at \in {"open", "write"} => put'[q].data = put[q].data)
          BY <3>1 DEF SamePut
        <5> QED BY <3>1, <4>1, <5>2, <5>3, <5>4 DEF MessageFile
      <4>2. CASE call[q].op = "addCost"
        BY <4>2, <3>1, <3>3, <1>7 DEF MessageFile
      <4>3. CASE call[q].op \notin {"add", "addCost"}
        BY <4>3 DEF MessageFile
      <4> QED BY <4>1, <4>2, <4>3
    <3> QED BY <3>2, <3>5
  <2> QED BY <2>1, <2>2
<1> QED BY <1>1, <1>7, <1>8 DEF FilesInv

LEMMA StoreKeepsType ==
    ASSUME TypeOK, NEW p \in Process, StoreStep(p)
    PROVE  TypeOK'
<1>1. PutStep(p) /\ UNCHANGED <<call, total, created, known, added, acked>>
  BY DEF StoreStep
<1>2. /\ put[p] \in PutType /\ put[p].key \in Key
      /\ put[p].at \in {"open", "write"} => put[p].data \in Data
  BY <1>1, PutSteps, PutFields DEF TypeOK, StorageTypeOK
<1>3. /\ object \in [Key -> Data \cup {Absent, Empty, Torn}]
      /\ tmp \in [Key -> Data \cup {Absent, Empty, Torn}]
      /\ backend \in {"file", "s3"}
  BY DEF TypeOK, StorageTypeOK
<1>4. /\ object' = [object EXCEPT ![put[p].key] = object'[put[p].key]]
      /\ tmp' = [tmp EXCEPT ![put[p].key] = tmp'[put[p].key]]
      /\ object'[put[p].key] \in Data \cup {Absent, Empty, Torn}
      /\ tmp'[put[p].key] \in Data \cup {Absent, Empty, Torn}
      /\ faults' \in Nat /\ backend' = backend
  BY <1>1, <1>2, <1>3, FilesOfAPut
<1>5. /\ object' \in [Key -> Data \cup {Absent, Empty, Torn}]
      /\ tmp' \in [Key -> Data \cup {Absent, Empty, Torn}]
  BY <1>3, <1>4
<1>6. put' \in [Process -> PutType]
  BY <1>1, PutSteps
<1> QED BY <1>1, <1>3, <1>4, <1>5, <1>6
        DEF TypeOK, StorageTypeOK, CallType, PutType, WritingMeta

LEMMA StoreKeepsCosts ==
    ASSUME TypeOK, FilesInv, CostsInv, NEW p \in Process, StoreStep(p)
    PROVE  CostsInv'
<1> DEFINE k == put[p].key
<1>1. PutStep(p) /\ UNCHANGED <<call, total, created, known, added, acked>>
  BY DEF StoreStep
<1>2. /\ \A m \in Message : object[m] = m => object'[m] = m
      /\ call \in [Process -> CallType]
      /\ object \in [Key -> Data \cup {Absent, Empty, Torn}]
      /\ tmp \in [Key -> Data \cup {Absent, Empty, Torn}]
  BY StoreKeepsFiles DEF TypeOK, StorageTypeOK
<1>3. /\ Cardinality(Stored(object)) \in Nat
      /\ Cardinality(Stored(object')) \in Nat
      /\ Cardinality(Stored(object)) <= Cardinality(Stored(object'))
  BY <1>2, StoredIsFinite, StoredGrows
<1>4. \A v : IsCost(v, object) => IsCost(v, object')
  BY <1>3 DEF IsCost
<1>5. put[p].at \in {"open", "write"} /\ k = CostKey => IsCost(put[p].data, object)
  <2>1. k = CostKey => call[p].op \in WritingCost
    <3>1. OwnFile(call[p], put[p])
      BY DEF FilesInv
    <3> QED BY <1>1, <3>1, KeyOfCall, Keys
  <2> QED BY <2>1 DEF CostsInv, CostsOfCall
<1>6. CostFile(object', tmp')
  <2>1. /\ object' = [object EXCEPT ![k] = object'[k]]
        /\ tmp' = [tmp EXCEPT ![k] = tmp'[k]]
        /\ \A v \in {object'[k], tmp'[k]} :
               \/ v \in {object[k], tmp[k], Absent, Empty, Torn}
               \/ put[p].at \in {"open", "write"} /\ v = put[p].data
    BY <1>1, FilesOfAPut
  <2>2. \A v \in {object[CostKey], tmp[CostKey]} : v \in {Absent, Empty, Torn} \/ IsCost(v, object)
    BY DEF CostsInv, CostFile
  <2>3. CASE k = CostKey
    <3>1. \A v \in {object'[k], tmp'[k]} : v \in {Absent, Empty, Torn} \/ IsCost(v, object)
      BY <2>1, <2>2, <2>3, <1>5
    <3> QED BY <2>3, <3>1, <1>4 DEF CostFile
  <2>4. CASE k # CostKey
    <3>1. object'[CostKey] = object[CostKey] /\ tmp'[CostKey] = tmp[CostKey]
      BY <2>1, <2>4, <1>2, Keys
    <3> QED BY <3>1, <2>2, <1>4 DEF CostFile
  <2> QED BY <2>3, <2>4
<1>7. ASSUME NEW q \in Process
      PROVE  CostsOfCall(call[q], put'[q], total[q], object')
  <2>1. CostsOfCall(call[q], put[q], total[q], object)
    BY DEF CostsInv
  <2>2. put'[q].at \in {"open", "write"} =>
           put[q].at \in {"open", "write"} /\ put'[q].data = put[q].data
    BY <1>1, PutSteps DEF SamePut
  <2>3. \A n \in 0 .. Cardinality(Charged(call[q], object)) :
            n \in 0 .. Cardinality(Charged(call[q], object'))
    <3>1. CASE call[q].op = "add"
      <4>1. /\ Cardinality(Stored(object) \ {call[q].msg}) \in Nat
            /\ Cardinality(Stored(object') \ {call[q].msg}) \in Nat
        BY <1>2, <3>1, CallFields, OneMoreStored
      <4>2. Cardinality(Stored(object) \ {call[q].msg})
               <= Cardinality(Stored(object') \ {call[q].msg})
        BY <1>2, StoredGrows
      <4> QED BY <3>1, <4>1, <4>2 DEF Charged
    <3>2. CASE call[q].op # "add"
      BY <3>2, <1>3 DEF Charged
    <3> QED BY <3>1, <3>2
  <2> QED BY <2>1, <2>2, <2>3, <1>4 DEF CostsOfCall
<1> QED BY <1>1, <1>6, <1>7 DEF CostsInv

-----------------------------------------------------------------------------
(* Steps of one process between its Puts. *)

\* Such a step sets the call, the Put and the total of p, and leaves the files alone.
LEMMA OneCall ==
    ASSUME Inv, NEW p \in Process, NEW c \in CallType, NEW u \in PutType,
           NEW s \in 0 .. Cardinality(Message) \cup {NoConv},
           call' = [call EXCEPT ![p] = c],
           put' = [put EXCEPT ![p] = u],
           total' = [total EXCEPT ![p] = s],
           UNCHANGED <<backend, object, tmp>>,
           faults' \in Nat, created' \in BOOLEAN, known' \in BOOLEAN,
           added \subseteq added', added' \subseteq Message, acked' \subseteq added',
           OwnFile(c, u), MessageFile(c, u, object, tmp), AddsMessage(c, added'),
           CostsOfCall(c, u, s, object),
           \A m \in acked' : object[m] = m,
           \A q \in Process : q # p => SoleWriter(c, call[q])
    PROVE  Inv'
<1>1. /\ call \in [Process -> CallType]
      /\ put \in [Process -> PutType]
      /\ total \in [Process -> 0 .. Cardinality(Message) \cup {NoConv}]
  BY DEF Inv, TypeOK, StorageTypeOK
<1>2. TypeOK'
  BY <1>1 DEF Inv, TypeOK, StorageTypeOK, CallType, PutType, WritingMeta
<1>3. FilesInv'
  <2>1. ASSUME NEW q \in Process
        PROVE  /\ OwnFile(call'[q], put'[q])
               /\ MessageFile(call'[q], put'[q], object, tmp)
               /\ AddsMessage(call'[q], added')
    <3>1. CASE q = p
      BY <3>1, <1>1
    <3>2. CASE q # p
      BY <3>2, <1>1 DEF Inv, FilesInv, AddsMessage
    <3> QED BY <3>1, <3>2
  <2>2. \A q, r \in Process : q # r => SoleWriter(call'[q], call'[r])
    BY <1>1 DEF Inv, FilesInv, SoleWriter
  <2>3. MessageObjects(object, added', acked')
    BY DEF Inv, FilesInv, MessageObjects
  <2> QED BY <2>1, <2>2, <2>3 DEF FilesInv
<1>4. CostsInv'
  <2>1. \A q \in Process : CostsOfCall(call'[q], put'[q], total'[q], object)
    BY <1>1 DEF Inv, CostsInv
  <2> QED BY <2>1 DEF Inv, CostsInv
<1> QED BY <1>2, <1>3, <1>4 DEF Inv

\* What the invariant says of one process.
LEMMA OfProcess ==
    ASSUME Inv, NEW p \in Process
    PROVE  /\ call \in [Process -> CallType] /\ call[p] \in CallType
           /\ put \in [Process -> PutType] /\ put[p] \in PutType
           /\ total \in [Process -> 0 .. Cardinality(Message) \cup {NoConv}]
           /\ total[p] \in 0 .. Cardinality(Message) \cup {NoConv}
           /\ OwnFile(call[p], put[p])
           /\ MessageFile(call[p], put[p], object, tmp)
           /\ AddsMessage(call[p], added)
           /\ CostsOfCall(call[p], put[p], total[p], object)
           /\ \A q \in Process : q # p => SoleWriter(call[p], call[q])
           /\ \A m \in acked : object[m] = m
           /\ added \subseteq Message /\ acked \subseteq added
           /\ created \in BOOLEAN /\ known \in BOOLEAN /\ faults \in Nat
BY DEF Inv, TypeOK, StorageTypeOK, FilesInv, MessageObjects, CostsInv

\* Create and Save: the first Put.
LEMMA MetaBegins ==
    ASSUME Inv, NEW p \in Process, Create(p) \/ Save(p)
    PROVE  Inv'
<1>1. PICK s \in Session, c \in [op : {"create", "save"}] :
          /\ Begin(p, c, MetaKey, s)
          /\ c.op = "save" => total[p] # NoConv
          /\ created' \in BOOLEAN
          /\ UNCHANGED <<total, known, added, acked>>
  <2>1. CASE Create(p)
    BY <2>1 DEF Create
  <2>2. CASE Save(p)
    BY <2>2, OfProcess DEF Save
  <2> QED BY <2>1, <2>2
<1> DEFINE u == PutCall(MetaKey, s)
<1>2. /\ call[p].op = "idle"
      /\ call' = [call EXCEPT ![p] = c] /\ put' = [put EXCEPT ![p] = u]
      /\ UNCHANGED <<backend, object, tmp, faults>>
  BY <1>1 DEF Begin, SetCall, SetPut
<1>3. c \in CallType /\ c.op \in {"create", "save"}
  BY DEF CallType, WritingMeta
<1>4. u \in PutType /\ u.at = "open" /\ u.key = MetaKey
  BY Keys DEF PutCall, PutType
<1>5. /\ OwnFile(c, u) /\ MessageFile(c, u, object, tmp) /\ AddsMessage(c, added')
      /\ \A q \in Process : q # p => SoleWriter(c, call[q])
  BY <1>3, <1>4 DEF OwnFile, MessageFile, AddsMessage, SoleWriter, Reading, WritingMeta, WritingCost
<1>6. CostsOfCall(c, u, total[p], object)
  BY <1>1, <1>2, <1>3, OfProcess DEF CostsOfCall, Charged, WritingCost
<1>7. total' = [total EXCEPT ![p] = total[p]]
  BY <1>1, OfProcess
<1> HIDE DEF u
<1> QED BY <1>1, <1>2, <1>3, <1>4, <1>5, <1>6, <1>7, OfProcess, OneCall

LEMMA MessageBegins ==
    ASSUME Inv, NEW p \in Process, NEW m \in Message, AddMessage(p, m)
    PROVE  Inv'
<1> DEFINE u == PutCall(m, m)
           c == [op |-> "add", msg |-> m]
<1>1. /\ total[p] # NoConv /\ m \notin added /\ added' = added \cup {m}
      /\ call[p].op = "idle"
      /\ call' = [call EXCEPT ![p] = c] /\ put' = [put EXCEPT ![p] = u]
      /\ UNCHANGED <<backend, object, tmp, faults, total, created, known, acked>>
  BY DEF AddMessage, Begin, SetCall, SetPut
<1>2. c \in CallType /\ c.op = "add" /\ c.msg = m
  BY DEF CallType
<1>3. u \in PutType /\ u.at = "open" /\ u.key = m /\ u.data = m
  BY Keys DEF PutCall, PutType
<1>4. OwnFile(c, u) /\ MessageFile(c, u, object, tmp) /\ AddsMessage(c, added')
  BY <1>1, <1>2, <1>3
     DEF OwnFile, MessageFile, AddsMessage, SoleWriter, Reading, WritingMeta, WritingCost
<1>5. \A q \in Process : q # p => SoleWriter(c, call[q])
  BY <1>1, <1>2, OfProcess DEF AddsMessage, SoleWriter
<1>6. CostsOfCall(c, u, total[p], object)
  <2>1. object[m] # m
    BY <1>1, Keys DEF Inv, FilesInv, MessageObjects
  <2>2. Stored(object) \ {m} = Stored(object)
    BY <2>1, OneMoreStored
  <2>3. total[p] = NoConv \/ total[p] \in 0 .. Cardinality(Stored(object))
    BY <1>1, OfProcess DEF CostsOfCall, Charged
  <2> QED BY <1>1, <1>2, <2>2, <2>3 DEF CostsOfCall, Charged, WritingCost
<1>7. /\ total' = [total EXCEPT ![p] = total[p]]
      /\ total[p] \in 0 .. Cardinality(Message) \cup {NoConv}
      /\ faults' \in Nat /\ created' \in BOOLEAN /\ known' \in BOOLEAN
      /\ added \subseteq added' /\ added' \subseteq Message /\ acked' \subseteq added'
      /\ \A x \in acked' : object[x] = x
  BY <1>1, OfProcess
<1> HIDE DEF u, c
<1> QED BY <1>1, <1>2, <1>3, <1>4, <1>5, <1>6, <1>7, OneCall

\* The first Put of a call is done and that of the cost file begins.
LEMMA CostBegins ==
    ASSUME Inv, NEW p \in Process, CreateCost(p) \/ SaveCost(p) \/ AddCost(p)
    PROVE  Inv'
<1>1. put[p].at = "ok"
  BY DEF CreateCost, SaveCost, AddCost, PutCost
<1>2. ASSUME NEW c \in CallType, c.op \in WritingCost,
             c.op = "addCost" => call[p].op = "add" /\ c.msg = call[p].msg,
             NEW s, NEW v, PutCost(p, c, v), IsCost(v, object), v \in 0 .. Cardinality(Message),
             s = NoConv \/ IsCost(s, object), total' = [total EXCEPT ![p] = s]
      PROVE  Inv'
  <2> DEFINE u == PutCall(CostKey, v)
  <2>1. /\ call' = [call EXCEPT ![p] = c] /\ put' = [put EXCEPT ![p] = u]
        /\ UNCHANGED <<backend, object, tmp, faults, created, known, added, acked>>
    BY <1>2 DEF PutCost, SetCall, SetPut
  <2>2. u \in PutType /\ u.at = "open" /\ u.key = CostKey /\ u.data = v
    BY <1>2, Keys DEF PutCall, PutType
  <2>3. /\ OwnFile(c, u) /\ MessageFile(c, u, object, tmp) /\ AddsMessage(c, added')
        /\ \A q \in Process : q # p => SoleWriter(c, call[q])
    BY <1>1, <1>2, <2>1, <2>2, OfProcess
       DEF OwnFile, MessageFile, AddsMessage, SoleWriter, Reading, WritingMeta, WritingCost
  <2>4. CostsOfCall(c, u, s, object)
    BY <1>2, <2>2 DEF CostsOfCall, Charged, WritingCost, IsCost
  <2>5. s \in 0 .. Cardinality(Message) \cup {NoConv}
    BY <1>2, StoredIsFinite DEF IsCost
  <2> HIDE DEF u
  <2> QED BY <1>2, <2>1, <2>2, <2>3, <2>4, <2>5, OfProcess, OneCall
<1>3. ASSUME NEW n, IsCost(n, object)
      PROVE  n \in 0 .. Cardinality(Message)
  BY <1>3, StoredIsFinite DEF IsCost
<1>4. CASE CreateCost(p)
  <2>1. /\ PutCost(p, [op |-> "createCost"], 0) /\ call[p].op = "create"
        /\ total' = [total EXCEPT ![p] = total[p]]
    BY <1>4, OfProcess DEF CreateCost
  <2>2. [op |-> "createCost"] \in CallType
    BY DEF CallType
  <2>3. IsCost(0, object)
    BY StoredIsFinite DEF IsCost
  <2>4. total[p] = NoConv \/ IsCost(total[p], object)
    BY <2>1, OfProcess DEF CostsOfCall, Charged, IsCost
  <2> QED BY <1>2, <1>3, <2>1, <2>2, <2>3, <2>4 DEF WritingCost
<1>5. CASE SaveCost(p)
  <2>1. /\ PutCost(p, [op |-> "saveCost"], total[p]) /\ call[p].op = "save"
        /\ total' = [total EXCEPT ![p] = total[p]]
    BY <1>5, OfProcess DEF SaveCost
  <2>2. [op |-> "saveCost"] \in CallType
    BY DEF CallType
  <2>3. IsCost(total[p], object)
    BY <2>1, OfProcess DEF CostsOfCall, Charged, IsCost
  <2> QED BY <1>2, <1>3, <2>1, <2>2, <2>3 DEF WritingCost
<1>6. CASE AddCost(p)
  <2> DEFINE m == call[p].msg
             c == [call[p] EXCEPT !.op = "addCost"]
  <2>1. /\ PutCost(p, c, total[p] + 1) /\ call[p].op = "add"
        /\ total' = [total EXCEPT ![p] = total[p] + 1]
    BY <1>6, OfProcess DEF AddCost
  <2>2. m \in Message /\ call[p] = [op |-> "add", msg |-> m]
    BY <2>1, OfProcess DEF CallType, WritingMeta
  <2>3. c = [op |-> "addCost", msg |-> m] /\ c \in CallType /\ c.op = "addCost" /\ c.msg = m
    BY <2>2 DEF CallType
  <2>4. object[m] = m
    BY <1>1, <2>1, OfProcess DEF MessageFile
  <2>5. total[p] \in 0 .. Cardinality(Stored(object) \ {m})
    BY <2>1, OfProcess DEF CostsOfCall, Charged
  <2>6. IsCost(total[p] + 1, object)
    <3>1. /\ Cardinality(Stored(object) \ {m}) \in Nat
          /\ Cardinality(Stored(object) \ {m}) + 1 = Cardinality(Stored(object))
      BY <2>2, <2>4, OneMoreStored
    <3> QED BY <2>5, <3>1, StoredIsFinite DEF IsCost
  <2> HIDE DEF c
  <2> QED BY <1>2, <1>3, <2>1, <2>3, <2>6 DEF WritingCost
<1> QED BY <1>4, <1>5, <1>6

\* A call is over, whatever its outcome.
LEMMA Ends ==
    ASSUME Inv, NEW p \in Process, NEW s \in 0 .. Cardinality(Message) \cup {NoConv},
           s = NoConv \/ IsCost(s, object),
           call' = [call EXCEPT ![p] = Idle], put' = [put EXCEPT ![p] = NoPut],
           total' = [total EXCEPT ![p] = s],
           UNCHANGED <<backend, object, tmp, created, added>>,
           faults' \in Nat, known' \in BOOLEAN, acked' \subseteq added,
           \A m \in acked' : object[m] = m
    PROVE  Inv'
<1>1. Idle \in CallType /\ Idle.op = "idle" /\ NoPut \in PutType /\ NoPut.at = "idle"
  BY DEF Idle, NoPut, CallType, PutType
<1>2. /\ OwnFile(Idle, NoPut) /\ MessageFile(Idle, NoPut, object, tmp) /\ AddsMessage(Idle, added')
      /\ \A q \in Process : q # p => SoleWriter(Idle, call[q])
      /\ CostsOfCall(Idle, NoPut, s, object)
  BY <1>1 DEF OwnFile, MessageFile, AddsMessage, SoleWriter, CostsOfCall, Charged, IsCost,
              Busy, WritingMeta, WritingCost, Reading
<1>3. added \subseteq added' /\ added' \subseteq Message /\ created' \in BOOLEAN
  BY OfProcess
<1> QED BY <1>1, <1>2, <1>3, OneCall

\* The copy's total between two calls, and while it is not being added to.
LEMMA TotalIsCost ==
    ASSUME Inv, NEW p \in Process
    PROVE  total[p] = NoConv \/ IsCost(total[p], object)
<1>1. CASE call[p].op = "add"
  <2>1. /\ call[p].msg \in Message
        /\ total[p] = NoConv \/ total[p] \in 0 .. Cardinality(Stored(object) \ {call[p].msg})
    BY <1>1, OfProcess, CallFields DEF CostsOfCall, Charged
  <2>2. /\ Cardinality(Stored(object) \ {call[p].msg}) \in Nat
        /\ Cardinality(Stored(object) \ {call[p].msg}) <= Cardinality(Stored(object))
        /\ Cardinality(Stored(object)) \in Nat
    BY <2>1, OneMoreStored, StoredIsFinite
  <2> QED BY <2>1, <2>2 DEF IsCost
<1>2. CASE call[p].op # "add"
  BY <1>2, OfProcess DEF CostsOfCall, Charged, IsCost
<1> QED BY <1>1, <1>2

LEMMA CallsEnd ==
    ASSUME Inv, NEW p \in Process,
           PutsDone(p) \/ PutsFail(p) \/ GetReturns(p) \/ GetFails(p) \/ Crash(p)
    PROVE  Inv'
<1>1. /\ total = [total EXCEPT ![p] = total[p]]
      /\ call[p].op \in Reading => put = [put EXCEPT ![p] = NoPut]
  <2>1. call[p].op \in Reading => put[p] = NoPut
    BY OfProcess DEF OwnFile, PutType, NoPut
  <2> QED BY <2>1, OfProcess
<1>2. Fault => faults' \in Nat
  BY OfProcess DEF Fault
<1>3. /\ IsCost(0, object) /\ 0 \in 0 .. Cardinality(Message)
      /\ \A v : IsCost(v, object) => v \in 0 .. Cardinality(Message)
  BY StoredIsFinite DEF IsCost
<1>4. CASE PutsDone(p)
  <2>1. PICK s \in {0, total[p]} : total' = [total EXCEPT ![p] = s]
    BY <1>1, <1>4 DEF PutsDone
  <2>2. acked' \subseteq added /\ \A m \in acked' : object[m] = m
    <3>1. CASE call[p].op = "addCost"
      <4>1. acked' = acked \cup {call[p].msg}
        BY <1>4, <3>1 DEF PutsDone
      <4>2. call[p].msg \in added /\ object[call[p].msg] = call[p].msg
        BY <3>1, OfProcess DEF AddsMessage, MessageFile
      <4> QED BY <4>1, <4>2, OfProcess
    <3>2. CASE call[p].op # "addCost"
      BY <1>4, <3>2, OfProcess DEF PutsDone
    <3> QED BY <3>1, <3>2
  <2>3. /\ call' = [call EXCEPT ![p] = Idle] /\ put' = [put EXCEPT ![p] = NoPut]
        /\ UNCHANGED <<backend, object, tmp, created, added>> /\ faults' \in Nat
        /\ known' \in BOOLEAN
    BY <1>4, OfProcess DEF PutsDone, SetCall, SetPut
  <2>4. s = NoConv \/ IsCost(s, object)
    BY <1>3, TotalIsCost
  <2>5. s \in 0 .. Cardinality(Message) \cup {NoConv}
    BY <1>3, <2>4
  <2> QED BY <2>1, <2>2, <2>3, <2>4, <2>5, Ends
<1>5. CASE PutsFail(p) \/ GetFails(p)
  <2>1. /\ call' = [call EXCEPT ![p] = Idle] /\ put' = [put EXCEPT ![p] = NoPut]
        /\ UNCHANGED <<backend, object, tmp, created, added>> /\ faults' \in Nat
        /\ known' \in BOOLEAN /\ UNCHANGED acked
        /\ total' = [total EXCEPT ![p] = total[p]]
    <3>1. CASE PutsFail(p)
      BY <1>1, <3>1, OfProcess DEF PutsFail, SetCall, SetPut
    <3>2. CASE GetFails(p)
      BY <1>1, <1>2, <3>2, OfProcess DEF GetFails, SetCall
    <3> QED BY <1>5, <3>1, <3>2
  <2> QED BY <2>1, TotalIsCost, OfProcess, Ends
<1>6. CASE GetReturns(p)
  <2>1. /\ call' = [call EXCEPT ![p] = Idle] /\ put' = [put EXCEPT ![p] = NoPut]
        /\ UNCHANGED <<backend, object, tmp, created, added>> /\ faults' \in Nat
        /\ known' \in BOOLEAN /\ UNCHANGED acked
        /\ total' = [total EXCEPT ![p] = call[p].sum]
    BY <1>1, <1>6, OfProcess DEF GetReturns, SetCall, storageVars, Reading
  <2>2. IsCost(call[p].sum, object)
    BY <1>6, OfProcess DEF GetReturns, CostsOfCall
  <2> QED BY <1>3, <2>1, <2>2, OfProcess, Ends
<1>7. CASE Crash(p)
  <2>1. /\ call' = [call EXCEPT ![p] = Idle] /\ put' = [put EXCEPT ![p] = NoPut]
        /\ UNCHANGED <<backend, object, tmp, created, added>> /\ faults' \in Nat
        /\ known' \in BOOLEAN /\ UNCHANGED acked
        /\ total' = [total EXCEPT ![p] = NoConv]
    BY <1>2, <1>7, OfProcess DEF Crash, SetCall, SetPut
  <2> QED BY <2>1, OfProcess, Ends
<1> QED BY <1>4, <1>5, <1>6, <1>7

\* The record of a Get after one file.
LEMMA TwoFields ==
    ASSUME NEW c, NEW x, NEW y
    PROVE  [c EXCEPT !.names = x, !.got = y] = [[c EXCEPT !.names = x] EXCEPT !.got = y]
OBVIOUS

LEMMA OneRead ==
    ASSUME NEW c, NEW x, NEW y,
           c = [op |-> "read", before |-> c.before, sum |-> c.sum, got |-> c.got,
                names |-> c.names]
    PROVE  [c EXCEPT !.names = x, !.got = y]
              = [op |-> "read", before |-> c.before, sum |-> c.sum, got |-> y, names |-> x]
<1>1. PICK b, s, g, n : /\ c = [op |-> "read", before |-> b, sum |-> s, got |-> g, names |-> n]
                        /\ b = c.before /\ s = c.sum
  OBVIOUS
<1>2. [c EXCEPT !.names = x] = [op |-> "read", before |-> b, sum |-> s, got |-> g, names |-> x]
  BY <1>1
<1>3. [[op |-> "read", before |-> b, sum |-> s, got |-> g, names |-> x] EXCEPT !.got = y]
         = [op |-> "read", before |-> b, sum |-> s, got |-> y, names |-> x]
  OBVIOUS
<1> QED BY <1>1, <1>2, <1>3, TwoFields

\* One file is read.
AfterRead(c, x) == [op |-> "read", before |-> c.before, sum |-> c.sum,
                    got |-> c.got \cup {Contents(x)}, names |-> c.names \ {x}]

LEMMA MessageRead ==
    ASSUME Inv, NEW p \in Process, ReadMessage(p)
    PROVE  /\ call[p].op = "read" /\ UNCHANGED <<storageVars, total, created, known, added, acked>>
           /\ call[p].names \in SUBSET [key : Key, tmp : BOOLEAN]
           /\ \E x \in NextNames(call[p].names) :
                 /\ Contents(x) \notin {Absent, Empty, Torn}
                 /\ call' = [call EXCEPT ![p] = AfterRead(call[p], x)]
                 /\ AfterRead(call[p], x) \in CallType
<1>1. /\ call[p].op = "read" /\ UNCHANGED <<storageVars, total, created, known, added, acked>>
  BY DEF ReadMessage
<1>2. /\ call[p] = [op |-> "read", before |-> call[p].before, sum |-> call[p].sum,
                    got |-> call[p].got, names |-> call[p].names]
      /\ call[p].before \in SUBSET Message /\ call[p].sum \in 0 .. Cardinality(Message)
      /\ call[p].got \in SUBSET Data /\ call[p].names \in SUBSET [key : Key, tmp : BOOLEAN]
  BY <1>1, OfProcess DEF CallType, WritingMeta
<1>3. PICK x \in NextNames(call[p].names) :
          /\ Contents(x) \notin {Absent, Empty, Torn}
          /\ SetCall(p, [call[p] EXCEPT !.names = @ \ {x}, !.got = @ \cup {Contents(x)}])
  BY DEF ReadMessage
<1>4. AfterRead(call[p], x)
         = [call[p] EXCEPT !.names = @ \ {x}, !.got = @ \cup {Contents(x)}]
  BY ONLY <1>2, OneRead DEF AfterRead
<1>5. AfterRead(call[p], x) \in CallType
  <2>1. x.key \in Key
    BY <1>2 DEF NextNames
  <2>2. Contents(x) \in Data
    BY <1>3, <2>1 DEF Contents, GetObject, Inv, TypeOK, StorageTypeOK
  <2> QED BY <1>2, <2>2 DEF AfterRead, CallType
<1> QED BY <1>1, <1>2, <1>3, <1>4, <1>5 DEF SetCall

\* The steps of a Get.
LEMMA Reads ==
    ASSUME Inv, NEW p \in Process,
           Get(p) \/ GetCost(p) \/ ListMessages(p) \/ ReadMessage(p)
    PROVE  Inv'
<1>1. ASSUME NEW c \in CallType, c.op \in Reading,
             call[p].op \in {"idle"} \cup Reading,
             c.op \in {"list", "read"} => IsCost(c.sum, object),
             call' = [call EXCEPT ![p] = c],
             UNCHANGED <<storageVars, total, created, known, added, acked>>
      PROVE  Inv'
  <2>1. put[p].at = "idle"
    BY <1>1, OfProcess DEF OwnFile
  <2>2. /\ OwnFile(c, put[p]) /\ MessageFile(c, put[p], object, tmp) /\ AddsMessage(c, added')
        /\ \A q \in Process : q # p => SoleWriter(c, call[q])
    BY <1>1, <2>1 DEF OwnFile, MessageFile, AddsMessage, SoleWriter, Busy,
                      WritingMeta, WritingCost, Reading
  <2>3. CostsOfCall(c, put[p], total[p], object)
    BY <1>1, TotalIsCost DEF CostsOfCall, Charged, IsCost, WritingCost, Reading
  <2>4. /\ put' = [put EXCEPT ![p] = put[p]] /\ total' = [total EXCEPT ![p] = total[p]]
        /\ UNCHANGED <<backend, object, tmp>> /\ faults' \in Nat
        /\ created' \in BOOLEAN /\ known' \in BOOLEAN
        /\ added \subseteq added' /\ added' \subseteq Message /\ acked' \subseteq added'
        /\ \A m \in acked' : object[m] = m
    BY <1>1, OfProcess DEF storageVars
  <2> QED BY <1>1, <2>2, <2>3, <2>4, OfProcess, OneCall
<1>2. acked \in SUBSET Message
  BY OfProcess
<1>3. CASE Get(p)
  BY <1>1, <1>2, <1>3 DEF Get, SetCall, CallType, Reading
<1>4. CASE GetCost(p)
  <2>1. IsCost(object[CostKey], object)
    BY <1>4 DEF GetCost, GetObject, Inv, CostsInv, CostFile
  <2>2. object[CostKey] \in 0 .. Cardinality(Message)
    BY <2>1, StoredIsFinite DEF IsCost
  <2>3. call[p].before \in SUBSET Message /\ call[p].op \in Reading
    BY <1>4, OfProcess, CallFields DEF GetCost, Reading
  <2> QED BY <1>1, <1>4, <2>1, <2>2, <2>3 DEF GetCost, GetObject, SetCall, CallType, Reading
<1>5. CASE ListMessages(p)
  <2>1. /\ call[p].before \in SUBSET Message /\ call[p].op \in Reading
        /\ call[p].sum \in 0 .. Cardinality(Message) /\ IsCost(call[p].sum, object)
    BY <1>5, OfProcess, CallFields DEF ListMessages, Reading, CostsOfCall
  <2>2. \A names \in Listings : MessageNames(names) \in SUBSET [key : Key, tmp : BOOLEAN]
    BY DEF Listings, Names, MessageNames
  <2> QED BY <1>1, <1>5, <2>1, <2>2 DEF ListMessages, SetCall, CallType, Reading
<1>6. CASE ReadMessage(p)
  <2>1. PICK x \in NextNames(call[p].names) :
            /\ call' = [call EXCEPT ![p] = AfterRead(call[p], x)]
            /\ AfterRead(call[p], x) \in CallType
    BY <1>6, MessageRead
  <2>2. /\ AfterRead(call[p], x).op = "read" /\ AfterRead(call[p], x).sum = call[p].sum
        /\ call[p].op = "read" /\ UNCHANGED <<storageVars, total, created, known, added, acked>>
    BY <1>6, MessageRead DEF AfterRead
  <2>3. IsCost(call[p].sum, object)
    BY <2>2, OfProcess DEF CostsOfCall
  <2> QED BY <1>1, <2>1, <2>2, <2>3 DEF Reading
<1> QED BY <1>3, <1>4, <1>5, <1>6

-----------------------------------------------------------------------------
LEMMA InvInit == Init => Inv
<1> SUFFICES ASSUME Init PROVE Inv
  OBVIOUS
<1>1. /\ backend \in {"file", "s3"} /\ faults \in Nat
      /\ object = [k \in Key |-> Absent] /\ tmp = [k \in Key |-> Absent]
      /\ \A p \in Process : call[p] = Idle /\ put[p] = NoPut /\ total[p] = NoConv
      /\ call \in [Process -> {Idle}] /\ put \in [Process -> {NoPut}]
      /\ total \in [Process -> {NoConv}]
      /\ created = FALSE /\ known = FALSE /\ added = {} /\ acked = {}
  BY StorageAssumption DEF Init, StorageInit
<1>2. Idle \in CallType /\ Idle.op = "idle" /\ NoPut \in PutType /\ NoPut.at = "idle"
  BY DEF Idle, NoPut, CallType, PutType
<1>3. TypeOK
  BY <1>1, <1>2 DEF TypeOK, StorageTypeOK
<1>4. FilesInv
  BY <1>1, <1>2, Keys DEF FilesInv, OwnFile, MessageFile, AddsMessage, SoleWriter,
                          MessageObjects, Busy, WritingMeta, WritingCost, Reading
<1>5. CostsInv
  BY <1>1, <1>2, Keys DEF CostsInv, CostFile, CostsOfCall, WritingCost
<1> QED BY <1>3, <1>4, <1>5 DEF Inv

LEMMA InvNext == Inv /\ [Next]_vars => Inv'
<1> SUFFICES ASSUME Inv, [Next]_vars PROVE Inv'
  OBVIOUS
<1>1. CASE UNCHANGED vars
  BY <1>1 DEF vars, storageVars, Inv, TypeOK, StorageTypeOK, FilesInv, CostsInv,
              CallType, PutType, WritingMeta
<1>2. ASSUME NEW p \in Process, StoreStep(p)
      PROVE  Inv'
  BY <1>2, StoreKeepsType, StoreKeepsFiles, StoreKeepsCosts DEF Inv
<1> QED BY <1>1, <1>2, MetaBegins, MessageBegins, CostBegins, CallsEnd, Reads DEF Next

LEMMA Invariance == Spec => []Inv
BY InvInit, InvNext, PTL DEF Spec

\* Whatever fails or overlaps, no call, Put or file leaves its type: in particular the
\* totals stay below the number of messages.
THEOREM TypeCorrect == Spec => []TypeOK
<1>1. Inv => TypeOK
  BY DEF Inv
<1> QED BY <1>1, Invariance, PTL

\* Message files have one writer, ever: they are whole or missing.
THEOREM MessageFilesAreWhole == Spec => []MessagesAreWhole
<1>1. Inv => MessagesAreWhole
  BY DEF Inv, FilesInv, MessageObjects, MessagesAreWhole
<1> QED BY <1>1, Invariance, PTL

\* An acknowledged message stays in its file, over crashes and older copies.
THEOREM AckedMessagesStay == Spec => []AckedMessagesSurvive
<1>1. Inv => AckedMessagesSurvive
  BY DEF Inv, FilesInv, MessageObjects, AckedMessagesSurvive
<1> QED BY <1>1, Invariance, PTL

-----------------------------------------------------------------------------
(* What a Get returns. *)

LEMMA ComingIsFinite ==
    ASSUME NEW c, NEW d, Coming(c) \subseteq Coming(d)
    PROVE  /\ Cardinality(Coming(c)) \in Nat /\ Cardinality(Coming(d)) \in Nat
           /\ Cardinality(Coming(c)) <= Cardinality(Coming(d))
<1>1. Coming(d) \subseteq Message
  BY DEF Coming
<1> QED BY <1>1, ConversationsAssumption, FS_Subset, FS_CardinalityType

\* A step that starts no Get and goes on with none.
LEMMA NoReading ==
    ASSUME Inv, GetInv, NEW p \in Process,
           UNCHANGED <<backend, object, tmp>>,
           call'[p].op \notin Reading,
           put'[p].at \notin {"write", "rename", "remove"},
           \A q \in Process \ {p} : call'[q] = call[q] /\ put'[q] = put[q]
    PROVE  GetInv'
<1>1. NoTmpFiles'
  BY DEF GetInv, NoTmpFiles
<1>2. PageSuffices' <=> PageSuffices
  BY DEF PageSuffices
<1>3. ASSUME PageSuffices, NEW q \in Process
      PROVE  GetOfCall(call'[q], object')
  <2>1. CASE q = p
    BY <2>1 DEF GetOfCall, Reading
  <2>2. CASE q # p
    BY <1>3, <2>2 DEF GetInv
  <2> QED BY <2>1, <2>2
<1> QED BY <1>1, <1>2, <1>3 DEF GetInv

LEMMA StoreKeepsGets ==
    ASSUME Inv, GetInv, NEW p \in Process, StoreStep(p)
    PROVE  GetInv'
<1>1. PutStep(p) /\ UNCHANGED <<call, total, created, known, added, acked>>
  BY DEF StoreStep
<1>2. UNCHANGED backend /\ \A m \in Message : object[m] = m => object'[m] = m
  BY <1>1, FilesOfAPut, StoreKeepsFiles DEF Inv
<1>3. ASSUME backend = "s3"
      PROVE  /\ \A k \in Key : tmp'[k] = Absent
             /\ \A q \in Process : put'[q].at \notin {"write", "rename", "remove"}
  <2>1. /\ \A k \in Key : tmp[k] = Absent
        /\ \A q \in Process : put[q].at \notin {"write", "rename", "remove"}
    BY <1>3 DEF GetInv, NoTmpFiles
  <2>2. PutObject(p) \/ PutObjectFails(p)
    BY <1>1, <1>3, <2>1 DEF PutStep, OpenTmp, OpenFails, WriteTmp, WriteTmpFails, RenameTmp,
                            RenameFails, RemoveTmp
  <2>3. /\ UNCHANGED tmp
        /\ put' \in {[put EXCEPT ![p] = [at |-> "ok"]], [put EXCEPT ![p] = [at |-> "failed"]]}
    BY <2>2 DEF PutObject, PutObjectFails, SetPut
  <2> QED BY <2>1, <2>3, OfProcess
<1>4. \A c : GetOfCall(c, object) => GetOfCall(c, object')
  BY <1>2 DEF GetOfCall, Stored
<1> QED BY <1>1, <1>2, <1>3, <1>4 DEF GetInv, NoTmpFiles, PageSuffices

\* A listing that fits into a page has every message that is stored.
LEMMA ListingIsComplete ==
    ASSUME Inv, NoTmpFiles, PageSuffices, NEW names \in Listings
    PROVE  \A m \in Stored(object) : [key |-> m, tmp |-> FALSE] \in MessageNames(names)
<1>1. names = Names
  <2>1. CASE backend = "file"
    BY <2>1 DEF Listings
  <2>2. CASE backend = "s3" /\ Cardinality(Key) <= PageSize
    <3>1. Names \subseteq [key : Key, tmp : {FALSE}]
      BY <2>2 DEF NoTmpFiles, Names
    <3>2. IsFiniteSet(Key)
      <4>1. Key = (Message \cup {MetaKey}) \cup {CostKey}
        BY ConversationsAssumption
      <4>2. IsFiniteSet(Message \cup {MetaKey})
        BY ConversationsAssumption, FS_AddElement
      <4> QED BY <4>1, <4>2, FS_AddElement
    <3> DEFINE f == [x \in Names |-> x.key]
    <3>3. f \in Injection(Names, Key)
      <4>1. f \in [Names -> Key]
        BY <3>1
      <4>2. ASSUME NEW x \in Names, NEW y \in Names, f[x] = f[y]
            PROVE  x = y
        <5>1. /\ x = [key |-> x.key, tmp |-> FALSE] /\ y = [key |-> y.key, tmp |-> FALSE]
              /\ x.key = y.key
          BY <3>1, <4>2
        <5> QED BY <5>1
      <4> HIDE DEF f
      <4> QED BY <4>1, <4>2, Fun_IsInj
    <3>4. Cardinality(Names) <= Cardinality(Key) /\ IsFiniteSet(Names)
      <4> HIDE DEF f
      <4> QED BY <3>2, <3>3, FS_Injection
    <3>5. /\ Cardinality(Names) \in Nat /\ Cardinality(Key) \in Nat /\ PageSize \in Nat
      BY <3>2, <3>4, FS_CardinalityType, StorageAssumption
    <3>6. Cardinality(Names) <= PageSize
      BY <2>2, <3>4, <3>5
    <3> HIDE DEF f
    <3> QED BY <3>6 DEF Listings
  <2>3. backend \in {"file", "s3"}
    BY DEF Inv, TypeOK, StorageTypeOK
  <2> QED BY <2>1, <2>2, <2>3 DEF PageSuffices
<1>2. \A m \in Stored(object) : m \in Key /\ object[m] # Absent
  BY Keys DEF Stored
<1> QED BY <1>1, <1>2, Keys DEF Names, Exists, MessageNames, Stored

LEMMA ReadsKeepGets ==
    ASSUME Inv, GetInv, NEW p \in Process,
           Get(p) \/ GetCost(p) \/ ListMessages(p) \/ ReadMessage(p)
    PROVE  GetInv'
<1>1. UNCHANGED storageVars
  BY MessageRead DEF Get, GetCost, ListMessages, ReadMessage
<1>2. /\ NoTmpFiles /\ (PageSuffices => GetOfCall(call[p], object))
      /\ acked \subseteq Stored(object)
  BY OfProcess DEF GetInv, Stored
<1>3. SUFFICES ASSUME PageSuffices
               PROVE  \E c : GetOfCall(c, object) /\ call' = [call EXCEPT ![p] = c]
  <2>1. NoTmpFiles' /\ (PageSuffices' <=> PageSuffices)
    BY <1>1, <1>2 DEF storageVars, NoTmpFiles, PageSuffices
  <2>2. ASSUME PageSuffices, NEW c, GetOfCall(c, object), call' = [call EXCEPT ![p] = c]
        PROVE  \A q \in Process : GetOfCall(call'[q], object')
    <3>1. \A q \in Process : call'[q] = IF q = p THEN c ELSE call[q]
      BY <2>2, OfProcess
    <3>2. \A q \in Process : GetOfCall(call[q], object)
      BY <2>2 DEF GetInv
    <3> QED BY <1>1, <2>2, <3>1, <3>2 DEF storageVars
  <2> QED BY <2>1, <2>2 DEF GetInv
<1>4. CASE Get(p)
  <2> DEFINE c == [op |-> "getCost", before |-> acked]
  <2>1. GetOfCall(c, object)
    BY <1>2 DEF GetOfCall, Reading
  <2>2. call' = [call EXCEPT ![p] = c]
    BY <1>4 DEF Get, SetCall
  <2> QED BY <2>1, <2>2
<1>5. CASE GetCost(p)
  <2> DEFINE c == [op |-> "list", before |-> call[p].before, sum |-> object[CostKey]]
  <2>1. GetOfCall(c, object)
    BY <1>2, <1>3, <1>5 DEF GetCost, GetOfCall, Reading
  <2>2. call' = [call EXCEPT ![p] = c]
    BY <1>5 DEF GetCost, GetObject, SetCall
  <2> QED BY <2>1, <2>2
<1>6. CASE ListMessages(p)
  <2>1. PICK names \in Listings :
            call' = [call EXCEPT ![p] =
                       [op |-> "read", before |-> call[p].before, sum |-> call[p].sum,
                        got |-> {}, names |-> MessageNames(names)]]
    BY <1>6 DEF ListMessages, SetCall
  <2> DEFINE c == [op |-> "read", before |-> call[p].before, sum |-> call[p].sum,
                   got |-> {}, names |-> MessageNames(names)]
  <2>2. Stored(object) \subseteq Coming(c)
    BY <1>2, <1>3, ListingIsComplete DEF Coming, Stored
  <2>3. call[p].before \subseteq Stored(object) /\ call[p].sum <= Cardinality(Coming(c))
    <3>1. call[p].op = "list"
      BY <1>6 DEF ListMessages
    <3>2. call[p].before \subseteq Stored(object) /\ IsCost(call[p].sum, object)
      BY <3>1, <1>2, <1>3, OfProcess DEF GetOfCall, Reading, CostsOfCall
    <3>3. /\ Cardinality(Stored(object)) <= Cardinality(Coming(c))
          /\ Cardinality(Stored(object)) \in Nat /\ Cardinality(Coming(c)) \in Nat
      <4>1. Coming(c) \subseteq Message
        BY DEF Coming
      <4>2. IsFiniteSet(Coming(c))
        BY <4>1, ConversationsAssumption, FS_Subset
      <4> HIDE DEF c
      <4> QED BY <2>2, <4>2, StoredIsFinite, FS_Subset, FS_CardinalityType
    <3> HIDE DEF c
    <3> QED BY <3>2, <3>3 DEF IsCost
  <2>4. c.op = "read" /\ c.before = call[p].before /\ c.sum = call[p].sum
    OBVIOUS
  <2>5. call' = [call EXCEPT ![p] = c]
    BY <2>1
  <2> HIDE DEF c
  <2>6. GetOfCall(c, object)
    BY <2>2, <2>3, <2>4 DEF GetOfCall
  <2> QED BY <2>5, <2>6
<1>7. CASE ReadMessage(p)
  <2>1. PICK x \in NextNames(call[p].names) :
            /\ Contents(x) \notin {Absent, Empty, Torn}
            /\ call' = [call EXCEPT ![p] = AfterRead(call[p], x)]
    BY <1>7, MessageRead
  <2> DEFINE c == AfterRead(call[p], x)
  <2>2. call[p].op = "read" /\ call[p].names \in SUBSET [key : Key, tmp : BOOLEAN]
    BY <1>7, MessageRead
  <2>3. /\ c.op = "read" /\ c.before = call[p].before /\ c.sum = call[p].sum
        /\ c.got = call[p].got \cup {Contents(x)} /\ c.names = call[p].names \ {x}
    BY DEF AfterRead
  <2> HIDE DEF c
  <2>4. Coming(call[p]) \subseteq Coming(c)
    <3>1. ASSUME NEW m \in Message, x = [key |-> m, tmp |-> FALSE]
          PROVE  Contents(x) = m
      <4>1. Contents(x) = object[m]
        BY <3>1 DEF Contents, GetObject
      <4>2. object[m] \in {Absent, m}
        BY DEF Inv, FilesInv, MessageObjects
      <4> QED BY <2>1, <4>1, <4>2
    <3> QED BY <2>3, <3>1 DEF Coming
  <2>5. /\ call[p].before \subseteq Stored(object) /\ call[p].before \subseteq Coming(call[p])
        /\ call[p].sum <= Cardinality(Coming(call[p]))
        /\ call[p].sum \in Nat
    <3>1. call[p].sum \in 0 .. Cardinality(Message) /\ Cardinality(Message) \in Nat
      BY <2>2, OfProcess, CallFields, StoredIsFinite
    <3> QED BY <3>1, <2>2, <1>2, <1>3 DEF GetOfCall, Reading
  <2>6. GetOfCall(c, object)
    <3>1. call[p].sum <= Cardinality(Coming(c))
      BY <2>4, <2>5, ComingIsFinite
    <3> QED BY <2>3, <2>4, <2>5, <3>1 DEF GetOfCall
  <2> QED BY <2>1, <2>6 DEF c
<1> QED BY <1>4, <1>5, <1>6, <1>7

LEMMA GetInvInit == Init => GetInv
<1> SUFFICES ASSUME Init PROVE GetInv
  OBVIOUS
<1>1. /\ tmp = [k \in Key |-> Absent]
      /\ \A p \in Process : call[p] = Idle /\ put[p] = NoPut
  BY DEF Init, StorageInit
<1>2. Idle.op = "idle" /\ NoPut.at = "idle"
  BY DEF Idle, NoPut
<1> QED BY <1>1, <1>2 DEF GetInv, NoTmpFiles, GetOfCall, Reading

LEMMA GetInvNext == Inv /\ GetInv /\ [Next]_vars => GetInv'
<1> SUFFICES ASSUME Inv, GetInv, [Next]_vars PROVE GetInv'
  OBVIOUS
<1>1. CASE UNCHANGED vars
  <2>1. UNCHANGED <<backend, object, tmp, put, call>>
    BY <1>1 DEF vars, storageVars
  <2> QED BY <2>1 DEF GetInv, NoTmpFiles, PageSuffices
<1>2. ASSUME NEW p \in Process, NEW c, NEW u,
             c.op \notin Reading, u.at \notin {"write", "rename", "remove"},
             call' = [call EXCEPT ![p] = c], put' = [put EXCEPT ![p] = u],
             UNCHANGED <<backend, object, tmp>>
      PROVE  GetInv'
  <2>1. /\ call'[p] = c /\ put'[p] = u
        /\ \A q \in Process \ {p} : call'[q] = call[q] /\ put'[q] = put[q]
    BY <1>2, OfProcess
  <2> QED BY <1>2, <2>1, NoReading
<1>3. \A k, d : PutCall(k, d).at = "open"
  BY DEF PutCall
<1>4. Idle.op = "idle" /\ NoPut.at = "idle"
  BY DEF Idle, NoPut
<1>5. ASSUME NEW p \in Process, Create(p) \/ Save(p)
      PROVE  GetInv'
  <2>1. PICK c \in [op : {"create", "save"}], s \in Session : Begin(p, c, MetaKey, s)
    BY <1>5 DEF Create, Save
  <2>2. c.op \notin Reading
    BY DEF Reading
  <2> QED BY <1>2, <1>3, <2>1, <2>2 DEF Begin, SetCall, SetPut
<1>6. ASSUME NEW p \in Process, NEW m \in Message, AddMessage(p, m)
      PROVE  GetInv'
  <2>1. [op |-> "add", msg |-> m].op \notin Reading
    BY DEF Reading
  <2> QED BY <1>2, <1>3, <1>6, <2>1 DEF AddMessage, Begin, SetCall, SetPut
<1>7. ASSUME NEW p \in Process, CreateCost(p) \/ SaveCost(p) \/ AddCost(p)
      PROVE  GetInv'
  <2>1. PICK c, v : PutCost(p, c, v) /\ c.op \in WritingCost
    <3>1. CASE CreateCost(p)
      BY <3>1 DEF CreateCost, WritingCost
    <3>2. CASE SaveCost(p)
      BY <3>2 DEF SaveCost, WritingCost
    <3>3. CASE AddCost(p)
      <4>1. PutCost(p, [call[p] EXCEPT !.op = "addCost"], total[p] + 1) /\ call[p].op = "add"
        BY <3>3 DEF AddCost
      <4>2. call[p] = [op |-> "add", msg |-> call[p].msg]
        BY <4>1, OfProcess DEF CallType, WritingMeta
      <4>3. [call[p] EXCEPT !.op = "addCost"].op = "addCost"
        BY <4>2
      <4> QED BY <4>1, <4>3 DEF WritingCost
    <3> QED BY <1>7, <3>1, <3>2, <3>3
  <2>2. c.op \notin Reading
    BY <2>1 DEF WritingCost, Reading
  <2> QED BY <1>2, <1>3, <2>1, <2>2 DEF PutCost, SetCall, SetPut
<1>8. ASSUME NEW p \in Process,
             PutsDone(p) \/ PutsFail(p) \/ GetReturns(p) \/ GetFails(p) \/ Crash(p)
      PROVE  GetInv'
  <2>1. call[p].op \in Reading => put = [put EXCEPT ![p] = NoPut]
    <3>1. call[p].op \in Reading => put[p] = NoPut
      BY <1>8, OfProcess DEF OwnFile, PutType, NoPut
    <3> QED BY <3>1, OfProcess
  <2>2. /\ call' = [call EXCEPT ![p] = Idle] /\ put' = [put EXCEPT ![p] = NoPut]
        /\ UNCHANGED <<backend, object, tmp>>
    <3>1. CASE PutsDone(p) \/ PutsFail(p) \/ Crash(p)
      BY <3>1 DEF PutsDone, PutsFail, Crash, SetCall, SetPut
    <3>2. CASE GetReturns(p) \/ GetFails(p)
      BY <2>1, <3>2 DEF GetReturns, GetFails, SetCall, storageVars, Reading
    <3> QED BY <1>8, <3>1, <3>2
  <2> QED BY <1>2, <1>4, <2>2 DEF Reading
<1> QED BY <1>1, <1>5, <1>6, <1>7, <1>8, StoreKeepsGets, ReadsKeepGets DEF Next

LEMMA GetInvariance == Spec => [](Inv /\ GetInv)
<1>1. Init => Inv /\ GetInv
  BY InvInit, GetInvInit
<1>2. Inv /\ GetInv /\ [Next]_vars => (Inv /\ GetInv)'
  BY InvNext, GetInvNext
<1> QED BY <1>1, <1>2, PTL DEF Spec

\* A Get that succeeds has every message acknowledged before it was called, on the file
\* store always, and on S3 if one page of a listing can hold all names.
THEOREM GetReturnsAcked == Spec => [](PageSuffices => GetSeesAcked)
<1>1. Inv /\ GetInv => (PageSuffices => GetSeesAcked)
  BY DEF GetInv, GetOfCall, Coming, GetSeesAcked, GetEnds
<1> QED BY <1>1, GetInvariance, PTL

\* The same for its total: no cost without the message that it is for.
THEOREM GetReturnsBackedTotal == Spec => [](PageSuffices => GetTotalIsBacked)
<1>1. ASSUME Inv, GetInv, PageSuffices, NEW p \in Process, GetEnds(p)
      PROVE  call[p].sum <= Cardinality(call[p].got \cap Message)
  <2>1. Coming(call[p]) = call[p].got \cap Message
    BY <1>1 DEF GetEnds, Coming
  <2> QED BY <1>1, <2>1 DEF GetInv, GetOfCall, GetEnds
<1>2. Inv /\ GetInv => (PageSuffices => GetTotalIsBacked)
  BY <1>1 DEF GetTotalIsBacked
<1> QED BY <1>2, GetInvariance, PTL
=============================================================================
