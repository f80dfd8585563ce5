------------------------------- MODULE Storage -------------------------------
(***************************************************************************)
(* storage/file.go and storage/s3.go: what a process does on one key of a  *)
(* store.  The file store writes a temporary file, the same for every      *)
(* writer of a key, and renames it; the S3 store (the service is external) *)
(* puts the object at once.  A process has one Put under way at most.      *)
(***************************************************************************)
EXTENDS Naturals, FiniteSets

CONSTANTS
    Process,   \* goroutines that use the store
    Key,       \* the keys they use
    Data,      \* what they put
    Absent,    \* no such file or object
    Empty,     \* a file that is opened and truncated
    Torn,      \* a file with parts of two writes, or a part of one
    PageSize,  \* the most names one answer of the S3 service lists (1000)
    MaxFaults  \* bound: calls that fail, and crashes

ASSUME StorageAssumption ==
    /\ {Absent, Empty, Torn} \cap Data = {}
    /\ Absent \notin {Empty, Torn}
    /\ PageSize \in Nat \ {0}
    /\ MaxFaults \in Nat

VARIABLES
    backend,   \* "file" or "s3", from the configuration
    object,    \* what each key's file or object holds
    tmp,       \* what each key's temporary file holds
    put,       \* the Put call of each process
    faults     \* what is left of the bound on faults

storageVars == <<backend, object, tmp, put, faults>>

\* "fd" is the file that the descriptor of the call stands for: the temporary
\* file, the key's own file after a rename by somebody else, or one that is gone.
NoPut == [at |-> "idle"]
PutCall(k, d) == [at |-> "open", key |-> k, data |-> d]
SetPut(p, r) == put' = [put EXCEPT ![p] = r]

StorageInit ==
    /\ backend \in {"file", "s3"}
    /\ object = [k \in Key |-> Absent]
    /\ tmp = [k \in Key |-> Absent]
    /\ put = [p \in Process |-> NoPut]
    /\ faults = MaxFaults

Fault == faults > 0 /\ faults' = faults - 1

\* The Put calls, after the files of k have changed their names.
Renamed(k, name) ==
    [p \in Process |-> IF put[p].at = "write" /\ put[p].key = k
                       THEN [put[p] EXCEPT !.fd = name[@]] ELSE put[p]]

-----------------------------------------------------------------------------
\* FileStore.Put: WriteFile opens and truncates the temporary file ...
OpenTmp(p) ==
    /\ backend = "file"
    /\ put[p].at = "open"
    /\ tmp' = [tmp EXCEPT ![put[p].key] = Empty]
    /\ SetPut(p, [at |-> "write", key |-> put[p].key, data |-> put[p].data, fd |-> "tmp"])
    /\ UNCHANGED <<backend, object, faults>>

OpenFails(p) ==
    /\ backend = "file"
    /\ put[p].at = "open"
    /\ Fault
    /\ SetPut(p, [at |-> "failed"])
    /\ UNCHANGED <<backend, object, tmp>>

\* ... and writes at its start: if another call has written since, the rest of a
\* longer text stays behind.  A write that fails half way leaves a part.
Written(old, d, whole) ==
    IF ~whole THEN {Torn, old} ELSE IF old \in {Empty, d} THEN {d} ELSE {d, Torn}

WriteThrough(p, whole) ==
    LET k == put[p].key
        d == put[p].data
    IN
    /\ IF put[p].fd = "tmp"
       THEN \E c \in Written(tmp[k], d, whole) : tmp' = [tmp EXCEPT ![k] = c]
       ELSE UNCHANGED tmp
    /\ IF put[p].fd = "object"
       THEN \E c \in Written(object[k], d, whole) : object' = [object EXCEPT ![k] = c]
       ELSE UNCHANGED object

WriteTmp(p) ==
    /\ put[p].at = "write"
    /\ WriteThrough(p, TRUE)
    /\ SetPut(p, [at |-> "rename", key |-> put[p].key])
    /\ UNCHANGED <<backend, faults>>

\* No space left, for example: Put returns, the file stays.
WriteTmpFails(p) ==
    /\ put[p].at = "write"
    /\ Fault
    /\ WriteThrough(p, FALSE)
    /\ SetPut(p, [at |-> "failed"])
    /\ UNCHANGED backend

\* Mutant of RenameTmp: the rename does not wait for the write.
RenameUnwritten(p) ==
    /\ put[p].at \in {"write", "rename"}
    /\ LET k == put[p].key IN
       /\ tmp[k] # Absent
       /\ object' = [object EXCEPT ![k] = tmp[k]]
       /\ tmp' = [tmp EXCEPT ![k] = Absent]
       /\ put' = [Renamed(k, [tmp |-> "object", object |-> "gone", gone |-> "gone"])
                  EXCEPT ![p] = [at |-> "ok"]]
    /\ UNCHANGED <<backend, faults>>

\* The rename moves the name, whoever wrote the file last.
RenameTmp(p) ==
    /\ put[p].at = "rename"
    /\ LET k == put[p].key IN
       /\ tmp[k] # Absent
       /\ object' = [object EXCEPT ![k] = tmp[k]]
       /\ tmp' = [tmp EXCEPT ![k] = Absent]
       /\ put' = [Renamed(k, [tmp |-> "object", object |-> "gone", gone |-> "gone"])
                  EXCEPT ![p] = [at |-> "ok"]]
    /\ UNCHANGED <<backend, faults>>

\* Another call has renamed the file already, or the rename fails: Put removes the
\* temporary file, which may be a third call's by then, and returns an error.
RenameFails(p) ==
    /\ put[p].at = "rename"
    /\ IF tmp[put[p].key] = Absent THEN UNCHANGED faults ELSE Fault
    /\ SetPut(p, [at |-> "remove", key |-> put[p].key])
    /\ UNCHANGED <<backend, object, tmp>>

RemoveTmp(p) ==
    /\ put[p].at = "remove"
    /\ LET k == put[p].key IN
       /\ tmp' = [tmp EXCEPT ![k] = Absent]
       /\ put' = [Renamed(k, [tmp |-> "gone", object |-> "object", gone |-> "gone"])
                  EXCEPT ![p] = [at |-> "failed"]]
    /\ UNCHANGED <<backend, object, faults>>

\* S3Store.Put: the whole object, or an error, with or without effect.
PutObject(p) ==
    /\ backend = "s3"
    /\ put[p].at = "open"
    /\ object' = [object EXCEPT ![put[p].key] = put[p].data]
    /\ SetPut(p, [at |-> "ok"])
    /\ UNCHANGED <<backend, tmp, faults>>

PutObjectFails(p) ==
    /\ backend = "s3"
    /\ put[p].at = "open"
    /\ Fault
    /\ object' \in {object, [object EXCEPT ![put[p].key] = put[p].data]}
    /\ SetPut(p, [at |-> "failed"])
    /\ UNCHANGED <<backend, tmp>>

PutStep(p) ==
    \/ OpenTmp(p) \/ OpenFails(p) \/ WriteTmp(p) \/ WriteTmpFails(p)
    \/ RenameTmp(p) \/ RenameFails(p) \/ RemoveTmp(p)
    \/ PutObject(p) \/ PutObjectFails(p)

-----------------------------------------------------------------------------
Exists(k) == object[k] # Absent

GetObject(k) == object[k]

\* What a directory lists: names of keys, and of their temporary files.
Names ==
    [key : {k \in Key : Exists(k)}, tmp : {FALSE}]
        \cup [key : {k \in Key : tmp[k] # Absent}, tmp : {TRUE}]

\* What List may return.  The file store lists every name (and joins it to the prefix
\* with one slash too many); the S3 store asks for one page and returns that.
Listings ==
    IF backend = "file" \/ Cardinality(Names) <= PageSize
    THEN {Names}
    ELSE {names \in SUBSET Names : Cardinality(names) = PageSize}

\* Get of a listed name.
Contents(x) == IF x.tmp THEN tmp[x.key] ELSE GetObject(x.key)

PutType ==
    [at : {"idle", "ok", "failed"}]
        \cup [at : {"open"}, key : Key, data : Data]
        \cup [at : {"rename", "remove"}, key : Key]
        \cup [at : {"write"}, key : Key, data : Data, fd : {"tmp", "object", "gone"}]

StorageTypeOK ==
    /\ backend \in {"file", "s3"}
    /\ object \in [Key -> Data \cup {Absent, Empty, Torn}]
    /\ tmp \in [Key -> Data \cup {Absent, Empty, Torn}]
    /\ put \in [Process -> PutType]
    /\ faults \in Nat
=============================================================================
