---------------------------- MODULE AgentRunProofs ----------------------------
(***************************************************************************)
(* Safety of agent runs, for any number of concurrent Run calls, any pipe  *)
(* size and any length of the CLI's output.                                *)
(***************************************************************************)
EXTENDS AgentRun, SequenceTheorems, TLAPS

RunType ==
    [at : {"open", "write", "orphan", "start", "scan", "wait", "remove", "done"},
     attempt : 1..2,
     result : {"none", "ok", "failed", "refused", "noconfig"}]

CliType ==
    [at : {"none", "loading", "running"}, wrote : Seq(Line)]
      \cup [at : {"printing"}, wrote : Seq(Line), line : Line]
      \cup [at : {"exited"}, wrote : Seq(Line), code : {"ok", "failed", "refused"}]

\* What a CLI process that is gone leaves: its exit code.
LEMMA ExitedHasCode ==
    ASSUME NEW p \in CliType
    PROVE  /\ p.wrote \in Seq(Line)
           /\ p.at = "exited" => p.code \in {"ok", "failed", "refused"}
           /\ p.at = "printing" => p.line \in Line
  BY DEF CliType

LEMMA ActionTypes ==
    ASSUME TypeOK, NEW c \in Caller
    PROVE  /\ run[c] \in RunType /\ cli[c] \in CliType /\ session[c] \in {"none", "live", "stale"}
           /\ text[c] \in Seq(Line) /\ pipe[c] \in Seq(Line)
  BY DEF TypeOK, RunType, CliType

\* One attempt more, or the end.
LEMMA AfterAttemptType ==
    ASSUME TypeOK, NEW c \in Caller
    PROVE  AfterAttempt(c) \in RunType
  BY ActionTypes DEF AfterAttempt, RunType

LEMMA TypeInit == Init => TypeOK
<1> SUFFICES ASSUME Init PROVE TypeOK
  OBVIOUS
<1>1. run \in [Caller -> RunType]
  BY DEF Init, RunType
<1>2. NoProcess \in CliType /\ <<>> \in Seq(Line)
  BY DEF NoProcess, CliType
<1>3. cli \in [Caller -> CliType] /\ text \in [Caller -> Seq(Line)] /\ pipe \in [Caller -> Seq(Line)]
  BY <1>2 DEF Init
<1> QED
  BY <1>1, <1>3 DEF Init, TypeOK, RunType, CliType

LEMMA RunStepType ==
    ASSUME TypeOK, NEW c \in Caller, RunStep(c)
    PROVE  TypeOK'
<1>1. /\ run[c] \in RunType /\ cli[c] \in CliType /\ text[c] \in Seq(Line) /\ pipe[c] \in Seq(Line)
      /\ run \in [Caller -> RunType] /\ cli \in [Caller -> CliType]
      /\ text \in [Caller -> Seq(Line)] /\ pipe \in [Caller -> Seq(Line)]
  BY ActionTypes DEF TypeOK, RunType, CliType
<1>2. run' \in [Caller -> RunType]
  <2>1. ASSUME NEW at \in {"write", "start", "scan", "wait"}, GoTo(c, at) PROVE run' \in [Caller -> RunType]
    BY <1>1, <2>1 DEF GoTo, RunType
  <2>2. ASSUME NEW at \in {"remove", "done"}, NEW r \in {"noconfig", "failed", "ok", "refused"}, Ends(c, at, r)
        PROVE  run' \in [Caller -> RunType]
    BY <1>1, <2>2 DEF Ends, RunType
  <2>3. CASE Remove(c)
    <3>1. \A d \in Caller : run[d].at = "write" => [run[d] EXCEPT !.at = "orphan"] \in RunType
      BY <1>1 DEF RunType
    <3> QED
      BY <1>1, <2>3, <3>1, AfterAttemptType DEF Remove
  <2>4. CASE Wait(c)
    BY <1>1, <2>2, <2>4, ExitedHasCode DEF Wait
  <2>5. CASE Scan(c)
    BY <1>1, <2>1, <2>5 DEF Scan
  <2> QED
    BY <2>1, <2>2, <2>3, <2>4, <2>5
    DEF RunStep, OpenConfig, WriteConfig, WriteConfigFails, Start, StartFails, ScanEnds
<1>3. cli' \in [Caller -> CliType]
  <2>1. [at |-> "loading", wrote |-> <<>>] \in CliType
    BY DEF CliType
  <2> QED
    BY <1>1, <2>1 DEF RunStep, OpenConfig, WriteConfig, WriteConfigFails, Start, StartFails, Scan, ScanEnds,
                      Wait, Remove
<1>4. text' \in [Caller -> Seq(Line)] /\ pipe' \in [Caller -> Seq(Line)]
  <2>1. <<>> \in Seq(Line)
    OBVIOUS
  <2>2. CASE Scan(c)
    <3>1. Head(pipe[c]) \in Line /\ Tail(pipe[c]) \in Seq(Line)
      BY <1>1, <2>2 DEF Scan
    <3>2. Append(text[c], Head(pipe[c])) \in Seq(Line)
      BY <1>1, <3>1
    <3> QED
      BY <1>1, <2>2, <3>1, <3>2 DEF Scan
  <2> QED
    BY <1>1, <2>1, <2>2 DEF RunStep, OpenConfig, WriteConfig, WriteConfigFails, Start, StartFails, ScanEnds,
                      Wait, Remove
<1>5. session' = session /\ config' \in Caller \cup {NoFile, Cut}
  BY DEF TypeOK, RunStep, OpenConfig, WriteConfig, WriteConfigFails, Start, StartFails, Scan, ScanEnds,
         Wait, Remove
<1> QED
  BY <1>2, <1>3, <1>4, <1>5 DEF TypeOK, RunType, CliType, Line

LEMMA CliStepType ==
    ASSUME TypeOK, NEW c \in Caller, CliStep(c)
    PROVE  TypeOK'
<1>1. /\ run[c] \in RunType /\ cli[c] \in CliType /\ cli[c].wrote \in Seq(Line) /\ pipe[c] \in Seq(Line)
      /\ cli \in [Caller -> CliType] /\ pipe \in [Caller -> Seq(Line)]
  BY ActionTypes, ExitedHasCode DEF TypeOK, CliType
<1>2. CASE Load(c)
  <2>1. /\ [at |-> "exited", wrote |-> <<>>, code |-> "refused"] \in CliType
        /\ cli[c].at = "loading" => [cli[c] EXCEPT !.at = "running"] \in CliType
    BY <1>1 DEF CliType
  <2>2. cli' \in [Caller -> CliType]
    BY <1>1, <1>2, <2>1 DEF Load
  <2> QED
    BY <1>2, <2>2 DEF Load, TypeOK, CliType, Line
<1>3. CASE BeginLine(c)
  <2>1. PICK k \in {"text", "other", "long"} :
          cli' = [cli EXCEPT ![c] =
                    [at |-> "printing", wrote |-> @.wrote,
                     line |-> [attempt |-> run[c].attempt, kind |-> k, number |-> Len(@.wrote) + 1]]]
    BY <1>3 DEF BeginLine
  <2>2. Len(cli[c].wrote) + 1 \in 1..MaxLines
    BY <1>1, <1>3, AgentAssumption DEF BeginLine
  <2>3. [attempt |-> run[c].attempt, kind |-> k, number |-> Len(cli[c].wrote) + 1] \in Line
    BY <1>1, <2>2 DEF Line, RunType
  <2>4. cli' \in [Caller -> CliType]
    BY <1>1, <2>1, <2>3 DEF CliType
  <2> QED
    BY <1>3, <2>4 DEF BeginLine, TypeOK, CliType, Line
<1>4. CASE WriteLine(c)
  <2>1. cli[c].line \in Line
    BY <1>1, <1>4, ExitedHasCode DEF WriteLine
  <2>2. Append(pipe[c], cli[c].line) \in Seq(Line) /\ Append(cli[c].wrote, cli[c].line) \in Seq(Line)
    BY <1>1, <2>1
  <2>3. [at |-> "running", wrote |-> Append(cli[c].wrote, cli[c].line)] \in CliType
    BY <2>2 DEF CliType
  <2>4. cli' \in [Caller -> CliType] /\ pipe' \in [Caller -> Seq(Line)]
    BY <1>1, <1>4, <2>2, <2>3 DEF WriteLine
  <2> QED
    BY <1>4, <2>4 DEF WriteLine, TypeOK, CliType, Line
<1>5. CASE Exit(c)
  <2>1. \A code \in {"ok", "failed"} : [at |-> "exited", wrote |-> cli[c].wrote, code |-> code] \in CliType
    BY <1>1 DEF CliType
  <2>2. cli' \in [Caller -> CliType]
    BY <1>1, <1>5, <2>1 DEF Exit
  <2> QED
    BY <1>5, <2>2 DEF Exit, TypeOK, CliType, Line
<1> QED
  BY <1>2, <1>3, <1>4, <1>5 DEF CliStep

LEMMA TypeNext == TypeOK /\ [Next]_vars => TypeOK'
<1>1. TypeOK /\ UNCHANGED vars => TypeOK'
  BY DEF TypeOK, Line, vars
<1> QED
  BY <1>1, RunStepType, CliStepType DEF Next

\* In every state every variable has its type: in particular no Run goes beyond a
\* second attempt.
THEOREM TypeCorrect == Spec => []TypeOK
<1>1. Init => TypeOK
  BY TypeInit
<1>2. TypeOK /\ [Next]_vars => TypeOK'
  BY TypeNext
<1> QED
  BY <1>1, <1>2, PTL DEF Spec

-----------------------------------------------------------------------------
\* A step of one Run leaves the others alone, but for the file: a Run that was
\* about to write finds it removed.
LEMMA OthersStay ==
    ASSUME TypeOK, NEW c \in Caller, NEW d \in Caller, c # d, RunStep(d) \/ CliStep(d)
    PROVE  /\ session'[c] = session[c] /\ text'[c] = text[c] /\ cli'[c] = cli[c] /\ pipe'[c] = pipe[c]
           /\ \/ run'[c] = run[c]
              \/ run[c].at = "write" /\ run'[c].at = "orphan" /\ config' = NoFile
                 /\ run'[c].attempt = run[c].attempt /\ run'[c].result = run[c].result
<1>1. run[c] \in RunType
  BY ActionTypes
<1>2. [run[c] EXCEPT !.at = "orphan"] = [at |-> "orphan", attempt |-> run[c].attempt, result |-> run[c].result]
  BY <1>1 DEF RunType
<1> QED
  BY <1>2 DEF TypeOK, RunStep, OpenConfig, WriteConfig, WriteConfigFails, Start, StartFails, Scan, ScanEnds, Wait,
         Remove, CliStep, Load, BeginLine, WriteLine, Exit, GoTo, Ends

\* A process is refused only in an attempt that resumes a session, and there is a
\* process only while Run reads or waits.
RefusedResumes(c) ==
    /\ cli[c].at \notin {"none", "exited"} => run[c].at \in {"scan", "wait"}
    /\ run[c].at \in {"scan", "wait"} /\ cli[c].at = "exited" /\ cli[c].code = "refused" => Resumes(c)
    /\ run[c].at = "remove" /\ run[c].result = "refused" => Resumes(c)
    /\ run[c].at = "done" => run[c].result # "refused"

StaleInv == \A c \in Caller : RefusedResumes(c)

LEMMA StaleInit == Init => StaleInv
<1> SUFFICES ASSUME Init, NEW c \in Caller PROVE RefusedResumes(c)
  BY DEF StaleInv
<1>1. run[c].at = "open" /\ cli[c].at = "none"
  BY DEF Init, NoProcess
<1> QED
  BY <1>1 DEF RefusedResumes

LEMMA StaleNext == TypeOK /\ StaleInv /\ [Next]_vars => StaleInv'
<1> SUFFICES ASSUME TypeOK, StaleInv, Next, NEW c \in Caller PROVE RefusedResumes(c)'
  BY DEF StaleInv, RefusedResumes, Resumes, vars
<1>1. PICK d \in Caller : RunStep(d) \/ CliStep(d)
  BY DEF Next
<1>2. RefusedResumes(c) /\ run[c] \in RunType /\ cli[c] \in CliType
  BY ActionTypes DEF StaleInv
<1>3. CASE c # d
  BY <1>1, <1>2, <1>3, OthersStay DEF RefusedResumes, Resumes
<1>4. CASE CliStep(c)
  <2>1. run' = run /\ session' = session
    BY <1>4 DEF CliStep, Load, BeginLine, WriteLine, Exit
  <2>2. cli[c].at \in {"loading", "running", "printing"}
    BY <1>4 DEF CliStep, Load, BeginLine, WriteLine, Exit
  <2>3. run[c].at \in {"scan", "wait"}
    BY <1>2, <2>2 DEF RefusedResumes
  <2>4. cli'[c].at = "exited" /\ cli'[c].code = "refused" => Resumes(c)
    BY <1>4 DEF CliStep, Load, BeginLine, WriteLine, Exit, TypeOK
  <2> QED
    BY <2>1, <2>3, <2>4 DEF RefusedResumes, Resumes
<1>5. CASE RunStep(c)
  <2>1. CASE OpenConfig(c) \/ WriteConfig(c) \/ WriteConfigFails(c) \/ StartFails(c)
    <3>1. cli' = cli /\ run[c].at \in {"open", "write", "orphan", "start"}
      BY <2>1 DEF OpenConfig, WriteConfig, WriteConfigFails, StartFails
    <3>2. \/ run'[c].at \in {"write", "start"}
          \/ run'[c].at \in {"done", "remove"} /\ run'[c].result \in {"failed", "noconfig"}
      BY <1>2, <2>1 DEF OpenConfig, WriteConfig, WriteConfigFails, StartFails, GoTo, Ends, TypeOK, RunType
    <3> QED
      BY <1>2, <3>1, <3>2 DEF RefusedResumes
  <2>2. CASE Start(c)
    BY <1>2, <2>2 DEF RefusedResumes, Start, TypeOK, GoTo
  <2>3. CASE Scan(c) \/ ScanEnds(c)
    <3>1. cli' = cli /\ session' = session /\ run[c].at = "scan"
      BY <2>3 DEF Scan, ScanEnds
    <3>2. run'[c].at \in {"scan", "wait"} /\ run'[c].attempt = run[c].attempt
      BY <1>2, <2>3 DEF Scan, ScanEnds, GoTo, TypeOK
    <3> QED
      BY <1>2, <3>1, <3>2 DEF RefusedResumes, Resumes
  <2>4. CASE Wait(c)
    <3>1. cli' = cli /\ session' = session /\ run[c].at = "wait" /\ cli[c].at = "exited"
      BY <2>4 DEF Wait
    <3>2. run'[c].at = "remove" /\ run'[c].attempt = run[c].attempt /\ run'[c].result = cli[c].code
      BY <1>2, <2>4 DEF Wait, Ends, TypeOK
    <3> QED
      BY <1>2, <3>1, <3>2 DEF RefusedResumes, Resumes
  <2>5. CASE Remove(c)
    <3>1. cli' = cli /\ session' = session /\ run[c].at = "remove"
      BY <2>5 DEF Remove
    <3>2. run'[c] = AfterAttempt(c)
      BY <2>5 DEF Remove, TypeOK
    <3>3. CASE run[c].result = "refused" /\ Resumes(c)
      BY <1>2, <3>1, <3>2, <3>3 DEF AfterAttempt, RefusedResumes
    <3>4. CASE ~(run[c].result = "refused" /\ Resumes(c))
      <4>1. run'[c] = [run[c] EXCEPT !.at = "done"]
        BY <3>2, <3>4 DEF AfterAttempt
      <4>2. run'[c].at = "done" /\ run'[c].result = run[c].result
        BY <1>2, <4>1 DEF RunType
      <4> QED
        BY <1>2, <3>1, <3>4, <4>2 DEF RefusedResumes
    <3> QED
      BY <3>3, <3>4
  <2> QED
    BY <1>5, <2>1, <2>2, <2>3, <2>4, <2>5 DEF RunStep
<1> QED
  BY <1>1, <1>3, <1>4, <1>5

\* No caller is told that the session is gone: Run starts again without it.  The
\* strengthening ties the refusal to an attempt that resumes a session, from the
\* exit of the process to the end of the attempt.
THEOREM StaleSessionsAreRetried == Spec => []StaleIsNeverReported
<1>1. Init => StaleInv
  BY StaleInit
<1>2. TypeOK /\ StaleInv /\ [Next]_vars => StaleInv'
  BY StaleNext
<1>3. StaleInv => StaleIsNeverReported
  BY DEF StaleInv, RefusedResumes, StaleIsNeverReported
<1> QED
  BY <1>1, <1>2, <1>3, TypeCorrect, PTL DEF Spec

-----------------------------------------------------------------------------
\* The file with the servers exists only on behalf of a Run that will remove it,
\* or of one whose write failed.
ConfigHasOwner ==
    config # NoFile =>
        \E c \in Caller :
            \/ run[c].at \in {"write", "start", "scan", "wait", "remove"}
            \/ run[c].at = "done" /\ run[c].result = "noconfig"

LEMMA ConfigNext == TypeOK /\ ConfigHasOwner /\ [Next]_vars => ConfigHasOwner'
<1> SUFFICES ASSUME TypeOK, ConfigHasOwner, Next, config' # NoFile PROVE ConfigHasOwner'
  BY DEF ConfigHasOwner, vars
<1>1. PICK d \in Caller : RunStep(d) \/ CliStep(d)
  BY DEF Next
<1>2. run[d] \in RunType
  BY ActionTypes
<1>3. CASE \/ OpenConfig(d) \/ (WriteConfig(d) /\ run[d].at = "write")
           \/ Start(d) \/ StartFails(d) \/ Scan(d) \/ ScanEnds(d) \/ Wait(d)
  <2>1. run'[d].at \in {"write", "start", "scan", "wait", "remove"}
    BY <1>2, <1>3 DEF OpenConfig, WriteConfig, Start, StartFails, Scan, ScanEnds, Wait, GoTo, Ends, TypeOK, RunType
  <2> QED
    BY <2>1 DEF ConfigHasOwner
<1>4. CASE WriteConfigFails(d)
  <2>1. run'[d].at = "done" /\ run'[d].result = "noconfig"
    BY <1>2, <1>4 DEF WriteConfigFails, Ends, TypeOK, RunType
  <2> QED
    BY <2>1 DEF ConfigHasOwner
<1>5. CASE CliStep(d) \/ (WriteConfig(d) /\ run[d].at = "orphan")
  <2>1. config' = config
    BY <1>5 DEF CliStep, Load, BeginLine, WriteLine, Exit, WriteConfig
  <2>2. PICK c \in Caller : \/ run[c].at \in {"write", "start", "scan", "wait", "remove"}
                            \/ run[c].at = "done" /\ run[c].result = "noconfig"
    BY <2>1 DEF ConfigHasOwner
  <2>3. run'[c] = run[c]
    BY <1>5, <2>2 DEF CliStep, Load, BeginLine, WriteLine, Exit, WriteConfig, GoTo, TypeOK
  <2> QED
    BY <2>2, <2>3 DEF ConfigHasOwner
<1>6. CASE Remove(d)
  BY <1>6 DEF Remove
<1> QED
  BY <1>1, <1>3, <1>4, <1>5, <1>6 DEF RunStep, WriteConfig

\* The file with the servers goes when the last Run is over, however the calls
\* overlap and fail - unless the write itself failed.
THEOREM ServersFileIsRemoved == Spec => []ConfigIsRemoved
<1>1. Init => ConfigHasOwner
  BY DEF Init, ConfigHasOwner
<1>2. TypeOK /\ ConfigHasOwner /\ [Next]_vars => ConfigHasOwner'
  BY ConfigNext
<1>3. ConfigHasOwner => ConfigIsRemoved
  BY DEF ConfigHasOwner, ConfigIsRemoved
<1> QED
  BY <1>1, <1>2, <1>3, TypeCorrect, PTL DEF Spec

-----------------------------------------------------------------------------
Numbered(wrote) == \A i \in DOMAIN wrote : wrote[i].number = i
HasLong(wrote) == \E i \in DOMAIN wrote : wrote[i].kind = "long"

\* The pipe q holds the last lines the process wrote.
InPipe(q, wrote) ==
    /\ Len(q) <= Len(wrote)
    /\ \A i \in 1..Len(q) : q[i] = wrote[Len(wrote) - Len(q) + i]

\* Where the output of an attempt is: r the Run, t what it collected, p the process,
\* q the pipe.  While Run reads, what it has not collected is in the pipe; when it
\* stops, nothing is missing, unless a line was too long.
OutputIsSomewhere(r, t, p, q) ==
    /\ Numbered(p.wrote)
    /\ p.at = "printing" => p.line.number = Len(p.wrote) + 1
    /\ p.at = "loading" => p.wrote = <<>>
    /\ r.at = "scan" => InPipe(q, p.wrote) /\ Collected(t, p.wrote, Len(p.wrote) - Len(q))
    /\ r.at = "wait" =>
          HasLong(p.wrote) \/ (p.at = "exited" /\ q = <<>> /\ Collected(t, p.wrote, Len(p.wrote)))
    /\ r.at \in {"remove", "done"} /\ r.result = "ok" =>
          HasLong(p.wrote) \/ Collected(t, p.wrote, Len(p.wrote))

OutputInv == \A c \in Caller : OutputIsSomewhere(run[c], text[c], cli[c], pipe[c])

\* Nothing is collected of nothing.
LEMMA NothingCollected == \A wrote : Collected(<<>>, wrote, 0) /\ InPipe(<<>>, <<>>) /\ Numbered(<<>>)
  BY DEF Collected, InPipe, Numbered

\* One line further: a line of text is collected, another leaves the text alone.
LEMMA CollectNext ==
    ASSUME NEW t \in Seq(Line), NEW wrote \in Seq(Line), NEW k \in Nat, k + 1 <= Len(wrote),
           Numbered(wrote), Collected(t, wrote, k)
    PROVE  IF wrote[k + 1].kind = "text" THEN Collected(Append(t, wrote[k + 1]), wrote, k + 1)
           ELSE Collected(t, wrote, k + 1)
<1> DEFINE line == wrote[k + 1]
           u == Append(t, line)
           TextOf(n) == {wrote[i] : i \in {j \in 1..n : wrote[j].kind = "text"}}
<1>1. Len(wrote) \in Nat /\ Len(t) \in Nat /\ DOMAIN t = 1..Len(t) /\ 1..(k + 1) = (1..k) \cup {k + 1}
  OBVIOUS
<1>2. \A j \in 1..(k + 1) : wrote[j].number = j
  BY <1>1 DEF Numbered
<1>3. {t[i] : i \in DOMAIN t} = TextOf(k) /\ \A i, j \in DOMAIN t : i < j => t[i].number < t[j].number
  BY DEF Collected
<1>4. CASE line.kind # "text"
  <2>1. TextOf(k + 1) = TextOf(k)
    BY <1>1, <1>4
  <2> QED
    BY <1>3, <1>4, <2>1 DEF Collected
<1>5. CASE line.kind = "text"
  <2>1. TextOf(k + 1) = TextOf(k) \cup {line}
    BY <1>1, <1>5
  <2>2. DOMAIN u = DOMAIN t \cup {Len(t) + 1} /\ u[Len(t) + 1] = line /\ \A i \in DOMAIN t : u[i] = t[i]
    BY <1>1
  <2>3. {u[i] : i \in DOMAIN u} = TextOf(k + 1)
    <3>1. {u[i] : i \in DOMAIN u} = {t[i] : i \in DOMAIN t} \cup {line}
      BY <2>2
    <3> QED
      BY <1>3, <2>1, <3>1
  <2>4. \A i \in DOMAIN t : t[i].number \in 1..k
    <3>1. \A i \in DOMAIN t : t[i] \in TextOf(k)
      BY <1>3
    <3> QED
      BY <1>1, <1>2, <3>1
  <2>5. ASSUME NEW i \in DOMAIN u, NEW j \in DOMAIN u, i < j PROVE u[i].number < u[j].number
    <3>1. i \in DOMAIN t /\ (j \in DOMAIN t \/ j = Len(t) + 1)
      BY <1>1, <2>2, <2>5
    <3>2. CASE j \in DOMAIN t
      BY <1>3, <2>2, <2>5, <3>1, <3>2
    <3>3. CASE j = Len(t) + 1
      <4>1. u[i].number \in 1..k /\ u[j].number = k + 1
        BY <1>1, <1>2, <2>2, <2>4, <3>1, <3>3
      <4> QED
        BY <4>1
    <3> QED
      BY <3>1, <3>2, <3>3
  <2>6. Collected(u, wrote, k + 1)
    BY <2>3, <2>5 DEF Collected
  <2> QED
    BY <1>5, <2>6
<1> QED
  BY <1>4, <1>5

\* What was collected stays so when the process writes on.
LEMMA CollectedOfMore ==
    ASSUME NEW t, NEW wrote \in Seq(Line), NEW line \in Line, NEW k \in 0..Len(wrote), Collected(t, wrote, k)
    PROVE  Collected(t, Append(wrote, line), k)
<1>1. \A j \in 1..k : Append(wrote, line)[j] = wrote[j]
  OBVIOUS
<1> QED
  BY <1>1 DEF Collected

\* The reader takes the first line of the pipe, the process adds to its end.
LEMMA PipeRead ==
    ASSUME NEW q \in Seq(Line), NEW wrote \in Seq(Line), q # <<>>, InPipe(q, wrote)
    PROVE  LET k == Len(wrote) - Len(q) IN
           /\ k \in Nat /\ k + 1 <= Len(wrote)
           /\ Head(q) = wrote[k + 1]
           /\ InPipe(Tail(q), wrote) /\ Len(wrote) - Len(Tail(q)) = k + 1
<1> DEFINE k == Len(wrote) - Len(q)
<1>1. Len(q) \in Nat \ {0} /\ Len(wrote) \in Nat /\ Len(q) <= Len(wrote)
  BY DEF InPipe
<1>2. k \in Nat /\ k + 1 <= Len(wrote)
  BY <1>1
<1>3. Head(q) = q[1] /\ q[1] = wrote[k + 1]
  BY <1>1 DEF InPipe
<1>4. Len(Tail(q)) = Len(q) - 1 /\ \A i \in 1..(Len(q) - 1) : Tail(q)[i] = q[i + 1]
  BY <1>1
<1>5. \A i \in 1..(Len(q) - 1) : i + 1 \in 1..Len(q) /\ q[i + 1] = wrote[k + (i + 1)]
  BY <1>1 DEF InPipe
<1>6. Len(wrote) - Len(Tail(q)) = k + 1
  BY <1>1, <1>4
<1>7. \A i \in 1..(Len(q) - 1) : k + (i + 1) = k + 1 + i
  BY <1>1, <1>2
<1>8. InPipe(Tail(q), wrote)
  <2>1. \A i \in 1..Len(Tail(q)) : Tail(q)[i] = wrote[Len(wrote) - Len(Tail(q)) + i]
    BY <1>4, <1>5, <1>6, <1>7
  <2> QED
    BY <1>1, <1>4, <2>1 DEF InPipe
<1> QED
  BY <1>2, <1>3, <1>6, <1>8

LEMMA PipeWrite ==
    ASSUME NEW q \in Seq(Line), NEW wrote \in Seq(Line), NEW line \in Line, InPipe(q, wrote)
    PROVE  LET k == Len(wrote) - Len(q) IN
           /\ k \in 0..Len(wrote)
           /\ InPipe(Append(q, line), Append(wrote, line))
           /\ Len(Append(wrote, line)) - Len(Append(q, line)) = k
<1> DEFINE k == Len(wrote) - Len(q)
           r == Append(q, line)
           w == Append(wrote, line)
<1>1. Len(q) \in Nat /\ Len(wrote) \in Nat /\ Len(q) <= Len(wrote)
  BY DEF InPipe
<1>2. /\ Len(r) = Len(q) + 1 /\ r[Len(q) + 1] = line /\ \A i \in 1..Len(q) : r[i] = q[i]
      /\ Len(w) = Len(wrote) + 1 /\ w[Len(wrote) + 1] = line /\ \A i \in 1..Len(wrote) : w[i] = wrote[i]
  BY AppendProperties
<1>3. k \in 0..Len(wrote) /\ Len(w) - Len(r) = k
  BY <1>1, <1>2
<1>4. ASSUME NEW i \in 1..Len(r) PROVE r[i] = w[k + i]
  <2>1. CASE i = Len(q) + 1
    <3>1. k + i = Len(wrote) + 1
      BY <1>1, <2>1
    <3> QED
      BY <1>2, <2>1, <3>1
  <2>2. CASE i \in 1..Len(q)
    <3>1. k + i \in 1..Len(wrote) /\ q[i] = wrote[k + i]
      BY <1>1, <2>2 DEF InPipe
    <3> QED
      BY <1>2, <2>2, <3>1
  <2> QED
    BY <1>1, <1>2, <2>1, <2>2
<1>5. InPipe(r, w)
  <2>1. Len(r) <= Len(w)
    BY <1>1, <1>2
  <2> QED
    BY <1>3, <1>4, <2>1 DEF InPipe
<1> QED
  BY <1>3, <1>5

\* One line more keeps the numbering, and a line too long stays there.
LEMMA WriteKeepsNumbers ==
    ASSUME NEW wrote \in Seq(Line), NEW line \in Line, Numbered(wrote), line.number = Len(wrote) + 1
    PROVE  Numbered(Append(wrote, line)) /\ (HasLong(wrote) => HasLong(Append(wrote, line)))
<1> DEFINE w == Append(wrote, line)
<1>1. /\ Len(wrote) \in Nat /\ DOMAIN wrote = 1..Len(wrote) /\ DOMAIN w = DOMAIN wrote \cup {Len(wrote) + 1}
      /\ w[Len(wrote) + 1] = line /\ \A i \in DOMAIN wrote : w[i] = wrote[i]
  BY AppendProperties
<1> HIDE DEF w
<1> QED
  BY <1>1 DEF Numbered, HasLong, w

LEMMA OutputInit == Init => OutputInv
<1> SUFFICES ASSUME Init, NEW c \in Caller PROVE OutputIsSomewhere(run[c], text[c], cli[c], pipe[c])
  BY DEF OutputInv
<1>1. run[c].at = "open" /\ cli[c].at = "none" /\ cli[c].wrote = <<>>
  BY DEF Init, NoProcess
<1> QED
  BY <1>1, NothingCollected DEF OutputIsSomewhere

\* Run's own steps keep track of the output.
LEMMA OutputRunStep ==
    ASSUME TypeOK, StaleInv, OutputInv, NEW c \in Caller, RunStep(c)
    PROVE  OutputIsSomewhere(run'[c], text'[c], cli'[c], pipe'[c])
<1> DEFINE p == cli[c]
<1>1. /\ run[c] \in RunType /\ p \in CliType /\ p.wrote \in Seq(Line) /\ text[c] \in Seq(Line)
      /\ pipe[c] \in Seq(Line) /\ Len(p.wrote) \in Nat /\ Len(pipe[c]) \in Nat
      /\ OutputIsSomewhere(run[c], text[c], p, pipe[c])
  BY ActionTypes, ExitedHasCode DEF OutputInv
<1>2. CASE OpenConfig(c) \/ WriteConfig(c) \/ WriteConfigFails(c) \/ StartFails(c)
  <2>1. UNCHANGED <<text, cli, pipe>>
    BY <1>2 DEF OpenConfig, WriteConfig, WriteConfigFails, StartFails
  <2>2. \/ run'[c].at \in {"write", "start"}
        \/ run'[c].at \in {"done", "remove"} /\ run'[c].result \in {"failed", "noconfig"}
    BY <1>1, <1>2 DEF OpenConfig, WriteConfig, WriteConfigFails, StartFails, GoTo, Ends, TypeOK, RunType
  <2> QED
    BY <1>1, <2>1, <2>2 DEF OutputIsSomewhere
<1>3. CASE Start(c)
  <2>1. /\ cli'[c] = [at |-> "loading", wrote |-> <<>>] /\ pipe'[c] = <<>> /\ text'[c] = <<>>
        /\ run'[c].at = "scan"
    BY <1>1, <1>3 DEF Start, GoTo, TypeOK, RunType
  <2> QED
    BY <2>1, NothingCollected DEF OutputIsSomewhere
<1>4. CASE Scan(c)
  <2> DEFINE k == Len(p.wrote) - Len(pipe[c])
             line == Head(pipe[c])
  <2>1. /\ run[c].at = "scan" /\ pipe[c] # <<>> /\ pipe'[c] = Tail(pipe[c]) /\ cli' = cli
        /\ text'[c] = IF line.kind = "text" THEN Append(text[c], line) ELSE text[c]
        /\ run'[c].at = IF line.kind = "long" THEN "wait" ELSE "scan"
    BY <1>1, <1>4 DEF Scan, GoTo, TypeOK, RunType
  <2>2. InPipe(pipe[c], p.wrote) /\ Collected(text[c], p.wrote, k) /\ Numbered(p.wrote)
    BY <1>1, <2>1 DEF OutputIsSomewhere
  <2>3. k \in Nat /\ k + 1 <= Len(p.wrote) /\ line = p.wrote[k + 1]
    BY <1>1, <2>1, <2>2, PipeRead
  <2>4. InPipe(Tail(pipe[c]), p.wrote) /\ k + 1 = Len(p.wrote) - Len(Tail(pipe[c]))
    BY <1>1, <2>1, <2>2, PipeRead
  <2> HIDE DEF k
  <2>5. Collected(text'[c], p.wrote, k + 1)
    BY <1>1, <2>1, <2>2, <2>3, CollectNext
  <2>7. CASE line.kind = "long"
    <3>1. HasLong(p.wrote)
      BY <1>1, <2>3, <2>7 DEF HasLong
    <3> QED
      BY <1>1, <2>1, <2>7, <3>1 DEF OutputIsSomewhere
  <2>8. CASE line.kind # "long"
    BY <1>1, <2>1, <2>4, <2>5, <2>8 DEF OutputIsSomewhere
  <2> QED
    BY <2>7, <2>8
<1>5. CASE ScanEnds(c)
  <2>1. /\ run[c].at = "scan" /\ p.at = "exited" /\ pipe[c] = <<>> /\ UNCHANGED <<text, cli, pipe>>
        /\ run'[c].at = "wait"
    BY <1>1, <1>5 DEF ScanEnds, GoTo, TypeOK, RunType
  <2>2. Len(p.wrote) - Len(pipe[c]) = Len(p.wrote)
    BY <1>1, <2>1
  <2> QED
    BY <1>1, <2>1, <2>2 DEF OutputIsSomewhere
<1>6. CASE Wait(c)
  <2>1. run[c].at = "wait" /\ p.at = "exited" /\ UNCHANGED <<text, cli>> /\ run'[c].at = "remove"
    BY <1>1, <1>6 DEF Wait, Ends, TypeOK, RunType
  <2> QED
    BY <1>1, <2>1 DEF OutputIsSomewhere
<1>7. CASE Remove(c)
  <2>1. run[c].at = "remove" /\ UNCHANGED <<text, cli, pipe>> /\ run'[c] = AfterAttempt(c)
    BY <1>7 DEF Remove, TypeOK
  <2>2. run'[c].at = "open" \/ (run'[c].at = "done" /\ run'[c].result = run[c].result)
    BY <1>1, <2>1 DEF AfterAttempt, RunType
  <2> QED
    BY <1>1, <2>1, <2>2 DEF OutputIsSomewhere
<1> QED
  BY <1>2, <1>3, <1>4, <1>5, <1>6, <1>7 DEF RunStep

\* The process writes only while Run reads or waits, at the end of the pipe.
LEMMA OutputCliStep ==
    ASSUME TypeOK, StaleInv, OutputInv, NEW c \in Caller, CliStep(c)
    PROVE  OutputIsSomewhere(run'[c], text'[c], cli'[c], pipe'[c])
<1> DEFINE p == cli[c]
<1>1. /\ run[c] \in RunType /\ p \in CliType /\ p.wrote \in Seq(Line) /\ pipe[c] \in Seq(Line)
      /\ Len(p.wrote) \in Nat /\ Len(pipe[c]) \in Nat
      /\ OutputIsSomewhere(run[c], text[c], p, pipe[c])
  BY ActionTypes, ExitedHasCode DEF OutputInv
<1>2. UNCHANGED <<run, text>> /\ p.at \in {"loading", "running", "printing"}
  BY DEF CliStep, Load, BeginLine, WriteLine, Exit
<1>3. run[c].at \in {"scan", "wait"}
  BY <1>2 DEF StaleInv, RefusedResumes
<1>4. run[c].at = "wait" => HasLong(p.wrote)
  BY <1>1, <1>2 DEF OutputIsSomewhere
<1>5. CASE Load(c) \/ BeginLine(c) \/ Exit(c)
  <2>1. pipe' = pipe
    BY <1>5 DEF Load, BeginLine, Exit
  <2>2. cli'[c].wrote = p.wrote
    <3>1. p.at = "loading" => p.wrote = <<>>
      BY <1>1 DEF OutputIsSomewhere
    <3>2. Load(c) => cli'[c].wrote = <<>> \/ cli'[c].wrote = p.wrote
      BY <1>1 DEF Load, TypeOK, CliType
    <3>3. Load(c) => p.at = "loading"
      BY DEF Load
    <3>4. BeginLine(c) \/ Exit(c) => cli'[c].wrote = p.wrote
      BY DEF BeginLine, Exit, TypeOK
    <3> QED
      BY <1>5, <3>1, <3>2, <3>3, <3>4
  <2>3. cli'[c].at # "loading" /\ (cli'[c].at = "printing" => cli'[c].line.number = Len(p.wrote) + 1)
    <3>1. Load(c) => cli'[c].at \in {"exited", "running"}
      BY <1>1 DEF Load, TypeOK, CliType
    <3>2. BeginLine(c) => cli'[c].at = "printing" /\ cli'[c].line.number = Len(p.wrote) + 1
      BY DEF BeginLine, TypeOK
    <3>3. Exit(c) => cli'[c].at = "exited"
      BY DEF Exit, TypeOK
    <3> QED
      BY <1>5, <3>1, <3>2, <3>3
  <2> QED
    BY <1>1, <1>2, <1>3, <1>4, <2>1, <2>2, <2>3 DEF OutputIsSomewhere
<1>6. CASE WriteLine(c)
  <2> DEFINE w == Append(p.wrote, p.line)
             q == Append(pipe[c], p.line)
  <2>1. /\ p.at = "printing" /\ p.line \in Line /\ p.line.number = Len(p.wrote) + 1
        /\ cli'[c] = [at |-> "running", wrote |-> w] /\ pipe'[c] = q
    BY <1>1, <1>6, ExitedHasCode DEF WriteLine, TypeOK, OutputIsSomewhere
  <2> HIDE DEF w, q
  <2>3. Numbered(p.wrote)
    BY <1>1 DEF OutputIsSomewhere
  <2>4. Numbered(w) /\ (HasLong(p.wrote) => HasLong(w))
    BY <1>1, <2>1, <2>3, WriteKeepsNumbers DEF w
  <2>5. ASSUME run[c].at = "scan" PROVE InPipe(q, w) /\ Collected(text[c], w, Len(w) - Len(q))
    <3>1. InPipe(pipe[c], p.wrote) /\ Collected(text[c], p.wrote, Len(p.wrote) - Len(pipe[c]))
      BY <1>1, <2>5 DEF OutputIsSomewhere
    <3>2. /\ InPipe(q, w) /\ Len(p.wrote) - Len(pipe[c]) \in 0..Len(p.wrote)
          /\ Len(w) - Len(q) = Len(p.wrote) - Len(pipe[c])
      BY <1>1, <2>1, <3>1, PipeWrite DEF w, q
    <3>3. Collected(text[c], w, Len(p.wrote) - Len(pipe[c]))
      BY <1>1, <2>1, <3>1, <3>2, CollectedOfMore DEF w
    <3> QED
      BY <3>2, <3>3
  <2> QED
    BY <1>2, <1>3, <1>4, <2>1, <2>3, <2>4, <2>5 DEF OutputIsSomewhere
<1> QED
  BY <1>5, <1>6 DEF CliStep

LEMMA OutputNext == TypeOK /\ StaleInv /\ OutputInv /\ [Next]_vars => OutputInv'
<1> SUFFICES ASSUME TypeOK, StaleInv, OutputInv, Next, NEW c \in Caller
             PROVE  OutputIsSomewhere(run'[c], text'[c], cli'[c], pipe'[c])
  BY DEF OutputInv, vars
<1>1. PICK d \in Caller : RunStep(d) \/ CliStep(d)
  BY DEF Next
<1>2. CASE c = d
  BY <1>1, <1>2, OutputRunStep, OutputCliStep
<1>3. CASE c # d
  <2>1. OutputIsSomewhere(run[c], text[c], cli[c], pipe[c])
    BY DEF OutputInv
  <2> QED
    BY <1>1, <1>3, <2>1, OthersStay DEF OutputIsSomewhere
<1> QED
  BY <1>2, <1>3

\* A Run that succeeds returns all the text of one process, the last it started, in
\* its order: nothing is lost when the process ends before its output is read,
\* nothing is left from a refused attempt.  The strengthening says where a line is
\* on its way, collected or in the pipe, and that no process outlives its attempt.
THEOREM OutputStaysWhole == Spec => []OutputIsComplete
<1>1. Init => OutputInv
  BY OutputInit
<1>2. TypeOK /\ StaleInv /\ OutputInv /\ [Next]_vars => OutputInv'
  BY OutputNext
<1>3. OutputInv => OutputIsComplete
  BY DEF OutputInv, OutputIsSomewhere, HasLong, OutputIsComplete, TooLong
<1>4. Init => StaleInv
  BY StaleInit
<1>5. TypeOK /\ StaleInv /\ [Next]_vars => StaleInv'
  BY StaleNext
<1> QED
  BY <1>1, <1>2, <1>3, <1>4, <1>5, TypeCorrect, PTL DEF Spec
=============================================================================
