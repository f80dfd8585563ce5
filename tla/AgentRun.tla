------------------------------- MODULE AgentRun -------------------------------
(***************************************************************************)
(* ai/agent/agent.go: Run starts the Claude CLI (external) as a child      *)
(* process, reads its standard output line by line through a pipe, waits   *)
(* for it, and starts it once more without the session if that is stale.   *)
(* Several Run calls share a working directory, and in it the file with    *)
(* the MCP servers.  Lines are reduced to what Run does with them: text    *)
(* that it collects, others that leave the result alone, and a line too    *)
(* long for the scanner.  OnEvent and LogWriter are the application's.     *)
(***************************************************************************)
EXTENDS Naturals, Sequences

CONSTANTS
    Caller,    \* Run calls, each by an agent with MCP servers, in one directory
    PipeSize,  \* lines the pipe holds
    MaxLines,  \* bound: lines a CLI process writes
    NoFile,    \* mcp-config.json does not exist
    Cut        \* mcp-config.json is opened and truncated

ASSUME AgentAssumption ==
    /\ {PipeSize, MaxLines} \subseteq Nat \ {0}
    /\ NoFile # Cut
    /\ {NoFile, Cut} \cap Caller = {}

VARIABLES
    session,  \* SessionID of each agent: none, one the CLI knows, one it lost
    run,      \* where each Run is; attempt 1 resumes the session, 2 never does
    text,     \* the output collected in the attempt
    cli,      \* the CLI process of the attempt
    pipe,     \* its standard output
    config    \* mcp-config.json: whose servers it names

vars == <<session, run, text, cli, pipe, config>>

Line == [attempt : 1..2, kind : {"text", "other", "long"}, number : 1..MaxLines]

NoProcess == [at |-> "none", wrote |-> <<>>]

Init ==
    /\ session \in [Caller -> {"none", "live", "stale"}]
    /\ run = [c \in Caller |-> [at |-> "open", attempt |-> 1, result |-> "none"]]
    /\ text = [c \in Caller |-> <<>>]
    /\ cli = [c \in Caller |-> NoProcess]
    /\ pipe = [c \in Caller |-> <<>>]
    /\ config = NoFile

TypeOK ==
    /\ session \in [Caller -> {"none", "live", "stale"}]
    /\ run \in [Caller ->
          [at : {"open", "write", "orphan", "start", "scan", "wait", "remove", "done"},
           attempt : 1..2,
           result : {"none", "ok", "failed", "refused", "noconfig"}]]
    /\ text \in [Caller -> Seq(Line)]
    /\ cli \in [Caller ->
          [at : {"none", "loading", "running"}, wrote : Seq(Line)]
            \cup [at : {"printing"}, wrote : Seq(Line), line : Line]
            \cup [at : {"exited"}, wrote : Seq(Line), code : {"ok", "failed", "refused"}]]
    /\ pipe \in [Caller -> Seq(Line)]
    /\ config \in Caller \cup {NoFile, Cut}

Resumes(c) == session[c] # "none" /\ run[c].attempt = 1
GoTo(c, at) == run' = [run EXCEPT ![c].at = at]
Ends(c, at, result) == run' = [run EXCEPT ![c].at = at, ![c].result = result]

-----------------------------------------------------------------------------
\* writeMCPConfig: the file is opened and truncated, then written.  An "orphan"
\* writes to a file that another Run has removed meanwhile.
OpenConfig(c) ==
    /\ run[c].at = "open"
    /\ config' = Cut
    /\ GoTo(c, "write")
    /\ UNCHANGED <<session, text, cli, pipe>>

WriteConfig(c) ==
    /\ run[c].at \in {"write", "orphan"}
    /\ config' = IF run[c].at = "orphan" THEN config ELSE c
    /\ GoTo(c, "start")
    /\ UNCHANGED <<session, text, cli, pipe>>

\* The file stays: its removal is deferred only after it was written.
WriteConfigFails(c) ==
    /\ run[c].at \in {"write", "orphan"}
    /\ Ends(c, "done", "noconfig")
    /\ UNCHANGED <<session, text, cli, pipe, config>>

\* Mutant of Start: it waits for the process before it reads the output.
StartAndWait(c) ==
    /\ run[c].at = "start"
    /\ cli' = [cli EXCEPT ![c] = [at |-> "loading", wrote |-> <<>>]]
    /\ pipe' = [pipe EXCEPT ![c] = <<>>]
    /\ text' = [text EXCEPT ![c] = <<>>]
    /\ GoTo(c, "wait")
    /\ UNCHANGED <<session, config>>

\* A new process, a new pipe and new accumulators.
Start(c) ==
    /\ run[c].at = "start"
    /\ cli' = [cli EXCEPT ![c] = [at |-> "loading", wrote |-> <<>>]]
    /\ pipe' = [pipe EXCEPT ![c] = <<>>]
    /\ text' = [text EXCEPT ![c] = <<>>]
    /\ GoTo(c, "scan")
    /\ UNCHANGED <<session, config>>

StartFails(c) ==
    /\ run[c].at = "start"
    /\ Ends(c, "remove", "failed")
    /\ UNCHANGED <<session, text, cli, pipe, config>>

\* One line of the loop.  A line too long for the buffer ends it; nobody looks at
\* scanner.Err.
Scan(c) ==
    /\ run[c].at = "scan"
    /\ pipe[c] # <<>>
    /\ pipe' = [pipe EXCEPT ![c] = Tail(@)]
    /\ LET line == Head(pipe[c]) IN
       /\ text' = IF line.kind = "text" THEN [text EXCEPT ![c] = Append(@, line)] ELSE text
       /\ IF line.kind = "long" THEN GoTo(c, "wait") ELSE UNCHANGED run
    /\ UNCHANGED <<session, cli, config>>

\* Mutant of ScanEnds: the end of the process is taken for the end of its output.
ScanEndsAtExit(c) ==
    /\ run[c].at = "scan"
    /\ cli[c].at = "exited"
    /\ GoTo(c, "wait")
    /\ UNCHANGED <<session, text, cli, pipe, config>>

\* End of file: the process is gone and the pipe is read empty.
ScanEnds(c) ==
    /\ run[c].at = "scan"
    /\ cli[c].at = "exited"
    /\ pipe[c] = <<>>
    /\ GoTo(c, "wait")
    /\ UNCHANGED <<session, text, cli, pipe, config>>

\* cmd.Wait returns when the process has ended, and closes the pipe.
Wait(c) ==
    /\ run[c].at = "wait"
    /\ cli[c].at = "exited"
    /\ Ends(c, "remove", cli[c].code)
    /\ pipe' = [pipe EXCEPT ![c] = <<>>]
    /\ UNCHANGED <<session, text, cli, config>>

\* Mutant of AfterAttempt: the session error is passed on to the caller.
PassOn(c) == [run[c] EXCEPT !.at = "done"]

\* Mutant of AfterAttempt: Run tries again as long as an attempt fails.
TryAgain(c) ==
    IF run[c].result \in {"refused", "failed"}
    THEN [at |-> "open", attempt |-> run[c].attempt + 1, result |-> "none"]
    ELSE [run[c] EXCEPT !.at = "done"]

\* What Run does with the result of an attempt: once more for a lost session.
AfterAttempt(c) ==
    IF run[c].result = "refused" /\ Resumes(c)
    THEN [at |-> "open", attempt |-> 2, result |-> "none"]
    ELSE [run[c] EXCEPT !.at = "done"]

\* Mutant of Remove: the file is cleaned up after a successful attempt only.
RemoveIfOk(c) ==
    /\ run[c].at = "remove"
    /\ config' = IF run[c].result = "ok" THEN NoFile ELSE config
    /\ run' = [run EXCEPT ![c] = AfterAttempt(c)]
    /\ UNCHANGED <<session, text, cli, pipe>>

\* The deferred removal, whoever wrote the file last; then back in Run.
Remove(c) ==
    /\ run[c].at = "remove"
    /\ config' = NoFile
    /\ run' = [d \in Caller |->
                 IF d = c THEN AfterAttempt(c)
                 ELSE IF run[d].at = "write" THEN [run[d] EXCEPT !.at = "orphan"]
                 ELSE run[d]]
    /\ UNCHANGED <<session, text, cli, pipe>>

RunStep(c) ==
    \/ OpenConfig(c) \/ WriteConfig(c) \/ WriteConfigFails(c)
    \/ Start(c) \/ StartFails(c)
    \/ Scan(c) \/ ScanEnds(c) \/ Wait(c) \/ Remove(c)

-----------------------------------------------------------------------------
\* The CLI: it reads the file with the servers, refuses a session it does not know,
\* or writes lines, each of which blocks it while the pipe is full, and exits.
Load(c) ==
    /\ cli[c].at = "loading"
    /\ cli' = [cli EXCEPT ![c] =
                 IF Resumes(c) /\ session[c] = "stale"
                 THEN [at |-> "exited", wrote |-> <<>>, code |-> "refused"]
                 ELSE [@ EXCEPT !.at = "running"]]
    /\ UNCHANGED <<session, run, text, pipe, config>>

BeginLine(c) ==
    /\ cli[c].at = "running"
    /\ Len(cli[c].wrote) < MaxLines
    /\ \E k \in {"text", "other", "long"} :
          cli' = [cli EXCEPT ![c] =
                    [at |-> "printing", wrote |-> @.wrote,
                     line |-> [attempt |-> run[c].attempt, kind |-> k,
                               number |-> Len(@.wrote) + 1]]]
    /\ UNCHANGED <<session, run, text, pipe, config>>

WriteLine(c) ==
    /\ cli[c].at = "printing"
    /\ Len(pipe[c]) < PipeSize
    /\ pipe' = [pipe EXCEPT ![c] = Append(@, cli[c].line)]
    /\ cli' = [cli EXCEPT ![c] = [at |-> "running", wrote |-> Append(@.wrote, @.line)]]
    /\ UNCHANGED <<session, run, text, config>>

Exit(c) ==
    /\ cli[c].at = "running"
    /\ \E code \in {"ok", "failed"} :
          cli' = [cli EXCEPT ![c] = [at |-> "exited", wrote |-> @.wrote, code |-> code]]
    /\ UNCHANGED <<session, run, text, pipe, config>>

CliStep(c) == Load(c) \/ BeginLine(c) \/ WriteLine(c) \/ Exit(c)

Next == \E c \in Caller : RunStep(c) \/ CliStep(c)

\* Run's goroutine is scheduled; the CLI goes on while it can, and exits some time.
Fairness == \A c \in Caller : WF_vars(RunStep(c)) /\ WF_vars(CliStep(c))

Spec == Init /\ [][Next]_vars /\ Fairness

-----------------------------------------------------------------------------
TooLong(c) == \E i \in DOMAIN cli[c].wrote : cli[c].wrote[i].kind = "long"

\* The output t is the text of the first k lines of wrote: each of them, nothing
\* else, none twice and in their order.
Collected(t, wrote, k) ==
    /\ {t[i] : i \in DOMAIN t} = {wrote[i] : i \in {j \in 1..k : wrote[j].kind = "text"}}
    /\ \A i, j \in DOMAIN t : i < j => t[i].number < t[j].number

\* A Run that succeeds returns all the text of one process, the last it started:
\* nothing is lost when the process ends before its output is read, nothing is left
\* from a refused attempt.  (Not so with a line too long for the scanner.)
OutputIsComplete ==
    \A c \in Caller : (run[c].at = "done" /\ run[c].result = "ok" /\ ~TooLong(c)) =>
        Collected(text[c], cli[c].wrote, Len(cli[c].wrote))

\* No caller is told that the session is gone: Run starts again without it.
StaleIsNeverReported ==
    \A c \in Caller : run[c].at = "done" => run[c].result # "refused"

\* The file with the servers goes when the last Run is over, however the calls
\* overlap and fail - unless the write itself failed.
ConfigIsRemoved ==
    (\A c \in Caller : run[c].at = "done" /\ run[c].result # "noconfig") => config = NoFile

\* Run and its process never wait for each other: every Run returns, unless the
\* process writes a line too long for the scanner.  Then Run waits for the process
\* and the process for somebody to read.
RunReturns == \A c \in Caller : <>(run[c].at = "done" \/ TooLong(c))
=============================================================================
