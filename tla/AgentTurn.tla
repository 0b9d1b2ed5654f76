----------------------------- MODULE AgentTurn -----------------------------
(* One proof batch: a provider's turn, the tool calls it makes of the host,  *)
(* and the build, the checks and the merge that follow it.  The drivers      *)
(* differ in who runs a tool: the reader thread of the Codex app-server      *)
(* client, the connection thread of the loopback server behind the MCP       *)
(* bridge of a coding-agent CLI, or the thread of the turn itself.  What a   *)
(* tool does to the worktree is the set of calls whose work is in HEAD and   *)
(* the set whose work is not committed.                                      *)
EXTENDS Naturals, FiniteSets

CONSTANTS
  Drivers,     \* the kinds of drivers: "codex", "cli" and "api"
  Calls,       \* bound: the tool calls the provider can make
  MaxRounds,   \* max_tool_rounds
  SlowCalls,   \* whether a call may outlast the 30 seconds of the bridge's socket
  None

ASSUME DriversAssumption == Drivers \subseteq {"codex", "cli", "api"}
ASSUME RoundsAssumption == MaxRounds \in Nat \ {0}
ASSUME NoneAssumption == None \notin Calls \cup {"returned", "completed"}

VARIABLES
  driver,    \* the driver of the batch
  step,      \* the next step of the batch worker
  ending,    \* "returned" or "failed", once the turn or the batch is over
  rounds,    \* requests the loop of an API driver has made
  agent,     \* the provider's process: "up", "thinking", "over" or "gone"
  over,      \* the provider's last message, as long as nobody has read it
  inbox,     \* the terminal notification the reader thread has queued
  unread,    \* calls the provider has made that no thread has read
  running,   \* the call whose handler runs
  reader,    \* the thread that reads calls is alive
  bridge,    \* "whole", or "broken" after a timeout of its socket
  result,    \* result[k]: "success" or "error" as the host has recorded it
  heard,     \* heard[k]: what the provider was told of call k
  counted,   \* the calls in the result of the turn
  head,      \* calls whose work is committed in the worktree
  loose,     \* calls whose work lies in the worktree uncommitted
  built,     \* what the final build of the batch has built, None if it failed
  final,     \* final_commit
  clean,     \* git_status was empty
  merged     \* the commit merged into the project

turnVars == <<driver, step, ending, rounds>>
agentVars == <<agent, over, inbox>>
hostVars == <<unread, running, reader, bridge, result, heard, counted>>
treeVars == <<head, loose>>
batchVars == <<built, final, clean, merged>>
allTurnVars == <<turnVars, agentVars, hostVars, treeVars, batchVars>>

-----------------------------------------------------------------------------

\* The requests of a Codex turn, each with its own timeout.
Requests == {"initialize", "mcpServerStatus/list", "skills/list", "thread/start", "turn/start"}

AfterRequest(s) ==
  CASE s = "initialize" -> "mcpServerStatus/list"
    [] s = "mcpServerStatus/list" -> "skills/list"
    [] s = "skills/list" -> "thread/start"
    [] s = "thread/start" -> "turn/start"
    [] s = "turn/start" -> "listen"

FirstStep(d) == CASE d = "codex" -> "initialize" [] d = "cli" -> "spawn" [] d = "api" -> "ask"

Recorded == {k \in Calls : result[k] # None}
Unused == {k \in Calls : k \notin unread /\ k # running /\ result[k] = None /\ heard[k] = None}
Unanswered == {k \in Calls \ Unused : heard[k] = None}

\* The host reads on until its pipe or its socket is closed.
Open == step \notin {"build", "head", "status", "merge", "done"}

EndTurn(e, next) == ending' = e /\ step' = next /\ UNCHANGED <<driver, rounds>>

-----------------------------------------------------------------------------
(* The turn of the Codex app-server.                                         *)

\* A request is answered: the reader thread is free to deliver the response.
\* The server has the whole task once turn/start has been sent.
Answered ==
  /\ driver = "codex" /\ step \in Requests
  /\ reader /\ running = None /\ agent # "gone"
  /\ step' = AfterRequest(step)
  /\ agent' = IF step = "thread/start" THEN "thinking" ELSE agent
  /\ UNCHANGED <<driver, ending, rounds, over, inbox, hostVars, treeVars, batchVars>>

\* It is refused, times out, or the server is gone.
RequestFails ==
  /\ driver = "codex" /\ step \in Requests
  /\ EndTurn("failed", "close")
  /\ UNCHANGED <<agentVars, hostVars, treeVars, batchVars>>

Notified ==
  /\ step = "listen" /\ inbox # None
  /\ \/ inbox = "completed" /\ EndTurn("returned", "close") /\ counted' = Recorded
     \/ inbox = "failed" /\ EndTurn("failed", "close") /\ UNCHANGED counted
  /\ UNCHANGED <<agentVars, unread, running, reader, bridge, result, heard, treeVars, batchVars>>

\* The timeout of a turn runs from one notification to the next.
ListenTimesOut ==
  /\ step = "listen" /\ inbox = None
  /\ EndTurn("failed", "close")
  /\ UNCHANGED <<agentVars, hostVars, treeVars, batchVars>>

\* close() ends the server and waits five seconds for the reader thread.
Terminate ==
  /\ driver = "codex" /\ step = "close"
  /\ step' = "join" /\ agent' = "gone"
  /\ UNCHANGED <<driver, ending, rounds, over, inbox, hostVars, treeVars, batchVars>>

Joined ==
  /\ step = "join" /\ ~reader
  /\ step' = "build"
  /\ UNCHANGED <<driver, ending, rounds, agentVars, hostVars, treeVars, batchVars>>

\* A mutant: the reader thread is joined without a timeout.
JoinTimesOut_Waits == Joined

JoinTimesOut ==
  /\ step = "join" /\ running # None
  /\ step' = "build"
  /\ UNCHANGED <<driver, ending, rounds, agentVars, hostVars, treeVars, batchVars>>

\* A mutant: handlers run in threads of their own.
Deliver_Concurrent ==
  /\ driver = "codex" /\ Open
  /\ reader /\ unread = {} /\ over # None
  /\ inbox' = IF inbox = None THEN over ELSE inbox
  /\ over' = None
  /\ UNCHANGED <<turnVars, agent, hostVars, treeVars, batchVars>>

\* The reader thread passes the end of the turn on when it has read, and run,
\* every call in front of it.
Deliver ==
  /\ driver = "codex" /\ Open
  /\ reader /\ running = None /\ unread = {} /\ over # None
  /\ inbox' = IF inbox = None THEN over ELSE inbox
  /\ over' = None
  /\ UNCHANGED <<turnVars, agent, hostVars, treeVars, batchVars>>

\* The end of the server's output, or a pipe closed under the thread.
ReaderEnds ==
  /\ driver = "codex" /\ reader /\ running = None
  /\ agent = "gone" /\ ((unread = {} /\ over = None) \/ ~Open)
  /\ reader' = FALSE
  /\ inbox' = IF inbox = None THEN "failed" ELSE inbox
  /\ UNCHANGED <<turnVars, agent, over, unread, running, bridge, result, heard, counted,
                 treeVars, batchVars>>

-----------------------------------------------------------------------------
(* The turn of a coding-agent CLI.                                           *)

Spawn ==
  /\ step = "spawn"
  /\ \/ step' = "wait" /\ agent' = "thinking" /\ UNCHANGED <<driver, ending, rounds>>
     \/ EndTurn("failed", "close") /\ UNCHANGED agent
  /\ UNCHANGED <<over, inbox, hostVars, treeVars, batchVars>>

\* The process has exited: its status, and output that can be parsed, decide.
Exited ==
  /\ step = "wait" /\ agent \in {"over", "gone"}
  /\ \E e \in IF over = "completed" THEN {"returned", "failed"} ELSE {"failed"} :
       EndTurn(e, "close")
  /\ UNCHANGED <<agentVars, hostVars, treeVars, batchVars>>

WaitTimesOut ==
  /\ step = "wait"
  /\ EndTurn("failed", "close") /\ agent' = "gone"
  /\ UNCHANGED <<over, inbox, hostVars, treeVars, batchVars>>

\* server.close() waits for the accepting thread and not for connections.
CloseServer ==
  /\ driver = "cli" /\ step = "close"
  /\ step' = "build"
  /\ counted' = IF ending = "returned" THEN Recorded ELSE counted
  /\ UNCHANGED <<driver, ending, rounds, agentVars, unread, running, reader, bridge, result, heard,
                 treeVars, batchVars>>

\* A read of the bridge times out, and its stream refuses every later read.
BridgeTimesOut(k) ==
  /\ SlowCalls /\ driver = "cli" /\ bridge = "whole"
  /\ k \in Unanswered
  /\ bridge' = "broken"
  /\ heard' = [heard EXCEPT ![k] = "error"]
  /\ UNCHANGED <<turnVars, agentVars, unread, running, reader, result, counted,
                 treeVars, batchVars>>

-----------------------------------------------------------------------------
(* The turn of an API driver.                                                *)

\* The model asks for tools, ends its turn, or cannot be reached.
AskTools ==
  /\ step = "ask"
  /\ \E new \in SUBSET Unused \ {{}} : unread' = new
  /\ step' = "serve" /\ rounds' = rounds + 1
  /\ UNCHANGED <<driver, ending, agentVars, running, reader, bridge, result, heard, counted,
                 treeVars, batchVars>>

AskEnds ==
  /\ step = "ask"
  /\ EndTurn("returned", "build") /\ counted' = Recorded
  /\ UNCHANGED <<agentVars, unread, running, reader, bridge, result, heard, treeVars, batchVars>>

AskFails ==
  /\ step = "ask"
  /\ EndTurn("failed", "build")
  /\ UNCHANGED <<agentVars, hostVars, treeVars, batchVars>>

\* The results go out with the next request, if there is another round.
ServedAll ==
  /\ step = "serve" /\ unread = {} /\ running = None
  /\ IF rounds = MaxRounds
     THEN EndTurn("failed", "build") /\ UNCHANGED heard
     ELSE /\ step' = "ask" /\ UNCHANGED <<driver, ending, rounds>>
          /\ heard' = result
  /\ UNCHANGED <<agentVars, unread, running, reader, bridge, result, counted, treeVars, batchVars>>

-----------------------------------------------------------------------------
(* Tools.                                                                    *)

\* The bridge passes one call at a time; when its stream is broken it sends
\* the call and reports the failed read.
Call(k) ==
  /\ agent = "thinking" /\ k \in Unused
  /\ driver = "cli" /\ bridge = "whole" => Unanswered = {}
  /\ unread' = unread \cup {k}
  /\ heard' = [heard EXCEPT ![k] = IF bridge = "broken" THEN "error" ELSE @]
  /\ UNCHANGED <<turnVars, agentVars, running, reader, bridge, result, counted,
                 treeVars, batchVars>>

\* One thread runs the handlers of a turn one after the other.
Take(k) ==
  /\ Open /\ reader /\ running = None /\ k \in unread
  /\ unread' = unread \ {k} /\ running' = k
  /\ UNCHANGED <<turnVars, agentVars, reader, bridge, result, heard, counted, treeVars, batchVars>>

\* A handler leaves the worktree alone, edits it, or commits what is there.
Work(k) ==
  \/ UNCHANGED treeVars
  \/ loose' = loose \cup {k} /\ UNCHANGED head
  \/ head' = head \cup loose \cup {k} /\ loose' = {}

\* It is recorded before it is answered.  The answer reaches a provider that is
\* alive, and through a bridge that still reads; a failed answer ends the thread
\* of the Codex client, and may end the one of the connection.
HandlerEnds(k) ==
  /\ running = k /\ running' = None
  /\ Work(k)
  /\ \E r \in {"success", "error"} :
       /\ result' = [result EXCEPT ![k] = r]
       /\ heard' = [heard EXCEPT ![k] = IF /\ driver # "api" /\ agent # "gone"
                                           /\ bridge = "whole" THEN r ELSE @]
  /\ reader' \in IF agent # "gone" \/ driver = "api" THEN {reader}
                 ELSE IF driver = "codex" THEN {FALSE} ELSE BOOLEAN
  /\ inbox' = IF driver = "codex" /\ agent = "gone" /\ inbox = None THEN "failed" ELSE inbox
  /\ UNCHANGED <<turnVars, agent, over, unread, bridge, counted, batchVars>>

-----------------------------------------------------------------------------
(* The provider: external.  It may end its turn, or die, with calls that are *)
(* not answered.                                                             *)

AgentEnds ==
  /\ agent = "thinking" /\ agent' = "over"
  /\ over' \in {"completed", "failed"}
  /\ UNCHANGED <<turnVars, inbox, hostVars, treeVars, batchVars>>

AgentDies ==
  /\ driver # "api" /\ step # "spawn" /\ agent # "gone" /\ agent' = "gone"
  /\ UNCHANGED <<turnVars, over, inbox, hostVars, treeVars, batchVars>>

-----------------------------------------------------------------------------
(* The end of the batch.                                                     *)

FinalBuild ==
  /\ step = "build" /\ step' = "head"
  /\ built' \in {None, [head |-> head, loose |-> loose]}
  /\ UNCHANGED <<driver, ending, rounds, agentVars, hostVars, treeVars, final, clean, merged>>

ReadHead ==
  /\ step = "head" /\ step' = "status"
  /\ final' = head
  /\ UNCHANGED <<driver, ending, rounds, agentVars, hostVars, treeVars, built, clean, merged>>

ReadStatus ==
  /\ step = "status" /\ step' = "merge"
  /\ clean' = (loose = {})
  /\ UNCHANGED <<driver, ending, rounds, agentVars, hostVars, treeVars, built, final, merged>>

\* A failing command ends the worker with an error.
BatchFails ==
  /\ step \in {"build", "head", "status"}
  /\ EndTurn("failed", "merge")
  /\ UNCHANGED <<agentVars, hostVars, treeVars, batchVars>>

\* A mutant: provider_failure does not keep a batch from being merged.
Merge_Failed ==
  /\ step = "merge" /\ step' = "done"
  /\ \/ UNCHANGED merged
     \/ built # None /\ clean /\ final # {} /\ merged' = final
  /\ UNCHANGED <<driver, ending, rounds, agentVars, hostVars, treeVars, built, final, clean>>

\* A forbidden path, a conflict or a cancellation leaves the batch out, and a
\* batch without a commit has nothing to add.
Merge ==
  /\ step = "merge" /\ step' = "done"
  /\ \/ UNCHANGED merged
     \/ ending = "returned" /\ built # None /\ clean /\ final # {} /\ merged' = final
  /\ UNCHANGED <<driver, ending, rounds, agentVars, hostVars, treeVars, built, final, clean>>

-----------------------------------------------------------------------------

TurnInit ==
  /\ driver \in Drivers /\ step = FirstStep(driver)
  /\ ending = None /\ rounds = 0
  /\ agent = "up" /\ over = None /\ inbox = None
  /\ unread = {} /\ running = None /\ reader = TRUE /\ bridge = "whole"
  /\ result = [k \in Calls |-> None] /\ heard = [k \in Calls |-> None]
  /\ counted = {}
  /\ head = {} /\ loose = {}
  /\ built = None /\ final = {} /\ clean = FALSE /\ merged = None

Codex == Answered \/ RequestFails \/ Notified \/ ListenTimesOut \/ Terminate \/ Joined \/ JoinTimesOut
Cli == Spawn \/ Exited \/ WaitTimesOut \/ CloseServer
Api == AskTools \/ AskEnds \/ AskFails \/ ServedAll
Batch == FinalBuild \/ ReadHead \/ ReadStatus \/ BatchFails \/ Merge
Worker == Codex \/ Cli \/ Api \/ Batch
Reader == Deliver \/ ReaderEnds \/ \E k \in Calls : Take(k)

TurnNext ==
  \/ Worker \/ Reader
  \/ AgentEnds \/ AgentDies
  \/ \E k \in Calls : Call(k) \/ HandlerEnds(k) \/ BridgeTimesOut(k)

TurnSpec == TurnInit /\ [][TurnNext]_allTurnVars

\* The worker and the threads of its process are scheduled, and its timeouts
\* expire.  A tool of an API driver ends, by its own timeouts; nothing is
\* assumed of the tools of the other drivers, nor of the provider.
FairTurnSpec ==
  /\ TurnSpec /\ WF_allTurnVars(Worker) /\ WF_allTurnVars(Reader)
  /\ WF_allTurnVars(driver = "api" /\ \E k \in Calls : HandlerEnds(k))

-----------------------------------------------------------------------------
(* Properties.                                                               *)

TurnSteps == Requests \cup {"listen", "close", "join", "spawn", "wait", "ask", "serve",
                        "build", "head", "status", "merge", "done"}

\* Every variable has its type; no more rounds are asked than max_tool_rounds.
TurnTypeOK ==
  /\ driver \in Drivers /\ step \in TurnSteps
  /\ ending \in {None, "returned", "failed"} /\ rounds \in 0..MaxRounds
  /\ agent \in {"up", "thinking", "over", "gone"}
  /\ over \in {None, "completed", "failed"} /\ inbox \in {None, "completed", "failed"}
  /\ unread \subseteq Calls /\ running \in Calls \cup {None} /\ reader \in BOOLEAN
  /\ bridge \in {"whole", "broken"}
  /\ result \in [Calls -> {None, "success", "error"}]
  /\ heard \in [Calls -> {None, "success", "error"}]
  /\ counted \subseteq Calls /\ head \subseteq Calls /\ loose \subseteq Calls
  /\ built \in [head : SUBSET Calls, loose : SUBSET Calls] \cup {None}
  /\ final \subseteq Calls /\ clean \in BOOLEAN
  /\ merged \in (SUBSET Calls) \cup {None}

\* When a turn of the Codex or an API driver has returned, no tool call is under
\* way or still to come, and the result lists every call the host has run: the
\* lists in tool-calls.json are complete and the worktree is at rest.
ReturnedTurnIsQuiet ==
  ending = "returned" /\ driver # "cli" =>
    running = None /\ unread = {} /\ Recorded = counted

\* The commit a batch contributes to the project is what the final build of the
\* batch has built, without files that were not committed: no tool that outlived
\* its turn has changed the worktree between the build, rev-parse and status.
MergedWasBuilt ==
  merged # None /\ driver # "cli" => built = [head |-> merged, loose |-> {}]

\* What the provider was told of a call the host has run is what the host
\* recorded for it.
AgentHearsResult == \A k \in Recorded : heard[k] # None => heard[k] = result[k]

\* Every batch is over some day, though the provider falls silent or dies, and
\* although a tool of a Codex or CLI turn never returns.
TurnEnds == <>(step = "done")

=============================================================================
