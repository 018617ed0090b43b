------------------------------ MODULE McpSpawn ------------------------------
(***************************************************************************)
(* The MCP gateway in spawn mode, images/mcp-gateway/internal/spawn: it    *)
(* bridges HTTP requests to a subprocess that speaks JSON-RPC over its     *)
(* stdin and stdout.                                                       *)
(*                                                                         *)
(* Goroutines: one per POST (Send), one that reads stdout (readLoop), one  *)
(* per SSE connection.  They share the maps pending and sseConns and the   *)
(* mutex mu.  A critical section without a blocking call is one step; only *)
(* write blocks while it holds mu.                                         *)
(***************************************************************************)
EXTENDS Naturals, Sequences, FiniteSets

CONSTANTS
    Req,           \* the POSTs
    Id,            \* JSON-RPC ids
    MayUse,        \* the ids that a client may give each POST; NoId: a notification
    NoId, None,
    Conn,          \* the SSE connections
    Duplex,        \* the subprocess reads on while it cannot print
    PipeCap,       \* messages that fit into a pipe
    SseCap,        \* notifications that fit into an SSE channel
    MaxUnasked,    \* bound on messages that answer no request
    MaxFaults      \* bound on failures

ASSUME SpawnAssumption ==
    /\ MayUse \in [Req -> SUBSET (Id \cup {NoId})]
    /\ NoId \notin Id
    /\ None \notin Req
    /\ Duplex \in BOOLEAN
    /\ PipeCap \in Nat \ {0}
    /\ SseCap \in Nat \ {0}
    /\ MaxUnasked \in Nat
    /\ MaxFaults \in Nat

VARIABLES
    pc,         \* where each Send is
    got,        \* what it returns
    mu,         \* the Send that is writing to stdin under the mutex, or None
    pending,    \* id -> the request whose channel takes the response
    chan,       \* that channel, of each request
    id,         \* the id of each request
    cancelled,  \* the requests whose context is done
    stdin, stdout,
    working,    \* the requests that the subprocess has read and not answered
    reader,     \* readLoop
    sse,        \* the channel of each SSE connection, if registered
    disturbed,  \* history: requests whose id was in use for something else
    unasked, faults

ctxVars == <<id, cancelled>>
sendVars == <<pc, got, mu, pending>>
procVars == <<stdin, stdout, working, unasked>>
readVars == <<reader, chan, sse>>
vars == <<pc, got, mu, pending, chan, id, cancelled, stdin, stdout, working, reader,
          sse, disturbed, unasked, faults>>

(* A message from the subprocess.  of: the request that it answers. *)
Msg == [kind : {"response", "request", "notification", "junk"},
        id : Id \cup {NoId}, of : Req \cup {None}]

(* What Send returns besides: nothing yet, no response, an error. *)
Result == Msg \cup [kind : {"none", "accepted", "error"}, id : {NoId}, of : {None}]
Plain(kind) == [kind |-> kind, id |-> NoId, of |-> None]

Scanning == [pc |-> "scan", msg |-> Plain("junk"), to |-> None]
Closed == [on |-> FALSE, queue |-> << >>]

TypeOK ==
    /\ pc \in [Req -> {"new", "lock", "write", "wait", "unregister", "done"}]
    /\ got \in [Req -> Result]
    /\ mu \in Req \cup {None}
    /\ pending \in [Id -> Req \cup {None}]
    /\ chan \in [Req -> Seq(Msg)]
    /\ \A r \in Req : Len(chan[r]) <= 1
    /\ id \in [Req -> Id \cup {NoId}]
    /\ cancelled \subseteq Req
    /\ stdin \in Seq(Req)
    /\ stdout \in Seq(Msg)
    /\ working \subseteq Req
    /\ reader \in [pc : {"scan", "dispatch", "send", "ended"}, msg : Msg,
                   to : Req \cup {None}]
    /\ sse \in [Conn -> [on : BOOLEAN, queue : Seq(Msg)]]
    /\ disturbed \subseteq Req
    /\ unasked \in Nat
    /\ faults \in Nat

Init ==
    /\ pc = [r \in Req |-> "new"]
    /\ got = [r \in Req |-> Plain("none")]
    /\ mu = None
    /\ pending = [i \in Id |-> None]
    /\ chan = [r \in Req |-> << >>]
    /\ id \in {f \in [Req -> Id \cup {NoId}] : \A r \in Req : f[r] \in MayUse[r]}
    /\ cancelled = {}
    /\ stdin = << >>
    /\ stdout = << >>
    /\ working = {}
    /\ reader = Scanning
    /\ sse = [c \in Conn |-> Closed]
    /\ disturbed = {}
    /\ unasked = 0
    /\ faults = 0

Goto(r, label) == pc' = [pc EXCEPT ![r] = label]
Return(r, result) == got' = [got EXCEPT ![r] = result]
Fault == faults < MaxFaults /\ faults' = faults + 1

-----------------------------------------------------------------------------
(* Send, one goroutine per POST.                                           *)

(* The client goes away. *)
Cancel(r) ==
    /\ pc[r] \notin {"new", "done"}
    /\ cancelled' = cancelled \cup {r}
    /\ Fault
    /\ UNCHANGED <<id, sendVars, procVars, readVars, disturbed>>

Registered(r) == id[r] # NoId /\ pc[r] \notin {"new", "done"}

(* Requests other than r that are using its id. *)
SameId(r) == {q \in Req \ {r} : id[q] = id[r] /\ Registered(q)}

(* Something with this id is on its way to the subprocess or from it. *)
InTransit(i) ==
    \/ \E k \in 1..Len(stdin) : id[stdin[k]] = i
    \/ \E q \in working : id[q] = i
    \/ \E k \in 1..Len(stdout) : stdout[k].id = i
    \/ reader.pc \in {"dispatch", "send"} /\ reader.msg.id = i

(* s.pending[idStr] = ch *)
Register(r) ==
    /\ pc[r] = "new"
    /\ id[r] # NoId
    /\ mu = None
    /\ pending' = [pending EXCEPT ![id[r]] = r]
    /\ Goto(r, "lock")
    /\ disturbed' = disturbed \cup SameId(r)
                      \cup {q \in {r} : SameId(r) # {} \/ InTransit(id[r])}
    /\ UNCHANGED <<got, mu, ctxVars, procVars, readVars, faults>>

(* write takes the mutex. *)
Lock(r) ==
    /\ pc[r] = IF id[r] = NoId THEN "new" ELSE "lock"
    /\ mu = None
    /\ mu' = r
    /\ Goto(r, "write")
    /\ UNCHANGED <<got, pending, ctxVars, procVars, readVars, disturbed, faults>>

(* stdin.Write returns when the pipe has taken everything. *)
Write(r) ==
    /\ pc[r] = "write"
    /\ Len(stdin) < PipeCap
    /\ stdin' = Append(stdin, r)
    /\ mu' = None
    /\ IF id[r] = NoId THEN Goto(r, "done") /\ Return(r, Plain("accepted"))
                         ELSE Goto(r, "wait") /\ UNCHANGED got
    /\ UNCHANGED <<pending, ctxVars, stdout, working, unasked, readVars, disturbed,
                   faults>>

(* The subprocess has closed its stdin. *)
WriteFails(r) ==
    /\ pc[r] = "write"
    /\ mu' = None
    /\ Goto(r, IF id[r] = NoId THEN "done" ELSE "unregister")
    /\ Return(r, Plain("error"))
    /\ Fault
    /\ UNCHANGED <<pending, ctxVars, procVars, readVars, disturbed>>

(* select: either case, if both are possible. *)
Receive(r) ==
    /\ pc[r] = "wait"
    /\ chan[r] # << >>
    /\ Return(r, Head(chan[r]))
    /\ chan' = [chan EXCEPT ![r] = Tail(@)]
    /\ Goto(r, "unregister")
    /\ UNCHANGED <<mu, pending, ctxVars, procVars, reader, sse, disturbed, faults>>

GiveUp(r) ==
    /\ pc[r] = "wait"
    /\ r \in cancelled
    /\ Return(r, Plain("error"))
    /\ Goto(r, "unregister")
    /\ UNCHANGED <<mu, pending, ctxVars, procVars, readVars, disturbed, faults>>

(* The deferred delete, by id. *)
Unregister(r) ==
    /\ pc[r] = "unregister"
    /\ mu = None
    /\ pending' = [pending EXCEPT ![id[r]] = None]
    /\ Goto(r, "done")
    /\ UNCHANGED <<got, mu, ctxVars, procVars, readVars, disturbed, faults>>

-----------------------------------------------------------------------------
(* The subprocess.  One that is not duplex reads the next request when it  *)
(* has printed the answer to the one before.                               *)

ReadStdin ==
    /\ stdin # << >>
    /\ Duplex \/ working = {}
    /\ stdin' = Tail(stdin)
    /\ working' = working \cup {q \in {Head(stdin)} : id[q] # NoId}
    /\ UNCHANGED <<sendVars, ctxVars, stdout, unasked, readVars, disturbed, faults>>

Emit(m) == Len(stdout) < PipeCap /\ stdout' = Append(stdout, m)

Answer(r) ==
    /\ r \in working
    /\ Emit([kind |-> "response", id |-> id[r], of |-> r])
    /\ working' = working \ {r}
    /\ UNCHANGED <<sendVars, ctxVars, stdin, unasked, readVars, disturbed, faults>>

(* A notification, a line that is no JSON, or a request of the server's    *)
(* own, which has an id of the server's choice.                            *)
EmitUnasked ==
    /\ unasked < MaxUnasked
    /\ unasked' = unasked + 1
    /\ \E m \in {Plain("notification"), Plain("junk")}
                  \cup [kind : {"request"}, id : Id, of : {None}] :
          /\ Emit(m)
          /\ disturbed' = disturbed \cup {q \in Req : Registered(q) /\ id[q] = m.id}
    /\ UNCHANGED <<sendVars, ctxVars, stdin, working, readVars, faults>>

-----------------------------------------------------------------------------
(* readLoop.                                                               *)

Scan ==
    /\ reader.pc = "scan"
    /\ stdout # << >>
    /\ stdout' = Tail(stdout)
    /\ reader' = IF Head(stdout).kind = "junk" THEN reader
                 ELSE [pc |-> "dispatch", msg |-> Head(stdout), to |-> None]
    /\ UNCHANGED <<sendVars, ctxVars, stdin, working, unasked, chan, sse, disturbed,
                   faults>>

(* A line beyond the scanner's limit ends the loop. *)
ScanFails ==
    /\ reader.pc = "scan"
    /\ reader' = [Scanning EXCEPT !.pc = "ended"]
    /\ Fault
    /\ UNCHANGED <<sendVars, ctxVars, procVars, chan, sse, disturbed>>

(* Mutant: whoever is waiting gets the message. *)
AnyRecipient(m) ==
    IF \E i \in Id : pending[i] # None
      THEN pending[CHOOSE i \in Id : pending[i] # None] ELSE None

Recipient(m) == pending[m.id]

(* A message with an id is taken for a response. *)
Lookup ==
    /\ reader.pc = "dispatch"
    /\ reader.msg.id # NoId
    /\ mu = None
    /\ reader' = IF Recipient(reader.msg) = None THEN Scanning
                 ELSE [reader EXCEPT !.pc = "send", !.to = Recipient(reader.msg)]
    /\ UNCHANGED <<sendVars, ctxVars, procVars, chan, sse, disturbed, faults>>

(* Mutants: an unbuffered channel; one that holds two messages. *)
ChanUnbuffered(r) == chan[r] = << >> /\ pc[r] = "wait"
ChanOfTwo(r) == Len(chan[r]) < 2

ChanFree(r) == Len(chan[r]) < 1

(* ch <- &msg blocks while the channel is full. *)
SendToChannel ==
    /\ reader.pc = "send"
    /\ ChanFree(reader.to)
    /\ chan' = [chan EXCEPT ![reader.to] = Append(@, reader.msg)]
    /\ reader' = Scanning
    /\ UNCHANGED <<sendVars, ctxVars, procVars, sse, disturbed, faults>>

Full(c) == Len(sse[c].queue) >= SseCap

(* Mutant: the loop waits until each connection can take the message. *)
BroadcastToAll ==
    /\ reader.pc = "dispatch"
    /\ reader.msg.id = NoId
    /\ mu = None
    /\ \A c \in Conn : ~ Full(c)
    /\ sse' = [c \in Conn |-> IF sse[c].on
                 THEN [sse[c] EXCEPT !.queue = Append(@, reader.msg)] ELSE sse[c]]
    /\ reader' = Scanning
    /\ UNCHANGED <<sendVars, ctxVars, procVars, chan, disturbed, faults>>

(* A connection whose channel is full misses the notification. *)
Broadcast ==
    /\ reader.pc = "dispatch"
    /\ reader.msg.id = NoId
    /\ mu = None
    /\ sse' = [c \in Conn |-> IF sse[c].on /\ ~ Full(c)
                 THEN [sse[c] EXCEPT !.queue = Append(@, reader.msg)] ELSE sse[c]]
    /\ reader' = Scanning
    /\ UNCHANGED <<sendVars, ctxVars, procVars, chan, disturbed, faults>>

-----------------------------------------------------------------------------
(* handleSSE.                                                              *)

RegisterSSE(c) == ~ sse[c].on /\ mu = None /\ sse' = [sse EXCEPT ![c].on = TRUE]
UnregisterSSE(c) == sse[c].on /\ mu = None /\ sse' = [sse EXCEPT ![c] = Closed]
ForwardSSE(c) == sse[c].queue # << >> /\ sse' = [sse EXCEPT ![c].queue = Tail(@)]

HandleSSE(c) ==
    /\ RegisterSSE(c) \/ UnregisterSSE(c) \/ ForwardSSE(c)
    /\ UNCHANGED <<sendVars, ctxVars, procVars, reader, chan, disturbed, faults>>

-----------------------------------------------------------------------------

SendStep(r) == Lock(r) \/ Write(r) \/ Receive(r) \/ GiveUp(r) \/ Unregister(r)

ReadLoop == Scan \/ Lookup \/ SendToChannel \/ Broadcast

Next ==
    \/ \E r \in Req : Register(r) \/ SendStep(r) \/ Cancel(r) \/ WriteFails(r) \/ Answer(r)
    \/ ReadStdin
    \/ EmitUnasked
    \/ ReadLoop
    \/ ScanFails
    \/ \E c \in Conn : HandleSSE(c)

Spec == Init /\ [][Next]_vars

(* The mutex is not starved, goroutines go on, and the subprocess reads    *)
(* and answers as far as the pipes let it.  Each Send takes a few steps    *)
(* and ends, so it is enough to be fair to all of them together.  Nothing  *)
(* is assumed of clients.                                                  *)
Fairness ==
    /\ SF_vars(\E r \in Req : pc[r] # "new" /\ SendStep(r))
    /\ SF_vars(ReadLoop)
    /\ WF_vars(ReadStdin)
    /\ SF_vars(\E r \in Req : Answer(r))

FairSpec == Spec /\ Fairness

-----------------------------------------------------------------------------
(* Properties.                                                             *)

(* A request whose id nothing else used in the meantime, neither another   *)
(* client, nor the late answer to an earlier request, nor the server, is   *)
(* returned the response to itself and no other (Send, readLoop).          *)
OwnWhenUndisturbed ==
    \A r \in Req \ disturbed :
       got[r].kind \notin {"none", "accepted", "error"} =>
          got[r].kind = "response" /\ got[r].of = r

(* readLoop, on which all depend, waits to hand over a message only if its *)
(* id was used twice: a client that has gone away meanwhile does not stop  *)
(* it (the buffer of the channel that Send makes).                         *)
ReaderNeverStuck ==
    reader.pc = "send" /\ ~ ChanFree(reader.to) => reader.to \in disturbed

(* Every Send that has begun returns, with slow SSE clients, cancelled     *)
(* requests and full pipes, as long as readLoop runs, no id is used twice  *)
(* and the subprocess reads its stdin while it waits to print.  (One that  *)
(* does not can deadlock with write, which holds the mutex that readLoop   *)
(* needs.)                                                                 *)
AllReturn ==
    <>[] \/ \A r \in Req : pc[r] \in {"new", "done"}
         \/ reader.pc = "ended" \/ disturbed # {} \/ ~ Duplex
=============================================================================
