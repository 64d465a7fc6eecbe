--------------------------------- MODULE Socks5 ---------------------------------
(***************************************************************************)
(* One dial through the Tor proxy (internal/tor/socks5.go): DialContext,   *)
(* and DialTLSContext on top of it, against a proxy that may say anything, *)
(* in pieces of any size, and a context that may be done at any moment.    *)
(* The bytes of the proxy are counted; what matters of their contents is   *)
(* the script of the proxy, which the dialer learns as it reads.           *)
(***************************************************************************)
EXTENDS Integers

CONSTANTS
  NameLengths,  \* length bytes a proxy may give for a bound domain name
  AppBytes      \* bytes of the target that may follow the reply

ASSUME DialAssumption ==
  /\ NameLengths \subseteq 0 .. 255
  /\ AppBytes \in Nat

\* What the proxy is going to say, and what the dial is asked for.
Scripts ==
  [greeting : {"accepted", "badVersion", "badAuth"},
   code : {"succeeded", "refused"},
   atyp : {"ipv4", "domain", "ipv6", "unknown"},
   name : NameLengths]
Requests == [target : {"ok", "unparsable", "longHost"}, tls : BOOLEAN]

GreetingLength == 2
HeadLength == 4

\* The bytes the bound address and port take after the head of the reply.
BoundLength(s) ==
  CASE s.atyp = "ipv4" -> 4 + 2
    [] s.atyp = "ipv6" -> 16 + 2
    [] s.atyp = "domain" -> 1 + s.name + 2
    [] OTHER -> 0

\* The bytes that belong to SOCKS; the next one is the target's.
ReplyLength(s) == GreetingLength + HeadLength + BoundLength(s)

VARIABLES
  script,    \* the proxy's
  request,   \* the caller's
  \* the dial
  pc,        \* what DialContext does next
  want,      \* bytes readFull still has to read
  error,     \* "none", "ctx" for ctx.Err(), or "other"
  deadline,  \* of the connection: "unset", "set", "passed" or "cleared"
  \* the connection
  conn,      \* "none", "open" or "closed"
  arrived,   \* bytes of the proxy that have arrived
  consumed,  \* bytes that were read
  peer,      \* the proxy's end is "open" or "closed"
  \* the context
  ctxDone,   \* cancelled or past its deadline
  watcher    \* context.AfterFunc: "unset", "armed", "stopped", "fired", "ended"

dial == <<pc, want, error, deadline>>
stream == <<arrived, peer>>
vars == <<script, request, dial, conn, stream, consumed, ctxDone, watcher>>

Init ==
  /\ script \in Scripts
  /\ request \in Requests
  /\ pc = "start" /\ want = 0 /\ error = "none" /\ deadline = "unset"
  /\ conn = "none" /\ arrived = 0 /\ consumed = 0 /\ peer = "open"
  /\ ctxDone = FALSE /\ watcher = "unset"

-----------------------------------------------------------------------------
(* Environment *)

\* Bytes arrive in pieces of any size, at any time, also more than asked for.
Arrive ==
  /\ conn = "open" /\ peer = "open"
  /\ \E n \in arrived + 1 .. ReplyLength(script) + AppBytes : arrived' = n
  /\ UNCHANGED <<script, request, dial, conn, peer, consumed, ctxDone, watcher>>

PeerCloses ==
  /\ conn = "open" /\ peer = "open"
  /\ peer' = "closed"
  /\ UNCHANGED <<script, request, dial, conn, arrived, consumed, ctxDone, watcher>>

\* The context is done; context.AfterFunc starts its function in a goroutine.
CtxEnds ==
  /\ ~ctxDone
  /\ ctxDone' = TRUE
  /\ watcher' = IF watcher = "armed" THEN "fired" ELSE watcher
  /\ UNCHANGED <<script, request, dial, conn, stream, consumed>>

\* The goroutine closes the connection.
WatcherCloses ==
  /\ watcher = "fired"
  /\ watcher' = "ended"
  /\ conn' = "closed"
  /\ UNCHANGED <<script, request, dial, stream, consumed, ctxDone>>

DeadlinePasses ==
  /\ deadline = "set"
  /\ deadline' = "passed"
  /\ UNCHANGED <<script, request, pc, want, error, conn, stream, consumed,
                 ctxDone, watcher>>

-----------------------------------------------------------------------------
(* DialContext *)

Goto(label) == pc' = label /\ UNCHANGED <<want, error>>
Read(label, n) == pc' = label /\ want' = n /\ UNCHANGED error

\* The deferred stop() lets an AfterFunc that did not start yet never start.
Stopped == IF watcher = "armed" THEN "stopped" ELSE watcher

\* Mutant of Fail: an error path without conn.Close().
FailLeaking(e) ==
  /\ pc' = "failed" /\ error' = e
  /\ watcher' = Stopped
  /\ UNCHANGED <<want, conn>>

\* conn.Close(), and the error `e` is returned.
Fail(e) ==
  /\ pc' = "failed" /\ error' = e
  /\ conn' = IF conn = "none" THEN "none" ELSE "closed"
  /\ watcher' = Stopped
  /\ UNCHANGED want

\* A failed handshake or connect returns ctx.Err() when there is one.
CtxOr(e) == IF ctxDone THEN "ctx" ELSE e

Connect ==
  /\ pc = "start"
  /\ \/ /\ ~ctxDone
        /\ conn' = "open"
        /\ Goto("arm")
        /\ UNCHANGED watcher
     \/ Fail(CtxOr("other"))        \* ctx.Err(), or the proxy is not there
  /\ UNCHANGED <<script, request, deadline, stream, consumed, ctxDone>>

\* Mutant of Arm: without a deadline of the context none is set.
ArmWithoutDeadline ==
  /\ pc = "arm"
  /\ deadline' \in {"unset", "set"}
  /\ watcher' = IF ctxDone THEN "fired" ELSE "armed"
  /\ Goto("greet")
  /\ UNCHANGED <<script, request, conn, stream, consumed, ctxDone>>

\* The deadline of the context or 30 seconds, and the AfterFunc, which fires
\* at once when the context is done already.
Arm ==
  /\ pc = "arm"
  /\ \/ /\ deadline' = "set"
        /\ watcher' = IF ctxDone THEN "fired" ELSE "armed"
        /\ Goto("greet")
        /\ UNCHANGED conn
     \/ Fail("other") /\ UNCHANGED deadline
  /\ UNCHANGED <<script, request, stream, consumed, ctxDone>>

\* Write the greeting or the request, and wait for the reply.
Send(label, n) ==
  /\ \/ conn = "open" /\ deadline # "passed" /\ Read(label, n) /\ UNCHANGED <<conn, watcher>>
     \/ Fail(CtxOr("other"))
  /\ UNCHANGED <<script, request, deadline, stream, consumed, ctxDone>>

Greet == pc = "greet" /\ Send("readGreeting", GreetingLength)

\* An unparsable target or port fails as it is, a long host in connect.
SendRequest ==
  /\ pc = "request"
  /\ CASE request.target = "ok" -> Send("readHead", HeadLength)
       [] request.target = "longHost" ->
            Fail(CtxOr("other"))
              /\ UNCHANGED <<script, request, deadline, stream, consumed, ctxDone>>
       [] request.target = "unparsable" ->
            Fail("other")
              /\ UNCHANGED <<script, request, deadline, stream, consumed, ctxDone>>

Reading == {"readGreeting", "readHead", "readBound", "readLength", "readName"}

\* One conn.Read of readFull: at least one byte, at most what is wanted.
ReadSome ==
  /\ pc \in Reading /\ want > 0
  /\ conn = "open" /\ deadline # "passed"
  /\ \E n \in 1 .. want :
       /\ consumed + n <= arrived
       /\ consumed' = consumed + n
       /\ want' = want - n
  /\ UNCHANGED <<script, request, pc, error, deadline, conn, stream, ctxDone, watcher>>

\* The connection was closed, its deadline has passed or the stream ended.
ReadFails ==
  /\ pc \in Reading /\ want > 0
  /\ \/ conn = "closed"
     \/ deadline = "passed"
     \/ peer = "closed" /\ consumed = arrived
  /\ Fail(CtxOr("other"))
  /\ UNCHANGED <<script, request, deadline, stream, consumed, ctxDone>>

\* Mutant of AfterHead: the port after an IPv4 address is left in the stream.
AfterHeadShort ==
  CASE script.atyp = "ipv4" -> Read("readBound", 4)
    [] script.atyp = "ipv6" -> Read("readBound", 16 + 2)
    [] script.atyp = "domain" -> Read("readLength", 1)

\* What connect reads after the head of a reply that grants the connection.
AfterHead ==
  CASE script.atyp = "ipv4" -> Read("readBound", 4 + 2)
    [] script.atyp = "ipv6" -> Read("readBound", 16 + 2)
    [] script.atyp = "domain" -> Read("readLength", 1)

Granted == script.code = "succeeded"

\* readFull returned; the bytes are inspected.
Inspect ==
  /\ pc \in Reading /\ want = 0
  /\ \/ /\ pc = "readGreeting" /\ script.greeting = "accepted"
        /\ Goto("request") /\ UNCHANGED <<conn, watcher>>
     \/ /\ pc = "readGreeting" /\ script.greeting # "accepted"
        /\ Fail(CtxOr("other"))
     \/ /\ pc = "readHead" /\ Granted /\ script.atyp # "unknown"
        /\ AfterHead /\ UNCHANGED <<conn, watcher>>
     \/ /\ pc = "readHead" /\ (~Granted \/ script.atyp = "unknown")
        /\ Fail(CtxOr("other"))
     \/ /\ pc = "readLength"
        /\ Read("readName", script.name + 2) /\ UNCHANGED <<conn, watcher>>
     \/ /\ pc \in {"readBound", "readName"}
        /\ Goto("reset") /\ UNCHANGED <<conn, watcher>>
  /\ UNCHANGED <<script, request, deadline, stream, consumed, ctxDone>>

\* SetDeadline(time.Time{}), which fails on a closed connection.
ResetDeadline ==
  /\ pc = "reset"
  /\ \/ conn = "open" /\ deadline' = "cleared" /\ Goto("stop") /\ UNCHANGED <<conn, watcher>>
     \/ conn = "closed" /\ Fail("other") /\ UNCHANGED deadline
  /\ UNCHANGED <<script, request, stream, consumed, ctxDone>>

\* The deferred stop() and the return.
Return ==
  /\ pc = "stop"
  /\ watcher' = Stopped
  /\ Goto(IF request.tls THEN "tls" ELSE "returned")
  /\ UNCHANGED <<script, request, deadline, conn, stream, consumed, ctxDone>>

\* DialTLSContext: the handshake with the target, bounded by the context.
Handshake ==
  /\ pc = "tls"
  /\ \/ conn = "open" /\ ~ctxDone /\ Goto("returned") /\ UNCHANGED <<conn, watcher>>
     \/ Fail("other")
  /\ UNCHANGED <<script, request, deadline, stream, consumed, ctxDone>>

-----------------------------------------------------------------------------
Over == pc \in {"returned", "failed"} /\ UNCHANGED vars

Dialer ==
  \/ Connect \/ Arm \/ Greet \/ SendRequest
  \/ ReadSome \/ ReadFails \/ Inspect
  \/ ResetDeadline \/ Return \/ Handshake

Environment == Arrive \/ PeerCloses \/ CtxEnds \/ WatcherCloses \/ DeadlinePasses

Next == Dialer \/ Environment \/ Over

Spec == Init /\ [][Next]_vars

\* The dialer's goroutine runs, and a deadline that is set passes some day.
\* The proxy owes nothing, and the context may live for ever.
FairSpec == Spec /\ WF_vars(Dialer) /\ WF_vars(DeadlinePasses)

-----------------------------------------------------------------------------
(* Correctness *)

\* Types of the variables.
TypeOK ==
  /\ script \in Scripts /\ request \in Requests
  /\ pc \in Reading \cup {"start", "arm", "greet", "request", "reset", "stop",
                          "tls", "returned", "failed"}
  /\ want \in Nat
  /\ error \in {"none", "ctx", "other"}
  /\ deadline \in {"unset", "set", "passed", "cleared"}
  /\ conn \in {"none", "open", "closed"}
  /\ arrived \in 0 .. ReplyLength(script) + AppBytes
  /\ consumed \in 0 .. arrived
  /\ peer \in {"open", "closed"}
  /\ ctxDone \in BOOLEAN
  /\ watcher \in {"unset", "armed", "stopped", "fired", "ended"}

\* However the reply is cut into pieces and whatever follows it, a dial that
\* succeeds has read exactly the bytes of the proxy: the next byte the caller
\* reads is the target's first.  The proxy accepted and granted what was asked
\* of it, and the deadline of the dial does not end the caller's reads.
StreamLeftClean ==
  /\ pc \in {"stop", "tls", "returned"} => consumed = ReplyLength(script)
  /\ pc = "returned" =>
       /\ script.greeting = "accepted" /\ script.code = "succeeded"
       /\ deadline = "cleared"

\* A dial that fails leaves no connection open, on whichever path and whether
\* or not the AfterFunc runs at the same time.
FailureClosesConn == pc = "failed" => conn # "open"

\* Every dial ends, even if the proxy stalls for ever at any byte and the
\* context has no deadline.
DialEnds == <>(pc \in {"tls", "returned", "failed"})

=============================================================================
