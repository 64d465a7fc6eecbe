----------------------------- MODULE Socks5Proofs -----------------------------
(***************************************************************************)
(* Proofs about Socks5 for every proxy, every length of a bound name and   *)
(* any number of bytes of the target behind the reply.                     *)
(***************************************************************************)
EXTENDS Socks5, TLAPS

\* Where the proxy has accepted the greeting, and granted the connection.
AfterGreeting == {"request", "readHead", "readBound", "readLength", "readName",
                  "reset", "stop", "tls", "returned"}
AfterGrant == {"readBound", "readLength", "readName", "reset", "stop", "tls", "returned"}

\* Where in the stream the dial is, wherever the last read ended: what was
\* read and what readFull still wants add up to the end of a part of the reply.
StreamInv ==
  /\ pc \in {"start", "arm", "greet"} => consumed = 0
  /\ pc = "readGreeting" => consumed + want = GreetingLength
  /\ pc = "request" => consumed = GreetingLength
  /\ pc = "readHead" => consumed + want = GreetingLength + HeadLength
  /\ pc = "readLength" =>
       script.atyp = "domain" /\ consumed + want = GreetingLength + HeadLength + 1
  /\ pc \in {"readBound", "readName"} => consumed + want = ReplyLength(script)
  /\ pc = "readName" => script.atyp = "domain"
  /\ pc \in {"reset", "stop", "tls", "returned"} => consumed = ReplyLength(script)

ReplyInv ==
  /\ pc \in AfterGreeting => script.greeting = "accepted"
  /\ pc \in AfterGrant => Granted
  /\ pc \in {"stop", "tls", "returned"} => deadline = "cleared"

IInv == TypeOK /\ StreamInv /\ ReplyInv /\ FailureClosesConn

-----------------------------------------------------------------------------
(* Lengths *)

\* A length byte is a natural number of at most 255.
LEMMA NamesAreShort == ASSUME NEW n \in NameLengths PROVE n \in Nat /\ n <= 255
<1>1. n \in 0 .. 255
  BY DialAssumption DEF DialAssumption
<1> QED
  BY <1>1

\* The length of the reply, by the type of the bound address.
LEMMA Lengths ==
  ASSUME TypeOK
  PROVE  /\ BoundLength(script) \in Nat /\ ReplyLength(script) \in Nat
         /\ ReplyLength(script) = GreetingLength + HeadLength + BoundLength(script)
         /\ script.atyp = "ipv4" => BoundLength(script) = 6
         /\ script.atyp = "ipv6" => BoundLength(script) = 18
         /\ script.atyp = "domain" =>
              script.name \in Nat /\ BoundLength(script) = 3 + script.name
<1>1. /\ script.name \in NameLengths
      /\ script.atyp \in {"ipv4", "domain", "ipv6", "unknown"}
  BY DEF TypeOK, Scripts
<1>2. script.name \in Nat
  BY <1>1, NamesAreShort
<1>3. CASE script.atyp = "ipv4"
  BY <1>3 DEF BoundLength, ReplyLength, GreetingLength, HeadLength
<1>4. CASE script.atyp = "ipv6"
  BY <1>4 DEF BoundLength, ReplyLength, GreetingLength, HeadLength
<1>5. CASE script.atyp = "domain"
  BY <1>2, <1>5 DEF BoundLength, ReplyLength, GreetingLength, HeadLength
<1>6. CASE script.atyp = "unknown"
  BY <1>6 DEF BoundLength, ReplyLength, GreetingLength, HeadLength
<1> QED
  BY <1>1, <1>3, <1>4, <1>5, <1>6

-----------------------------------------------------------------------------
(* Steps *)

\* A failure keeps the invariant wherever it happens.
LEMMA FailKeeps ==
  ASSUME IInv, NEW e \in {"none", "ctx", "other"}, Fail(e),
         UNCHANGED <<script, request, deadline, stream, consumed, ctxDone>>
  PROVE  IInv'
<1>1. /\ pc' = "failed" /\ error' = e /\ want' = want
      /\ conn' \in {"none", "closed"}
      /\ watcher' \in {"unset", "armed", "stopped", "fired", "ended"}
  BY DEF Fail, Stopped, IInv, TypeOK
<1>2. TypeOK'
  BY <1>1 DEF IInv, TypeOK, stream
<1> QED
  BY <1>1, <1>2 DEF IInv, StreamInv, ReplyInv, FailureClosesConn, AfterGreeting, AfterGrant

\* A dial begins with the invariant.
LEMMA InitIInv == Init => IInv
<1> SUFFICES ASSUME Init PROVE IInv
  OBVIOUS
<1>1. ReplyLength(script) \in Nat
  <2>1. script.name \in NameLengths /\ script.atyp \in {"ipv4", "domain", "ipv6", "unknown"}
    BY DEF Init, Scripts
  <2>2. script.name \in Nat
    BY <2>1, NamesAreShort
  <2> QED
    BY <2>1, <2>2 DEF ReplyLength, BoundLength, GreetingLength, HeadLength
<1>2. arrived \in 0 .. ReplyLength(script) + AppBytes /\ consumed \in 0 .. arrived
  BY <1>1, DialAssumption DEF DialAssumption, Init
<1>3. TypeOK
  BY <1>2 DEF Init, TypeOK, Reading
<1> QED
  BY <1>3 DEF Init, IInv, StreamInv, ReplyInv, FailureClosesConn, AfterGreeting, AfterGrant

\* Bytes arrive, the proxy closes, the context ends, a deadline passes.
LEMMA EnvironmentKeeps == IInv /\ Environment => IInv'
<1> SUFFICES ASSUME IInv, Environment PROVE IInv'
  OBVIOUS
<1> USE DEF IInv, StreamInv, ReplyInv, FailureClosesConn, dial, stream
<1>1. CASE Arrive
  <2>1. /\ UNCHANGED <<script, request, dial, conn, peer, consumed, ctxDone, watcher>>
        /\ arrived' \in arrived + 1 .. ReplyLength(script) + AppBytes
    BY <1>1 DEF Arrive
  <2>2. ReplyLength(script) \in Nat
    BY Lengths
  <2>3. /\ arrived' \in 0 .. ReplyLength(script) + AppBytes
        /\ consumed \in 0 .. arrived'
    BY <2>1, <2>2, DialAssumption DEF DialAssumption, TypeOK
  <2>4. TypeOK'
    BY <2>1, <2>3 DEF TypeOK
  <2> QED
    BY <2>1, <2>4 DEF Granted
<1>2. CASE PeerCloses
  BY <1>2 DEF PeerCloses, TypeOK, Granted
<1>3. CASE CtxEnds
  BY <1>3 DEF CtxEnds, TypeOK, Granted
<1>4. CASE WatcherCloses
  BY <1>4 DEF WatcherCloses, TypeOK, Granted
<1>5. CASE DeadlinePasses
  <2>1. pc \notin {"stop", "tls", "returned"}
    BY <1>5 DEF DeadlinePasses
  <2> QED
    BY <1>5, <2>1 DEF DeadlinePasses, TypeOK, Granted
<1> QED
  BY <1>1, <1>2, <1>3, <1>4, <1>5 DEF Environment

\* The dialer sends: readFull begins where the stream is.
LEMMA SendKeeps ==
  ASSUME IInv, Greet \/ SendRequest
  PROVE  IInv'
<1> DEFINE rest == UNCHANGED <<script, request, deadline, stream, consumed, ctxDone>>
<1>1. CtxOr("other") \in {"none", "ctx", "other"}
  BY DEF CtxOr
<1>2. request.target \in {"ok", "unparsable", "longHost"}
  BY DEF IInv, TypeOK, Requests
<1>3. \/ /\ pc = "greet" /\ pc' = "readGreeting" /\ want' = GreetingLength
         /\ UNCHANGED <<error, conn, watcher>> /\ rest
      \/ /\ pc = "request" /\ pc' = "readHead" /\ want' = HeadLength
         /\ UNCHANGED <<error, conn, watcher>> /\ rest
      \/ Fail(CtxOr("other")) /\ rest
      \/ Fail("other") /\ rest
  <2>1. CASE Greet
    BY <2>1 DEF Greet, Send, Read
  <2>2. CASE SendRequest
    <3>1. CASE request.target = "ok"
      BY <2>2, <3>1 DEF SendRequest, Send, Read
    <3>2. CASE request.target = "longHost"
      BY <2>2, <3>2 DEF SendRequest
    <3>3. CASE request.target = "unparsable"
      BY <2>2, <3>3 DEF SendRequest
    <3> QED
      BY <1>2, <3>1, <3>2, <3>3
  <2> QED
    BY <2>1, <2>2
<1>4. CASE Fail(CtxOr("other")) /\ rest
  BY <1>1, <1>4, FailKeeps
<1>5. CASE Fail("other") /\ rest
  BY <1>5, FailKeeps
<1>6. CASE /\ pc = "greet" /\ pc' = "readGreeting" /\ want' = GreetingLength
           /\ UNCHANGED <<error, conn, watcher>> /\ rest
  BY <1>6 DEF IInv, TypeOK, StreamInv, ReplyInv, FailureClosesConn, AfterGreeting, AfterGrant,
              Reading, GreetingLength, stream, Granted
<1>7. CASE /\ pc = "request" /\ pc' = "readHead" /\ want' = HeadLength
           /\ UNCHANGED <<error, conn, watcher>> /\ rest
  BY <1>7 DEF IInv, TypeOK, StreamInv, ReplyInv, FailureClosesConn, AfterGreeting, AfterGrant,
              Reading, GreetingLength, HeadLength, stream, Granted
<1> QED
  BY <1>3, <1>4, <1>5, <1>6, <1>7

\* One read: what is consumed is no longer wanted.
LEMMA ReadSomeKeeps == IInv /\ ReadSome => IInv'
<1> SUFFICES ASSUME IInv, ReadSome PROVE IInv'
  OBVIOUS
<1>1. PICK n \in 1 .. want :
        consumed + n <= arrived /\ consumed' = consumed + n /\ want' = want - n
  BY DEF ReadSome
<1>2. /\ pc \in Reading
      /\ UNCHANGED <<script, request, pc, error, deadline, conn, stream, ctxDone, watcher>>
  BY DEF ReadSome
<1>3. /\ want \in Nat /\ consumed \in Nat /\ arrived \in Nat
  BY Lengths, DialAssumption DEF DialAssumption, IInv, TypeOK
<1>4. /\ want' \in Nat /\ consumed' \in 0 .. arrived
      /\ consumed' + want' = consumed + want
  BY <1>1, <1>3
<1>5. TypeOK'
  BY <1>2, <1>4 DEF IInv, TypeOK, stream
<1> QED
  BY <1>2, <1>4, <1>5 DEF IInv, StreamInv, ReplyInv, FailureClosesConn, Reading, Granted

\* A part of the reply was read: the next part begins there.
LEMMA InspectKeeps == IInv /\ Inspect => IInv'
<1> SUFFICES ASSUME IInv, Inspect PROVE IInv'
  OBVIOUS
<1> DEFINE kept == UNCHANGED <<script, request, error, deadline, conn, stream, consumed,
                               ctxDone, watcher>>
<1>1. /\ UNCHANGED <<script, request, deadline, stream, consumed, ctxDone>>
      /\ want = 0 /\ pc \in Reading
  BY DEF Inspect
<1>2. CtxOr("other") \in {"none", "ctx", "other"}
  BY DEF CtxOr
<1>3. /\ consumed \in Nat /\ script.atyp \in {"ipv4", "domain", "ipv6", "unknown"}
  BY Lengths, DialAssumption DEF DialAssumption, IInv, TypeOK, Scripts
<1>4. CASE pc = "readGreeting" /\ script.greeting = "accepted" /\ pc' = "request" /\ kept
           /\ want' = want
  BY <1>1, <1>3, <1>4
     DEF IInv, TypeOK, StreamInv, ReplyInv, FailureClosesConn, AfterGreeting, AfterGrant, stream,
         Granted
<1>5. CASE /\ pc = "readHead" /\ Granted /\ script.atyp \in {"ipv4", "ipv6"}
           /\ pc' = "readBound" /\ want' = BoundLength(script) /\ kept
  <2>1. /\ want' \in Nat /\ consumed' + want' = ReplyLength(script)
    BY <1>1, <1>3, <1>5, Lengths DEF IInv, StreamInv, GreetingLength, HeadLength
  <2>2. TypeOK'
    BY <1>5, <2>1 DEF IInv, TypeOK, Reading, stream
  <2> QED
    BY <1>5, <2>1, <2>2
       DEF IInv, StreamInv, ReplyInv, FailureClosesConn, AfterGreeting, AfterGrant, Granted
<1>6. CASE /\ pc = "readHead" /\ Granted /\ script.atyp = "domain"
           /\ pc' = "readLength" /\ want' = 1 /\ kept
  BY <1>1, <1>3, <1>6
     DEF IInv, TypeOK, StreamInv, ReplyInv, FailureClosesConn, AfterGreeting, AfterGrant, Reading,
         stream, Granted, GreetingLength, HeadLength
<1>7. CASE pc = "readLength" /\ pc' = "readName" /\ want' = script.name + 2 /\ kept
  <2>1. script.atyp = "domain"
    BY <1>7 DEF IInv, StreamInv
  <2>2. /\ want' \in Nat /\ consumed' + want' = ReplyLength(script)
    BY <1>1, <1>3, <1>7, <2>1, Lengths DEF IInv, StreamInv, GreetingLength, HeadLength
  <2>3. TypeOK'
    BY <1>7, <2>2 DEF IInv, TypeOK, Reading, stream
  <2> QED
    BY <1>7, <2>1, <2>2, <2>3
       DEF IInv, StreamInv, ReplyInv, FailureClosesConn, AfterGreeting, AfterGrant, Granted
<1>8. CASE pc \in {"readBound", "readName"} /\ pc' = "reset" /\ want' = want /\ kept
  <2>1. consumed = ReplyLength(script)
    BY <1>1, <1>3, <1>8 DEF IInv, StreamInv
  <2>2. TypeOK'
    BY <1>8 DEF IInv, TypeOK, stream
  <2> QED
    BY <1>8, <2>1, <2>2
       DEF IInv, StreamInv, ReplyInv, FailureClosesConn, AfterGreeting, AfterGrant, Granted
<1>9. CASE Fail(CtxOr("other"))
  BY <1>1, <1>2, <1>9, FailKeeps
<1>10. AfterHead /\ script.atyp # "unknown"
       => \/ /\ script.atyp \in {"ipv4", "ipv6"}
             /\ pc' = "readBound" /\ want' = BoundLength(script) /\ error' = error
          \/ script.atyp = "domain" /\ pc' = "readLength" /\ want' = 1 /\ error' = error
  <2>1. IInv => TypeOK
    BY DEF IInv
  <2>2. CASE script.atyp = "ipv4"
    BY <2>1, <2>2, Lengths DEF AfterHead, Read
  <2>3. CASE script.atyp = "ipv6"
    BY <2>1, <2>3, Lengths DEF AfterHead, Read
  <2>4. CASE script.atyp = "domain"
    BY <2>4 DEF AfterHead, Read
  <2> QED
    BY <1>3, <2>2, <2>3, <2>4
<1> QED
  BY <1>1, <1>3, <1>4, <1>5, <1>6, <1>7, <1>8, <1>9, <1>10 DEF Inspect, Goto, Read, stream

\* The steps of the dial keep the invariant.
LEMMA DialerKeeps == IInv /\ Dialer => IInv'
<1> SUFFICES ASSUME IInv, Dialer PROVE IInv'
  OBVIOUS
<1> USE DEF stream
<1>1. CtxOr("other") \in {"none", "ctx", "other"}
  BY DEF CtxOr
<1>2. CASE Connect
  <2>1. CASE Fail(CtxOr("other"))
    BY <1>1, <1>2, <2>1, FailKeeps DEF Connect
  <2>2. CASE ~Fail(CtxOr("other"))
    BY <1>2, <2>2
       DEF Connect, Goto, IInv, TypeOK, StreamInv, ReplyInv, FailureClosesConn, AfterGreeting,
           AfterGrant, Granted
  <2> QED
    BY <2>1, <2>2
<1>3. CASE Arm
  <2>1. CASE Fail("other") /\ UNCHANGED deadline
    BY <1>3, <2>1, FailKeeps DEF Arm
  <2>2. CASE ~(Fail("other") /\ UNCHANGED deadline)
    BY <1>3, <2>2
       DEF Arm, Goto, IInv, TypeOK, StreamInv, ReplyInv, FailureClosesConn, AfterGreeting,
           AfterGrant, Granted
  <2> QED
    BY <2>1, <2>2
<1>4. CASE Greet \/ SendRequest
  BY <1>4, SendKeeps
<1>5. CASE ReadSome
  BY <1>5, ReadSomeKeeps
<1>6. CASE ReadFails
  BY <1>1, <1>6, FailKeeps DEF ReadFails
<1>7. CASE Inspect
  BY <1>7, InspectKeeps
<1>8. CASE ResetDeadline
  <2>1. CASE Fail("other") /\ UNCHANGED deadline
    BY <1>8, <2>1, FailKeeps DEF ResetDeadline
  <2>2. CASE ~(Fail("other") /\ UNCHANGED deadline)
    BY <1>8, <2>2
       DEF ResetDeadline, Goto, IInv, TypeOK, StreamInv, ReplyInv, FailureClosesConn,
           AfterGreeting, AfterGrant, Granted
  <2> QED
    BY <2>1, <2>2
<1>9. CASE Return
  BY <1>9
     DEF Return, Goto, Stopped, IInv, TypeOK, StreamInv, ReplyInv, FailureClosesConn,
         AfterGreeting, AfterGrant, Granted
<1>10. CASE Handshake
  <2>1. CASE Fail("other")
    BY <1>10, <2>1, FailKeeps DEF Handshake
  <2>2. CASE ~Fail("other")
    BY <1>10, <2>2
       DEF Handshake, Goto, IInv, TypeOK, StreamInv, ReplyInv, FailureClosesConn, AfterGreeting,
           AfterGrant, Granted
  <2> QED
    BY <2>1, <2>2
<1> QED
  BY <1>2, <1>3, <1>4, <1>5, <1>6, <1>7, <1>8, <1>9, <1>10 DEF Dialer

\* Each step keeps the invariant.
LEMMA StepIInv == IInv /\ [Next]_vars => IInv'
<1> SUFFICES ASSUME IInv, [Next]_vars PROVE IInv'
  OBVIOUS
<1>1. CASE UNCHANGED vars
  BY <1>1 DEF vars, dial, stream, IInv, TypeOK, StreamInv, ReplyInv, FailureClosesConn, Granted
<1> QED
  BY <1>1, EnvironmentKeeps, DialerKeeps DEF Next, Over

\* The invariant holds throughout a dial.
LEMMA Invariance == Spec => []IInv
BY InitIInv, StepIInv, PTL DEF Spec

-----------------------------------------------------------------------------
(* Theorems *)

\* The variables keep their types; in particular, no more is read than has
\* arrived (DialContext and readFull).
THEOREM DialTyped == Spec => []TypeOK
BY Invariance, PTL DEF IInv

\* A dial that succeeds has read the proxy's bytes and none of the target's,
\* in whatever pieces they arrived, was accepted and granted, and leaves no
\* deadline behind, for bound names of any length (DialContext, connect).
THEOREM SuccessLeavesStreamClean == Spec => []StreamLeftClean
<1>1. IInv => StreamLeftClean
  BY DEF IInv, StreamInv, ReplyInv, StreamLeftClean, AfterGreeting, AfterGrant, Granted
<1> QED
  BY <1>1, Invariance, PTL

\* A dial that fails, at whichever step, leaves no connection open, whatever
\* the AfterFunc does at the same time (DialContext, DialTLSContext).
THEOREM FailedDialsClose == Spec => []FailureClosesConn
BY Invariance, PTL DEF IInv
=============================================================================
