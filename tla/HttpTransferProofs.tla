------------------------ MODULE HttpTransferProofs ------------------------
(***************************************************************************)
(* Theorems about HttpTransfer, for every limit, width of std::size_t, set *)
(* of header fields and number of responses.                               *)
(***************************************************************************)
EXTENDS HttpTransfer, TLAPS

LEMMA NoHeadersType == NoHeaders \in [Names -> 0 .. MaxResponses]
<1>1. 0 \in 0 .. MaxResponses
  BY ResponsesAssumption
<1> QED
  BY <1>1 DEF NoHeaders

LEMMA InitType == Init => TypeOK
<1> SUFFICES ASSUME Init PROVE TypeOK
  OBVIOUS
<1>1. headers \in [Names -> 0 .. MaxResponses]
  BY NoHeadersType DEF Init, NoHeaders
<1>2. response \in 0 .. MaxResponses /\ body \in 0 .. Limit /\ sent \in Nat
  BY SizesAssumption, ResponsesAssumption DEF Init
<1> QED
  BY <1>1, <1>2 DEF Init, TypeOK

(* The test of write_body: what is accepted is still within the limit, and *)
(* what is refused would not have been.                                    *)
LEMMA FitsIsLimit ==
  ASSUME NEW bytes \in 0 .. SizeMax, body \in 0 .. Limit
  PROVE  Fits(bytes) <=> body + bytes <= Limit
BY SizesAssumption DEF Fits, Smaller

LEMMA NextType == TypeOK /\ [Next]_vars => TypeOK'
<1> SUFFICES ASSUME TypeOK, [Next]_vars PROVE TypeOK'
  OBVIOUS
<1> USE DEF TypeOK, server, context, Ends
<1>1. CASE UNCHANGED vars
  BY <1>1 DEF vars
<1>2. CASE SetupFails
  BY <1>2 DEF SetupFails
<1>3. CASE Perform
  BY <1>3 DEF Perform
<1>4. CASE StatusLine
  <2>1. response' \in 0 .. MaxResponses
    BY <1>4, ResponsesAssumption DEF StatusLine
  <2>2. headers' \in [Names -> 0 .. MaxResponses]
    BY <1>4, NoHeadersType DEF StatusLine
  <2> QED
    BY <1>4, <2>1, <2>2 DEF StatusLine
<1>5. CASE Progress
  BY <1>5 DEF Progress
<1>6. ASSUME NEW n \in Names, Header(n) PROVE TypeOK'
  <2>1. response \in 1 .. MaxResponses
    BY <1>6, ResponsesAssumption DEF Header
  <2>2. headers' \in [Names -> 0 .. MaxResponses]
    BY <1>6, <2>1 DEF Header
  <2> QED
    BY <1>6, <2>2 DEF Header
<1>7. ASSUME NEW bytes \in 0 .. SizeMax, Chunk(bytes) PROVE TypeOK'
  <2>1. sent' \in Nat
    BY <1>7, SizesAssumption DEF Chunk
  <2>2. body' \in 0 .. Limit
    BY <1>7, FitsIsLimit, SizesAssumption DEF Chunk
  <2> QED
    BY <1>7, <2>1, <2>2 DEF Chunk
<1>8. CASE Complete
  BY <1>8 DEF Complete
<1>9. CASE Breaks
  BY <1>9 DEF Breaks
<1>10. CASE Return
  BY <1>10 DEF Return, CurlError, Kind
<1>11. CASE RequestStop
  BY <1>11 DEF RequestStop
<1> QED
  BY <1>1, <1>2, <1>3, <1>4, <1>5, <1>6, <1>7, <1>8, <1>9, <1>10, <1>11 DEF Next, Callback

(* A transfer never stores more than its limit, and keeps every type. *)
THEOREM TypeCorrect == FairSpec => []TypeOK
BY InitType, NextType, PTL DEF FairSpec

-----------------------------------------------------------------------------
(* Until a chunk is refused, the body is what was sent; a field is always  *)
(* from the response under way; and what ended the transfer tells why.     *)
TransferInv ==
  /\ \A n \in Names : headers[n] \in {response, 0}
  /\ tooLarge => sent > Limit /\ code = "write_error"
  /\ ~tooLarge => body = sent
  /\ pc \in {"setup", "perform"} => code = "none"
  /\ pc # "done" => result = "none"
  /\ code = "ok" => final
  /\ code = "write_error" => tooLarge
  /\ code = "aborted" => stop
  /\ result = "response" => code = "ok"
  /\ StopIsNoOutage

LEMMA TransferInit == Init => TransferInv
BY DEF Init, TransferInv, StopIsNoOutage

LEMMA TransferNext == TypeOK /\ TransferInv /\ [Next]_vars => TransferInv'
<1> SUFFICES ASSUME TypeOK, TransferInv, [Next]_vars PROVE TransferInv'
  OBVIOUS
<1> USE DEF TransferInv, StopIsNoOutage, server, context, Ends
<1>1. CASE UNCHANGED vars
  BY <1>1 DEF vars
<1>2. CASE SetupFails
  BY <1>2 DEF SetupFails
<1>3. CASE Perform
  BY <1>3 DEF Perform
<1>4. CASE StatusLine
  BY <1>4 DEF StatusLine, NoHeaders
<1>5. CASE Progress
  BY <1>5 DEF Progress
<1>6. ASSUME NEW n \in Names, Header(n) PROVE TransferInv'
  BY <1>6 DEF Header, TypeOK
<1>7. ASSUME NEW bytes \in 0 .. SizeMax, Chunk(bytes) PROVE TransferInv'
  <2>1. ~tooLarge /\ body = sent /\ sent \in Nat /\ bytes \in Nat /\ Limit \in Nat
    BY <1>7, SizesAssumption DEF Chunk, TypeOK
  <2>2. CASE Fits(bytes) /\ body' = body + bytes /\ UNCHANGED <<pc, tooLarge, code>>
    BY <1>7, <2>1, <2>2 DEF Chunk
  <2>3. CASE ~Fits(bytes) /\ tooLarge' = TRUE /\ Ends("write_error") /\ UNCHANGED body
    <3>1. sent' > Limit
      BY <1>7, <2>1, <2>3, FitsIsLimit DEF Chunk, TypeOK
    <3> QED
      BY <1>7, <2>3, <3>1 DEF Chunk
  <2> QED
    BY <1>7, <2>2, <2>3 DEF Chunk
<1>8. CASE Complete
  BY <1>8 DEF Complete
<1>9. CASE Breaks
  BY <1>9 DEF Breaks
<1>10. CASE Return
  BY <1>10 DEF Return, CurlError, Kind, TypeOK
<1>11. CASE RequestStop
  BY <1>11 DEF RequestStop
<1> QED
  BY <1>1, <1>2, <1>3, <1>4, <1>5, <1>6, <1>7, <1>8, <1>9, <1>10, <1>11 DEF Next, Callback

(* A response is the final one and complete, a body is refused exactly     *)
(* when it is beyond the limit, and a stop is never taken for an outage.   *)
THEOREM TransferCorrect ==
  FairSpec => [](ResponseIsWhole /\ RefusedBeyondLimit /\ StopIsNoOutage)
<1>1. TypeOK /\ TransferInv => ResponseIsWhole /\ RefusedBeyondLimit /\ StopIsNoOutage
  BY SizesAssumption DEF TypeOK, TransferInv, ResponseIsWhole, RefusedBeyondLimit
<1> QED
  BY <1>1, TransferInit, TransferNext, TypeCorrect, PTL DEF FairSpec

=============================================================================
