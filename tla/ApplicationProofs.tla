------------------------- MODULE ApplicationProofs -------------------------
(***************************************************************************)
(* Theorems about Application and the modules it composes, for any         *)
(* deployments, units, pages, payloads and bounds: type correctness and    *)
(* the invariants of the stream, of the collectors and of the shutdown.    *)
(* The fairness of Spec plays no part in them.                             *)
(***************************************************************************)
EXTENDS Application, SequenceTheorems, TLAPS

-----------------------------------------------------------------------------
(* The stream: what the inductive invariant adds to StreamTypeOK. *)

\* How far a resubscription is: what it has passed has been sent.
ResubOK ==
    pump = "resub" =>
        /\ resub.n <= Len(pending) /\ (resub.n > 0 => resub.ids = {})
        /\ \A k \in 1..resub.n : pending[k] \in sent
        /\ ~resub.disturbed =>
              /\ resub.ids \subseteq DOMAIN subs
              /\ \A i \in DOMAIN subs \ resub.ids : subs[i].payload \in sent

\* Who is at its send on an open connection has its frame out.
SendersOK == Open => Senders \subseteq sent

\* As long as the order of the answers tells everything, the requests without an answer are the
\* waiting payloads, and after them that of the caller at its send.
AskedOK ==
    ~tangled =>
        /\ pump = "resub" => /\ Senders = {} /\ Len(asked) = resub.n
                             /\ \A k \in 1..resub.n : asked[k] = pending[k]
        /\ pump = "stream" => \/ Senders = {} /\ asked = pending
                              \/ \E p \in Payload : Senders = {p} /\ asked = Append(pending, p)

StreamInv == StreamTypeOK /\ ResubOK /\ SendersOK /\ StreamCarriesAll /\ AskedOK /\ MisattributionHasCause

LEMMA StreamTypes ==
    ASSUME StreamTypeOK, ResubOK, StreamNext
    PROVE  StreamTypeOK'
<1> USE StreamAssumption
<1>1. ASSUME Connect PROVE StreamTypeOK'
  BY <1>1 DEF StreamTypeOK, Connect
<1>2. ASSUME ConnectFails PROVE StreamTypeOK'
  BY <1>2 DEF StreamTypeOK, ConnectFails
<1>3. ASSUME Resubscribe PROVE StreamTypeOK'
  <2>0. UNCHANGED <<running, subs, pending, caller, leaving, ids, troubles>>
    BY <1>3 DEF Resubscribe
  <2>1. CASE resub.disturbed
    BY <1>3, <2>1 DEF StreamTypeOK, Resubscribe, SendsNext
  <2>2. CASE SendsNext /\ ~resub.disturbed /\ tangled' = TRUE /\ UNCHANGED pump
    BY <1>3, <2>2 DEF StreamTypeOK, Resubscribe, SendsNext, Frame, ResubOK
  <2>3. CASE /\ resub.n < Len(pending) /\ Frame(pending[resub.n + 1])
             /\ resub' = [resub EXCEPT !.n = @ + 1] /\ UNCHANGED <<pump, tangled>>
    <3>1. pending[resub.n + 1] \in Payload
      BY <2>3 DEF StreamTypeOK
    <3>2. asked' \in Seq(Payload) /\ sent' \subseteq Payload
      BY <2>3, <3>1 DEF StreamTypeOK, Frame
    <3>3. QED
      BY <2>0, <2>3, <3>2 DEF StreamTypeOK
  <2>4. CASE pump' = "stream" /\ resub' = NoResub /\ UNCHANGED <<asked, sent, tangled>>
    BY <1>3, <2>4 DEF StreamTypeOK, Resubscribe, NoResub
  <2>5. QED
    BY <1>3, <2>1, <2>2, <2>3, <2>4 DEF Resubscribe
<1>4. ASSUME Closed PROVE StreamTypeOK'
  BY <1>4 DEF StreamTypeOK, Closed
<1>5. ASSUME Retry PROVE StreamTypeOK'
  BY <1>5 DEF StreamTypeOK, Retry
<1>6. ASSUME Break PROVE StreamTypeOK'
  BY <1>6 DEF StreamTypeOK, Break, NoResub
<1>7. ASSUME Subscribed PROVE StreamTypeOK'
  <2>1. ids' \in 0..MaxIds /\ asked' \in Seq(Payload) /\ Head(asked) \in Payload
    BY <1>7 DEF StreamTypeOK, Subscribed
  <2>2. CASE pending = <<>>
    BY <1>7, <2>1, <2>2 DEF StreamTypeOK, Subscribed, Confirm
  <2>3. CASE pending # <<>>
    <3>1. Head(pending) \in Payload /\ pending' \in Seq(Payload)
      <4>1. pending \in Seq(Payload) /\ pending' = Tail(pending)
        BY <1>7, <2>3 DEF StreamTypeOK, Subscribed, Confirm
      <4>2. QED
        BY <2>3, <4>1, HeadTailProperties
    <3>2. DOMAIN subs' = DOMAIN subs \cup {ids + 1} /\ ids' = ids + 1 /\ ids \in Nat
      BY <1>7, <2>3 DEF StreamTypeOK, Subscribed, Confirm
    <3>3. \A i \in DOMAIN subs' : subs'[i] \in [payload : Payload, truly : Payload]
      BY <1>7, <2>1, <2>3, <3>1 DEF StreamTypeOK, Subscribed, Confirm
    <3>4. QED
      BY <1>7, <2>1, <3>1, <3>2, <3>3 DEF StreamTypeOK, Subscribed
  <2>4. QED
    BY <2>2, <2>3
<1>8. ASSUME Refused PROVE StreamTypeOK'
  BY <1>8 DEF StreamTypeOK, Refused
<1>9. ASSUME NEW p \in Payload, Retain(p) PROVE StreamTypeOK'
  BY <1>9 DEF StreamTypeOK, Retain
<1>10. ASSUME NEW p \in Payload, SendRaises(p) PROVE StreamTypeOK'
  BY <1>10 DEF StreamTypeOK, SendRaises
<1>11. ASSUME NEW id \in leaving, Forget(id) PROVE StreamTypeOK'
  BY <1>11 DEF StreamTypeOK, Forget, Without
<1>12. ASSUME NEW id \in leaving, UnsubscribeRaises(id) PROVE StreamTypeOK'
  BY <1>12 DEF StreamTypeOK, UnsubscribeRaises
<1>13. ASSUME NEW p \in Payload, Subscribe(p) PROVE StreamTypeOK'
  <2>1. CASE /\ Frame(p) /\ caller' = [caller EXCEPT ![p] = "sending"]
             /\ tangled' = (tangled \/ Senders # {} \/ pump = "resub") /\ UNCHANGED pending
    <3>1. asked' \in Seq(Payload) /\ sent' \subseteq Payload /\ tangled' \in BOOLEAN
      BY <2>1 DEF StreamTypeOK, Frame
    <3>2. QED
      BY <1>13, <2>1, <3>1 DEF StreamTypeOK, Subscribe
  <2>2. CASE /\ pending' = Append(pending, p) /\ caller' = [caller EXCEPT ![p] = "done"]
             /\ UNCHANGED <<asked, sent, tangled>>
    <3>1. pending' \in Seq(Payload)
      BY <2>2 DEF StreamTypeOK
    <3>2. QED
      BY <1>13, <2>2, <3>1 DEF StreamTypeOK, Subscribe
  <2>3. QED
    BY <1>13, <2>1, <2>2 DEF Subscribe
<1>14. ASSUME NEW id \in DOMAIN subs, Unsubscribe(id) PROVE StreamTypeOK'
  BY <1>14 DEF StreamTypeOK, Unsubscribe, Without
<1>15. QED
  BY <1>1, <1>2, <1>3, <1>4, <1>5, <1>6, <1>7, <1>8, <1>9, <1>10, <1>11, <1>12, <1>13, <1>14
     DEF StreamNext, PumpStep, CallerStep

LEMMA ResubStep ==
    ASSUME StreamTypeOK, ResubOK, SendersOK, StreamNext
    PROVE  ResubOK'
<1>1. ASSUME Connect PROVE ResubOK'
  BY <1>1 DEF StreamTypeOK, Connect, ResubOK
<1>2. ASSUME ConnectFails \/ Closed \/ Retry \/ Break \/ Subscribed \/ Refused PROVE ResubOK'
  BY <1>2 DEF StreamTypeOK, ConnectFails, Closed, Retry, Break, Subscribed, Refused, ResubOK, Open
<1>3. ASSUME Resubscribe PROVE ResubOK'
  <2>0. UNCHANGED <<subs, pending>> /\ pump = "resub"
    BY <1>3 DEF Resubscribe
  <2>1. CASE pump' = "close" \/ pump' = "stream"
    BY <2>1 DEF ResubOK
  <2>2. CASE SendsNext /\ ~resub.disturbed
    <3>1. PICK i \in resub.ids : Frame(subs[i].payload) /\ resub' = [resub EXCEPT !.ids = @ \ {i}]
      BY <2>2 DEF SendsNext
    <3>2. sent' = sent \cup {subs[i].payload} /\ resub'.n = resub.n /\ resub'.disturbed = FALSE
          /\ resub'.ids = resub.ids \ {i}
      BY <2>2, <3>1 DEF Frame, StreamTypeOK
    <3>3. QED
      BY <2>0, <2>2, <3>2 DEF ResubOK
  <2>3. CASE /\ resub.ids = {} /\ resub.n < Len(pending) /\ Frame(pending[resub.n + 1])
             /\ resub' = [resub EXCEPT !.n = @ + 1]
    <3>1. /\ sent' = sent \cup {pending[resub.n + 1]} /\ resub'.n = resub.n + 1 /\ resub.n \in Nat
          /\ resub'.ids = resub.ids /\ resub'.disturbed = resub.disturbed /\ Len(pending) \in Nat
      BY <2>3 DEF Frame, StreamTypeOK
    <3>2. QED
      BY <2>0, <2>3, <3>1 DEF ResubOK
  <2>4. QED
    BY <1>3, <2>1, <2>2, <2>3 DEF Resubscribe
<1>4. ASSUME NEW p \in Payload, Retain(p) PROVE ResubOK'
  <2>1. /\ UNCHANGED <<pump, resub, subs, sent>> /\ Len(pending') = Len(pending) + 1 /\ Len(pending) \in Nat
        /\ \A k \in 1..Len(pending) : pending'[k] = pending[k]
    BY <1>4 DEF Retain, StreamTypeOK
  <2>2. QED
    BY <2>1 DEF ResubOK, StreamTypeOK
<1>5. ASSUME NEW p \in Payload, SendRaises(p) PROVE ResubOK'
  BY <1>5 DEF SendRaises, ResubOK
<1>6. ASSUME NEW id \in leaving, Forget(id) PROVE ResubOK'
  <2>1. /\ UNCHANGED <<pump, pending, sent>> /\ subs' = Without(id) /\ resub'.ids = resub.ids /\ resub'.n = resub.n
        /\ resub'.disturbed = (resub.disturbed \/ (pump = "resub" /\ id \in DOMAIN subs /\ resub.n = 0))
    BY <1>6 DEF Forget, StreamTypeOK
  <2>2. DOMAIN subs' = DOMAIN subs \ {id} /\ \A i \in DOMAIN subs' : subs'[i] = subs[i]
    BY <2>1 DEF Without
  <2>3. SUFFICES ASSUME pump = "resub", ~resub'.disturbed
                 PROVE  /\ resub.ids \subseteq DOMAIN subs'
                        /\ \A i \in DOMAIN subs' \ resub.ids : subs'[i].payload \in sent
    BY <2>1 DEF ResubOK
  <2>4. ~resub.disturbed /\ (id \notin DOMAIN subs \/ resub.n # 0) /\ resub.n \in Nat
    BY <2>1, <2>3 DEF StreamTypeOK
  <2>5. id \notin DOMAIN subs \/ resub.ids = {}
    BY <2>3, <2>4 DEF ResubOK
  <2>6. QED
    BY <2>2, <2>3, <2>4, <2>5 DEF ResubOK
<1>7. ASSUME NEW id \in leaving, UnsubscribeRaises(id) PROVE ResubOK'
  BY <1>7 DEF UnsubscribeRaises, ResubOK
<1>8. ASSUME NEW p \in Payload, Subscribe(p) PROVE ResubOK'
  BY <1>8 DEF Subscribe, ResubOK, Frame, Open, HasConnection
<1>9. ASSUME NEW id \in DOMAIN subs, Unsubscribe(id) PROVE ResubOK'
  BY <1>9 DEF Unsubscribe, ResubOK, HasConnection
<1>10. QED
  BY <1>1, <1>2, <1>3, <1>4, <1>5, <1>6, <1>7, <1>8, <1>9 DEF StreamNext, PumpStep, CallerStep

LEMMA SendersStep ==
    ASSUME StreamTypeOK, SendersOK, StreamNext
    PROVE  SendersOK'
<1> USE DEF SendersOK, Senders, Open
<1>1. ASSUME Connect PROVE SendersOK'
  BY <1>1 DEF Connect
<1>2. ASSUME ConnectFails \/ Closed \/ Retry \/ Break \/ Subscribed \/ Refused PROVE SendersOK'
  BY <1>2 DEF ConnectFails, Closed, Retry, Break, Subscribed, Refused
<1>3. ASSUME Resubscribe PROVE SendersOK'
  BY <1>3 DEF Resubscribe, SendsNext, Frame
<1>4. ASSUME NEW p \in Payload, Retain(p) \/ SendRaises(p) PROVE SendersOK'
  BY <1>4 DEF Retain, SendRaises, StreamTypeOK
<1>5. ASSUME NEW id \in leaving, Forget(id) \/ UnsubscribeRaises(id) PROVE SendersOK'
  BY <1>5 DEF Forget, UnsubscribeRaises
<1>6. ASSUME NEW p \in Payload, Subscribe(p) PROVE SendersOK'
  BY <1>6 DEF Subscribe, StreamTypeOK, Frame, HasConnection
<1>7. ASSUME NEW id \in DOMAIN subs, Unsubscribe(id) PROVE SendersOK'
  BY <1>7 DEF Unsubscribe
<1>8. QED
  BY <1>1, <1>2, <1>3, <1>4, <1>5, <1>6, <1>7 DEF StreamNext, PumpStep, CallerStep

\* What is kept is known by its parts.
LEMMA KeptIs ==
    StreamCarriesAll <=>
        (pump = "stream" => /\ \A i \in DOMAIN subs : subs[i].payload \in sent
                            /\ \A k \in DOMAIN pending : pending[k] \in sent)
BY DEF StreamCarriesAll, Kept, ToSet

LEMMA CarriesStep ==
    ASSUME StreamTypeOK, ResubOK, SendersOK, StreamCarriesAll, StreamNext
    PROVE  StreamCarriesAll'
<1> DEFINE Carried == /\ \A i \in DOMAIN subs : subs[i].payload \in sent
                      /\ \A k \in DOMAIN pending : pending[k] \in sent
<1>1. /\ StreamCarriesAll <=> (pump = "stream" => Carried)
      /\ StreamCarriesAll' <=> (pump' = "stream" => Carried')
  BY KeptIs DEF StreamCarriesAll, Kept, ToSet
<1>2. ASSUME Resubscribe PROVE pump' = "stream" => Carried'
  BY <1>2 DEF Resubscribe, SendsNext, ResubOK, StreamTypeOK
<1>3. ASSUME Connect \/ ConnectFails \/ Closed \/ Retry \/ Break \/ Refused PROVE pump' = "stream" => Carried'
  BY <1>1, <1>3 DEF Connect, ConnectFails, Closed, Retry, Break, Refused
<1>4. ASSUME Subscribed PROVE pump' = "stream" => Carried'
  <2>1. pump = "stream" /\ sent' = sent /\ Confirm(ids + 1) /\ Carried
    BY <1>1, <1>4 DEF Subscribed
  <2>2. CASE pending = <<>>
    BY <2>1, <2>2 DEF Confirm
  <2>3. CASE pending # <<>>
    <3>1. pending' = Tail(pending) /\ Head(pending) = pending[1] /\ 1 \in DOMAIN pending
      BY <2>1, <2>3 DEF Confirm, StreamTypeOK
    <3>2. \A k \in DOMAIN pending' : pending'[k] \in sent
      BY <2>1, <2>3, <3>1 DEF StreamTypeOK
    <3>3. \A i \in DOMAIN subs' : subs'[i].payload \in sent
      BY <2>1, <2>3, <3>1 DEF Confirm
    <3>4. QED
      BY <2>1, <3>2, <3>3
  <2>4. QED
    BY <2>2, <2>3
<1>5. ASSUME NEW p \in Payload, Retain(p) PROVE pump' = "stream" => Carried'
  <2>1. SUFFICES ASSUME pump = "stream" PROVE Carried'
    BY <1>5 DEF Retain
  <2>2. p \in sent /\ Carried
    BY <1>1, <1>5, <2>1 DEF Retain, SendersOK, Senders, Open
  <2>3. QED
    BY <1>5, <2>2 DEF Retain, StreamTypeOK
<1>6. ASSUME NEW p \in Payload, SendRaises(p) PROVE pump' = "stream" => Carried'
  BY <1>1, <1>6 DEF SendRaises
<1>7. ASSUME NEW id \in leaving, Forget(id) \/ UnsubscribeRaises(id) PROVE pump' = "stream" => Carried'
  BY <1>1, <1>7 DEF Forget, UnsubscribeRaises, Without
<1>8. ASSUME NEW p \in Payload, Subscribe(p) PROVE pump' = "stream" => Carried'
  BY <1>1, <1>8 DEF Subscribe, HasConnection, Frame
<1>9. ASSUME NEW id \in DOMAIN subs, Unsubscribe(id) PROVE pump' = "stream" => Carried'
  BY <1>1, <1>9 DEF Unsubscribe, HasConnection
<1>10. QED
  BY <1>1, <1>2, <1>3, <1>4, <1>5, <1>6, <1>7, <1>8, <1>9 DEF StreamNext, PumpStep, CallerStep

LEMMA AskedStep ==
    ASSUME StreamTypeOK, ResubOK, AskedOK, StreamNext
    PROVE  AskedOK'
<1> USE DEF AskedOK
<1>1. ASSUME Connect PROVE AskedOK'
  BY <1>1 DEF Connect, Senders
<1>2. ASSUME ConnectFails \/ Closed \/ Retry \/ Break \/ Refused PROVE AskedOK'
  BY <1>2 DEF ConnectFails, Closed, Retry, Break, Refused
<1>3. ASSUME Resubscribe PROVE AskedOK'
  <2>1. pump = "resub" /\ UNCHANGED <<pending, caller>> /\ Senders' = Senders
    BY <1>3 DEF Resubscribe, Senders
  <2>2. CASE pump' = "close" \/ tangled' = TRUE
    BY <2>2
  <2>3. CASE /\ resub.n < Len(pending) /\ Frame(pending[resub.n + 1])
             /\ resub' = [resub EXCEPT !.n = @ + 1] /\ UNCHANGED <<pump, tangled>>
    <3>1. SUFFICES ASSUME ~tangled
                   PROVE  /\ Senders = {} /\ Len(asked') = resub.n + 1
                          /\ \A k \in 1..(resub.n + 1) : asked'[k] = pending[k]
      BY <2>1, <2>3 DEF StreamTypeOK
    <3>2. Len(asked) = resub.n /\ Senders = {} /\ \A k \in 1..resub.n : asked[k] = pending[k]
      BY <2>1, <3>1
    <3>3. asked \in Seq(Payload) /\ resub.n \in Nat /\ pending[resub.n + 1] \in Payload
      BY <2>3 DEF StreamTypeOK
    <3>4. /\ Len(asked') = resub.n + 1 /\ asked'[resub.n + 1] = pending[resub.n + 1]
          /\ \A k \in 1..resub.n : asked'[k] = asked[k]
      BY <2>3, <3>2, <3>3, AppendProperties DEF Frame
    <3>5. \A k \in 1..(resub.n + 1) : k \in 1..resub.n \/ k = resub.n + 1
      BY <3>3
    <3>6. QED
      BY <3>2, <3>4, <3>5
  <2>4. CASE resub.n = Len(pending) /\ pump' = "stream" /\ UNCHANGED <<asked, tangled>>
    <3>1. SUFFICES ASSUME ~tangled PROVE Senders = {} /\ asked = pending
      BY <2>1, <2>4
    <3>2. asked \in Seq(Payload) /\ pending \in Seq(Payload)
      BY DEF StreamTypeOK
    <3>3. Senders = {} /\ Len(asked) = Len(pending) /\ \A k \in 1..Len(asked) : asked[k] = pending[k]
      BY <2>1, <2>4, <3>1
    <3>4. QED
      BY <3>2, <3>3, SeqEqual
  <2>5. QED
    BY <1>3, <2>2, <2>3, <2>4 DEF Resubscribe, SendsNext
<1>4. ASSUME Subscribed PROVE AskedOK'
  <2>1. pump = "stream" /\ pump' = "stream" /\ asked # <<>> /\ Confirm(ids + 1) /\ asked' = Tail(asked)
        /\ Senders' = Senders /\ tangled' = (tangled \/ Head(asked) \notin ToSet(pending))
    BY <1>4 DEF Subscribed, Senders
  <2>2. SUFFICES ASSUME ~tangled'
                 PROVE  \/ Senders = {} /\ asked' = pending'
                        \/ \E p \in Payload : Senders = {p} /\ asked' = Append(pending', p)
    BY <2>1
  <2>3. ~tangled /\ pending # <<>>
    <3>1. tangled' = (tangled \/ Head(asked) \notin ToSet(pending)) /\ ~tangled'
      BY <2>1, <2>2
    <3>2. ToSet(<<>>) = {}
      BY DEF ToSet
    <3>3. QED
      BY <3>1, <3>2, Zenon
  <2>4. pending' = Tail(pending) /\ pending \in Seq(Payload)
    BY <2>1, <2>3 DEF Confirm, StreamTypeOK
  <2>5. ASSUME NEW p \in Payload, Senders = {p}, asked = Append(pending, p)
        PROVE  asked' = Append(pending', p)
    BY <2>1, <2>3, <2>4, <2>5, HeadTailAppend
  <2>6. QED
    BY <2>1, <2>3, <2>4, <2>5
<1>5. ASSUME NEW p \in Payload, Retain(p) PROVE AskedOK'
  <2>1. /\ UNCHANGED <<pump, resub, asked, tangled>> /\ p \in Senders /\ Senders' = Senders \ {p}
        /\ pending' = Append(pending, p)
    BY <1>5 DEF Retain, Senders, StreamTypeOK
  <2>2. QED
    BY <2>1
<1>6. ASSUME NEW p \in Payload, SendRaises(p) PROVE AskedOK'
  BY <1>6 DEF SendRaises, Open
<1>7. ASSUME NEW id \in leaving, Forget(id) PROVE AskedOK'
  <2>1. UNCHANGED <<pump, pending, asked, tangled, caller>> /\ resub'.n = resub.n /\ Senders' = Senders
    BY <1>7 DEF Forget, Senders, StreamTypeOK
  <2>2. QED
    BY <2>1
<1>8. ASSUME NEW id \in leaving, UnsubscribeRaises(id) PROVE AskedOK'
  BY <1>8 DEF UnsubscribeRaises, Senders
<1>9. ASSUME NEW p \in Payload, Subscribe(p) PROVE AskedOK'
  <2>1. CASE Open /\ Frame(p) /\ UNCHANGED <<pump, pending>> /\ caller' = [caller EXCEPT ![p] = "sending"]
             /\ tangled' = (tangled \/ Senders # {} \/ pump = "resub")
    <3>1. Senders' = Senders \cup {p} /\ asked' = Append(asked, p)
      BY <2>1 DEF Frame, Senders, StreamTypeOK
    <3>2. QED
      BY <2>1, <3>1
  <2>2. CASE ~HasConnection /\ UNCHANGED pump
    BY <2>2 DEF HasConnection
  <2>3. QED
    BY <1>9, <2>1, <2>2 DEF Subscribe
<1>10. ASSUME NEW id \in DOMAIN subs, Unsubscribe(id) PROVE AskedOK'
  BY <1>10 DEF Unsubscribe, Senders
<1>11. QED
  BY <1>1, <1>2, <1>3, <1>4, <1>5, <1>6, <1>7, <1>8, <1>9, <1>10 DEF StreamNext, PumpStep, CallerStep

LEMMA AttributionStep ==
    ASSUME StreamTypeOK, AskedOK, MisattributionHasCause, StreamNext
    PROVE  MisattributionHasCause'
<1> USE DEF MisattributionHasCause
<1>1. ASSUME Subscribed PROVE MisattributionHasCause'
  <2>1. pump = "stream" /\ asked # <<>> /\ Confirm(ids + 1)
        /\ tangled' = (tangled \/ Head(asked) \notin ToSet(pending))
    BY <1>1 DEF Subscribed
  <2>2. SUFFICES ASSUME ~tangled' PROVE \A i \in DOMAIN subs' : subs'[i].payload = subs'[i].truly
    OBVIOUS
  <2>3. ~tangled /\ pending # <<>>
    <3>1. tangled' = (tangled \/ Head(asked) \notin ToSet(pending)) /\ ~tangled'
      BY <2>1, <2>2
    <3>2. ToSet(<<>>) = {}
      BY DEF ToSet
    <3>3. QED
      BY <3>1, <3>2, Zenon
  <2>4. Head(asked) = Head(pending)
    <3>1. asked = pending \/ \E p \in Payload : asked = Append(pending, p)
      BY <2>1, <2>3 DEF AskedOK
    <3>2. pending \in Seq(Payload)
      BY DEF StreamTypeOK
    <3>3. QED
      BY <2>3, <3>1, <3>2, HeadTailAppend
  <2>5. QED
    BY <2>1, <2>3, <2>4 DEF Confirm
<1>2. ASSUME ~Subscribed PROVE /\ tangled => tangled'
                               /\ \A i \in DOMAIN subs' : i \in DOMAIN subs /\ subs'[i] = subs[i]
  <2>1. ASSUME Connect \/ ConnectFails \/ Closed \/ Retry \/ Break \/ Refused
        PROVE  (tangled => tangled') /\ subs' = subs
    BY <2>1 DEF Connect, ConnectFails, Closed, Retry, Break, Refused
  <2>2. ASSUME Resubscribe PROVE (tangled => tangled') /\ subs' = subs
    BY <2>2 DEF Resubscribe, SendsNext
  <2>3. ASSUME NEW p \in Payload, Retain(p) \/ SendRaises(p) PROVE (tangled => tangled') /\ subs' = subs
    BY <2>3 DEF Retain, SendRaises
  <2>4. ASSUME NEW p \in Payload, Subscribe(p) PROVE (tangled => tangled') /\ subs' = subs
    <3>1. tangled' = (tangled \/ Senders # {} \/ pump = "resub") \/ tangled' = tangled
      BY <2>4 DEF Subscribe
    <3>2. subs' = subs
      BY <2>4 DEF Subscribe
    <3>3. ASSUME tangled, tangled' = (tangled \/ Senders # {} \/ pump = "resub") PROVE tangled'
      BY <3>3
    <3>4. tangled \in BOOLEAN
      BY DEF StreamTypeOK
    <3>5. QED
      BY <3>1, <3>2, <3>3, <3>4
  <2>5. ASSUME NEW id, Forget(id) \/ UnsubscribeRaises(id) \/ Unsubscribe(id)
        PROVE  tangled' = tangled /\ (subs' = subs \/ subs' = Without(id))
    BY <2>5 DEF Forget, UnsubscribeRaises, Unsubscribe
  <2>6. \A id : \A i \in DOMAIN Without(id) : i \in DOMAIN subs /\ Without(id)[i] = subs[i]
    BY DEF Without
  <2>7. QED
    BY <1>2, <2>1, <2>2, <2>3, <2>4, <2>5, <2>6 DEF StreamNext, PumpStep, CallerStep
<1>3. QED
  BY <1>1, <1>2

LEMMA StreamStep ==
    ASSUME StreamInv, StreamNext \/ UNCHANGED streamVars
    PROVE  StreamInv'
<1>1. CASE StreamNext
  BY <1>1, StreamTypes, ResubStep, SendersStep, CarriesStep, AskedStep, AttributionStep DEF StreamInv
<1>2. CASE UNCHANGED streamVars
  BY <1>2 DEF streamVars, StreamInv, StreamTypeOK, ResubOK, SendersOK, StreamCarriesAll, AskedOK,
              MisattributionHasCause, Kept, Open, Senders
<1>3. QED
  BY <1>1, <1>2

-----------------------------------------------------------------------------
(* The board *)

LEMMA RemoveAtIs ==
    ASSUME NEW S, NEW s \in Seq(S), NEW i \in 1..Len(s)
    PROVE  /\ RemoveAt(s, i) \in Seq(S) /\ Len(RemoveAt(s, i)) = Len(s) - 1
           /\ \A k \in 1..(Len(s) - 1) : RemoveAt(s, i)[k] = IF k < i THEN s[k] ELSE s[k + 1]
<1> DEFINE a == SubSeq(s, 1, i - 1)
           b == SubSeq(s, i + 1, Len(s))
<1>1. Len(s) \in Nat /\ \A k \in 1..Len(s) : s[k] \in S
  BY ElementOfSeq
<1>2. a \in Seq(S) /\ Len(a) = i - 1 /\ \A k \in 1..(i - 1) : a[k] = s[k]
  <2>1. a \in Seq(S)
    BY <1>1
  <2>2. Len(a) = i - 1
    BY <1>1
  <2>3. \A k \in 1..(i - 1) : a[k] = s[k]
    BY <1>1
  <2>4. QED
    BY <2>1, <2>2, <2>3
<1>3. b \in Seq(S) /\ Len(b) = Len(s) - i /\ \A k \in 1..(Len(s) - i) : b[k] = s[k + i]
  <2>1. b \in Seq(S)
    BY <1>1
  <2>2. Len(b) = Len(s) - i
    BY <1>1
  <2>3. \A k \in 1..(Len(s) - i) : b[k] = s[k + i]
    BY <1>1
  <2>4. QED
    BY <2>1, <2>2, <2>3
<1> HIDE DEF a, b
<1>4. /\ a \o b \in Seq(S) /\ Len(a \o b) = Len(s) - 1
      /\ \A k \in 1..(Len(s) - 1) : (a \o b)[k] = IF k <= i - 1 THEN a[k] ELSE b[k - (i - 1)]
  <2>0. a \in Seq(S) /\ b \in Seq(S)
    BY <1>2, <1>3
  <2>1. a \o b \in Seq(S)
    BY <2>0, ConcatProperties
  <2>2. Len(a \o b) = Len(a) + Len(b)
    BY <2>0, ConcatProperties
  <2>3. Len(a \o b) = Len(s) - 1
    BY <1>1, <1>2, <1>3, <2>2
  <2>4. \A k \in 1..(Len(s) - 1) : (a \o b)[k] = IF k <= i - 1 THEN a[k] ELSE b[k - (i - 1)]
    BY <1>1, <1>2, <1>3
  <2>5. QED
    BY <2>1, <2>3, <2>4
<1>5. \A k \in 1..(Len(s) - 1) : (a \o b)[k] = IF k < i THEN s[k] ELSE s[k + 1]
  <2>1. ASSUME NEW k \in 1..(Len(s) - 1), k < i PROVE (a \o b)[k] = s[k]
    BY <1>1, <1>2, <1>4, <2>1
  <2>2. ASSUME NEW k \in 1..(Len(s) - 1), ~(k < i) PROVE (a \o b)[k] = s[k + 1]
    <3>1. k - (i - 1) \in 1..(Len(s) - i) /\ (k - (i - 1)) + i = k + 1
      BY <1>1, <2>2
    <3>2. (a \o b)[k] = b[k - (i - 1)]
      BY <1>1, <1>4, <2>2
    <3>3. QED
      BY <1>3, <3>1, <3>2
  <2>3. QED
    BY <2>1, <2>2
<1>6. RemoveAt(s, i) = a \o b
  BY DEF RemoveAt, a, b
<1>7. QED
  BY <1>4, <1>5, <1>6

\* l is s with e put in before its i-th element.
Inserted(l, S, s, i, e) ==
    /\ l \in Seq(S) /\ Len(l) = Len(s) + 1
    /\ \A k \in 1..(Len(s) + 1) : l[k] = IF k < i THEN s[k] ELSE IF k = i THEN e ELSE s[k - 1]

LEMMA InsertAtIs ==
    ASSUME NEW S, NEW s \in Seq(S), NEW i \in 1..(Len(s) + 1), NEW e \in S
    PROVE  Inserted(InsertAt(s, i, e), S, s, i, e)
<1> DEFINE a == SubSeq(s, 1, i - 1)
           b == SubSeq(s, i, Len(s))
           m == a \o <<e>>
<1>1. Len(s) \in Nat /\ \A k \in 1..Len(s) : s[k] \in S
  BY ElementOfSeq
<1>2. a \in Seq(S) /\ Len(a) = i - 1 /\ \A k \in 1..(i - 1) : a[k] = s[k]
  <2>1. a \in Seq(S)
    BY <1>1
  <2>2. Len(a) = i - 1
    BY <1>1
  <2>3. \A k \in 1..(i - 1) : a[k] = s[k]
    BY <1>1
  <2>4. QED
    BY <2>1, <2>2, <2>3
<1>3. b \in Seq(S) /\ Len(b) = Len(s) - i + 1 /\ \A k \in 1..(Len(s) - i + 1) : b[k] = s[k + i - 1]
  <2>1. b \in Seq(S)
    BY <1>1
  <2>2. Len(b) = Len(s) - i + 1
    BY <1>1
  <2>3. \A k \in 1..(Len(s) - i + 1) : b[k] = s[k + i - 1]
    BY <1>1
  <2>4. QED
    BY <2>1, <2>2, <2>3
<1> HIDE DEF a, b
<1>4. m \in Seq(S) /\ Len(m) = i /\ \A k \in 1..i : m[k] = IF k <= i - 1 THEN a[k] ELSE e
  <2>1. a \in Seq(S) /\ Len(a) = i - 1
    BY <1>2
  <2>2. m = Append(a, e)
    BY <2>1
  <2>3. QED
    BY <2>1, <2>2
<1> HIDE DEF m
<1>5. /\ m \o b \in Seq(S) /\ Len(m \o b) = Len(s) + 1
      /\ \A k \in 1..(Len(s) + 1) : (m \o b)[k] = IF k <= i THEN m[k] ELSE b[k - i]
  <2>1. m \in Seq(S) /\ b \in Seq(S)
    BY <1>3, <1>4
  <2>2. m \o b \in Seq(S)
    BY <2>1, ConcatProperties
  <2>3. Len(m \o b) = Len(m) + Len(b)
    BY <2>1, ConcatProperties
  <2>4. Len(m \o b) = Len(s) + 1
    BY <1>1, <1>3, <1>4, <2>3
  <2>5. \A k \in 1..(Len(s) + 1) : (m \o b)[k] = IF k <= i THEN m[k] ELSE b[k - i]
    BY <1>1, <1>3, <1>4
  <2>6. QED
    BY <2>2, <2>4, <2>5
<1>6. \A k \in 1..(Len(s) + 1) : (m \o b)[k] = IF k < i THEN s[k] ELSE IF k = i THEN e ELSE s[k - 1]
  BY <1>1, <1>2, <1>3, <1>4, <1>5
<1>7. InsertAt(s, i, e) = m \o b
  BY DEF InsertAt, a, b, m
<1>8. QED
  BY <1>5, <1>6, <1>7 DEF Inserted

\* Every unit of l comes from a place of s, one of the first b from one of the first b.
Drawn(l, s, b) == \A k \in DOMAIN l : \E m \in DOMAIN s : l[k] = s[m] /\ (k <= b => m <= b)

\* A unit leaves the board.
LEMMA LeaveIs ==
    ASSUME NEW s \in Seq(Unit), IsInjective(s), NEW i \in DOMAIN s
    PROVE  /\ RemoveAt(s, i) \in Seq(Unit) /\ IsInjective(RemoveAt(s, i))
           /\ ToSet(s) \ {s[i]} \subseteq ToSet(RemoveAt(s, i))
           /\ \A b \in Nat : ~(i <= b) => Drawn(RemoveAt(s, i), s, b)
<1> DEFINE l == RemoveAt(s, i)
<1>1. Len(s) \in Nat /\ DOMAIN s = 1..Len(s) /\ i \in 1..Len(s)
  OBVIOUS
<1>2. /\ l \in Seq(Unit) /\ Len(l) = Len(s) - 1
      /\ \A k \in 1..(Len(s) - 1) : l[k] = IF k < i THEN s[k] ELSE s[k + 1]
  BY <1>1, RemoveAtIs
<1> HIDE DEF l
<1>3. DOMAIN l = 1..(Len(s) - 1)
  BY <1>2
<1>4. IsInjective(l)
  BY <1>1, <1>2, <1>3 DEF IsInjective
<1>5. ASSUME NEW k \in 1..Len(s), k # i PROVE s[k] \in ToSet(l)
  <2>1. CASE k < i
    BY <1>1, <1>2, <1>3, <2>1 DEF ToSet
  <2>2. CASE k > i
    <3>1. k - 1 \in DOMAIN l /\ l[k - 1] = s[k]
      BY <1>1, <1>2, <1>3, <2>2
    <3>2. QED
      BY <3>1 DEF ToSet
  <2>3. QED
    BY <1>1, <1>5, <2>1, <2>2
<1>6. ToSet(s) \ {s[i]} \subseteq ToSet(l)
  BY <1>1, <1>5 DEF ToSet
<1>7. ASSUME NEW b \in Nat, ~(i <= b) PROVE Drawn(l, s, b)
  BY <1>1, <1>2, <1>3, <1>7 DEF Drawn
<1>8. QED
  BY <1>2, <1>4, <1>6, <1>7 DEF l

\* A unit moves on the board.
LEMMA MoveIs ==
    ASSUME NEW s \in Seq(Unit), IsInjective(s), NEW i \in DOMAIN s, NEW j \in DOMAIN s
    PROVE  LET l == InsertAt(RemoveAt(s, i), j, s[i])
           IN  /\ l \in Seq(Unit) /\ IsInjective(l) /\ ToSet(s) \subseteq ToSet(l)
               /\ \A b \in Nat : (i <= b) = (j <= b) => Drawn(l, s, b)
<1> DEFINE r == RemoveAt(s, i)
           l == InsertAt(r, j, s[i])
<1>1. Len(s) \in Nat /\ DOMAIN s = 1..Len(s) /\ i \in 1..Len(s) /\ j \in 1..Len(s) /\ s[i] \in Unit
  OBVIOUS
<1>2. /\ r \in Seq(Unit) /\ Len(r) = Len(s) - 1
      /\ \A k \in 1..(Len(s) - 1) : r[k] = IF k < i THEN s[k] ELSE s[k + 1]
  BY <1>1, RemoveAtIs
<1> HIDE DEF r
<1>3. /\ l \in Seq(Unit) /\ Len(l) = Len(s)
      /\ \A k \in 1..Len(s) : l[k] = IF k < j THEN r[k] ELSE IF k = j THEN s[i] ELSE r[k - 1]
  <2>1. r \in Seq(Unit) /\ j \in 1..(Len(r) + 1) /\ s[i] \in Unit /\ Len(r) + 1 = Len(s)
    BY <1>1, <1>2
  <2>2. Inserted(l, Unit, r, j, s[i])
    BY <2>1, InsertAtIs, Zenon
  <2>3. QED
    BY <2>1, <2>2, Zenon DEF Inserted
<1> HIDE DEF l
<1> DEFINE from == [k \in 1..Len(s) |-> IF k = j THEN i ELSE IF k < j THEN (IF k < i THEN k ELSE k + 1)
                                                     ELSE (IF k - 1 < i THEN k - 1 ELSE k)]
           to == [m \in 1..Len(s) |-> IF m = i THEN j ELSE IF m < i THEN (IF m < j THEN m ELSE m + 1)
                                                   ELSE (IF m - 1 < j THEN m - 1 ELSE m)]
<1>4. DOMAIN l = 1..Len(s)
  BY <1>3
<1>5. \A k \in 1..Len(s) : from[k] \in 1..Len(s) /\ l[k] = s[from[k]]
  BY <1>1, <1>2, <1>3
<1>6. \A m \in 1..Len(s) : to[m] \in 1..Len(s) /\ from[to[m]] = m
  BY <1>1
<1>7. \A k, m \in 1..Len(s) : from[k] = from[m] => k = m
  BY <1>1
<1>8. ASSUME NEW b \in Nat, (i <= b) = (j <= b), NEW k \in 1..Len(s), k <= b PROVE from[k] <= b
  BY <1>1, <1>8
<1> HIDE DEF from, to
<1>9. IsInjective(l)
  BY <1>1, <1>4, <1>5, <1>7 DEF IsInjective
<1>10. ToSet(s) \subseteq ToSet(l)
  BY <1>1, <1>4, <1>5, <1>6 DEF ToSet
<1>11. ASSUME NEW b \in Nat, (i <= b) = (j <= b) PROVE Drawn(l, s, b)
  BY <1>1, <1>4, <1>5, <1>8, <1>11 DEF Drawn
<1>12. QED
  BY <1>3, <1>9, <1>10, <1>11 DEF l, r

\* A unit arrives on the board.
LEMMA ArriveIs ==
    ASSUME NEW s \in Seq(Unit), IsInjective(s), NEW u \in Unit \ ToSet(s), NEW i \in 1..(Len(s) + 1)
    PROVE  LET l == InsertAt(s, i, u)
           IN  /\ l \in Seq(Unit) /\ IsInjective(l) /\ ToSet(s) \subseteq ToSet(l)
               /\ \A k \in DOMAIN l : l[k] = u \/ \E m \in DOMAIN s : l[k] = s[m] /\ m <= k
<1> DEFINE l == InsertAt(s, i, u)
<1>1. Len(s) \in Nat /\ DOMAIN s = 1..Len(s) /\ \A m \in 1..Len(s) : s[m] # u
  BY DEF ToSet
<1>2. /\ l \in Seq(Unit) /\ Len(l) = Len(s) + 1
      /\ \A k \in 1..(Len(s) + 1) : l[k] = IF k < i THEN s[k] ELSE IF k = i THEN u ELSE s[k - 1]
  <2>1. u \in Unit
    OBVIOUS
  <2>2. Inserted(l, Unit, s, i, u)
    BY <2>1, InsertAtIs, Zenon
  <2>3. QED
    BY <2>2, Zenon DEF Inserted
<1> HIDE DEF l
<1>3. DOMAIN l = 1..(Len(s) + 1)
  BY <1>1, <1>2
<1>4. IsInjective(l)
  <2>1. \A p, q \in 1..Len(s) : s[p] = s[q] => p = q
    BY <1>1 DEF IsInjective
  <2> SUFFICES ASSUME NEW a \in 1..(Len(s) + 1), NEW b \in 1..(Len(s) + 1), l[a] = l[b]
               PROVE  a = b
    BY <1>3 DEF IsInjective
  <2> DEFINE from(k) == IF k < i THEN k ELSE k - 1
  <2>2. \A k \in 1..(Len(s) + 1) : k # i => from(k) \in 1..Len(s) /\ l[k] = s[from(k)]
    BY <1>1, <1>2
  <2>3. CASE a # i /\ b # i
    <3>1. from(a) = from(b)
      BY <2>1, <2>2, <2>3
    <3>2. QED
      BY <1>1, <2>3, <3>1
  <2>4. CASE a = i \/ b = i
    <3>1. l[i] = u
      BY <1>1, <1>2
    <3>2. QED
      BY <1>1, <2>2, <2>4, <3>1
  <2>5. QED
    BY <2>3, <2>4
<1>5. ASSUME NEW m \in 1..Len(s) PROVE s[m] \in ToSet(l)
  <2>1. CASE m < i
    BY <1>1, <1>2, <1>3, <2>1 DEF ToSet
  <2>2. CASE ~(m < i)
    <3>1. m + 1 \in DOMAIN l /\ l[m + 1] = s[m]
      BY <1>1, <1>2, <1>3, <2>2
    <3>2. QED
      BY <3>1 DEF ToSet
  <2>3. QED
    BY <2>1, <2>2
<1>6. \A k \in DOMAIN l : l[k] = u \/ \E m \in DOMAIN s : l[k] = s[m] /\ m <= k
  BY <1>1, <1>2, <1>3
<1>7. QED
  BY <1>1, <1>2, <1>4, <1>5, <1>6 DEF l, ToSet

-----------------------------------------------------------------------------
(* The collectors *)

\* What the proofs need of a collector's policy.
Sound(c, p) ==
    /\ p.paged \in BOOLEAN /\ p.deferred \in BOOLEAN
    /\ p.paged => ~p.deferred /\ p.refused = {"ends"}
    /\ p.unit \subseteq {"ends", "logged"} /\ p.refused \subseteq {"ends", "logged", "counts"}
    /\ p.refused \subseteq {"ends"} \/ c \in {"weather_collector", "sports_odds_collector"}

LEMMA PolicyFacts ==
    ASSUME NEW c \in Collecting
    PROVE  Sound(c, Policies[c])
<1>1. c \in {"sports_collector", "nba_collector", "btc_collector", "coinglass_collector", "weather_collector",
            "sports_odds_collector", "dome_market_collector", "kalshi_collector", "wallet_tracker"}
  <2>1. c \in DOMAIN Policies
    BY CollectingAssumption
  <2>2. QED
    BY <2>1 DEF Policies
<1>2. CASE c = "sports_collector"
  BY <1>2 DEF Policies, SportsCollector, Policy, Sound
<1>3. CASE c = "nba_collector"
  BY <1>3 DEF Policies, NbaCollector, Policy, Sound
<1>4. CASE c = "btc_collector"
  BY <1>4 DEF Policies, BtcCollector, Policy, Sound
<1>5. CASE c = "coinglass_collector"
  BY <1>5 DEF Policies, CoinGlassCollector, Policy, Sound
<1>6. CASE c = "weather_collector"
  BY <1>6 DEF Policies, WeatherCollector, Policy, Sound
<1>7. CASE c = "sports_odds_collector"
  BY <1>7 DEF Policies, SportsOddsCollector, Policy, Sound
<1>8. CASE c = "dome_market_collector"
  BY <1>8 DEF Policies, DomeMarketCollector, Policy, Sound
<1>9. CASE c = "kalshi_collector"
  BY <1>9 DEF Policies, KalshiCollector, Policy, Sound
<1>10. CASE c = "wallet_tracker"
  BY <1>10 DEF Policies, WalletTracker, Policy, Sound
<1>11. QED
  BY <1>1, <1>2, <1>3, <1>4, <1>5, <1>6, <1>7, <1>8, <1>9, <1>10

\* CollectorsTypeOK, one conjunct for each variable.
Types ==
    /\ board \in Seq(Unit) /\ IsInjective(board) /\ changes \in 0..MaxChanges
    /\ at \in [Collecting -> {"none", "new", "list", "work", "asleep", "teardown", "ended", "unrun"}]
    /\ client \in [Collecting -> BOOLEAN] /\ todo \in [Collecting -> Seq(Unit)]
    /\ offset \in [Collecting -> Nat]
    /\ full \in [Collecting -> BOOLEAN] /\ refused \in [Collecting -> BOOLEAN]
    /\ shifted \in [Collecting -> BOOLEAN]
    /\ wrote \in [Collecting -> SUBSET Unit] /\ stored \in [Collecting -> SUBSET Unit]
    /\ logged \in [Collecting -> SUBSET Unit] /\ stable \in [Collecting -> SUBSET Unit]
    /\ missed \in [Collecting -> SUBSET Unit] /\ unfit \in [Collecting -> SUBSET Unit]
    /\ report \in [Collecting -> {"none", "ok", "failed"}]

LEMMA CollectorsTypes == CollectorsTypeOK <=> Types
<1>1. {full, refused, shifted} \subseteq [Collecting -> BOOLEAN] <=>
          /\ full \in [Collecting -> BOOLEAN] /\ refused \in [Collecting -> BOOLEAN]
          /\ shifted \in [Collecting -> BOOLEAN]
  BY Zenon
<1>2. {unfit, wrote, stored, logged, stable, missed} \subseteq [Collecting -> SUBSET Unit] <=>
          /\ wrote \in [Collecting -> SUBSET Unit] /\ stored \in [Collecting -> SUBSET Unit]
          /\ logged \in [Collecting -> SUBSET Unit] /\ stable \in [Collecting -> SUBSET Unit]
          /\ missed \in [Collecting -> SUBSET Unit] /\ unfit \in [Collecting -> SUBSET Unit]
  BY Zenon
<1>3. QED
  BY <1>1, <1>2, Zenon DEF CollectorsTypeOK, Types

LEMMA HeadIs ==
    ASSUME NEW q \in Seq(Unit), q # <<>>
    PROVE  Head(q) \in Unit /\ Tail(q) \in Seq(Unit) /\ ToSet(q) = {Head(q)} \cup ToSet(Tail(q))
<1>1. /\ Head(q) \in Unit /\ Tail(q) \in Seq(Unit) /\ Head(q) = q[1]
      /\ Len(q) \in Nat \ {0} /\ Len(Tail(q)) = Len(q) - 1
      /\ \A k \in 1..(Len(q) - 1) : Tail(q)[k] = q[k + 1]
  OBVIOUS
<1>2. DOMAIN q = 1..Len(q) /\ DOMAIN Tail(q) = 1..(Len(q) - 1)
  BY <1>1
<1>3. ASSUME NEW k \in DOMAIN q PROVE q[k] \in {Head(q)} \cup ToSet(Tail(q))
  <2>1. CASE k = 1
    BY <1>1, <2>1
  <2>2. CASE k # 1
    <3>1. k - 1 \in DOMAIN Tail(q) /\ Tail(q)[k - 1] = q[k]
      BY <1>1, <1>2, <2>2
    <3>2. QED
      BY <3>1 DEF ToSet
  <2>3. QED
    BY <2>1, <2>2
<1>4. ASSUME NEW k \in DOMAIN Tail(q) PROVE Tail(q)[k] \in ToSet(q)
  <2>1. k + 1 \in DOMAIN q /\ q[k + 1] = Tail(q)[k]
    BY <1>1, <1>2
  <2>2. QED
    BY <2>1 DEF ToSet
<1>5. Head(q) \in ToSet(q)
  BY <1>1, <1>2 DEF ToSet
<1>6. QED
  BY <1>1, <1>3, <1>4, <1>5 DEF ToSet

\* What this round has done with: stored, about to be, logged as failed, or still to be worked.
Covered(c) == stored[c] \cup wrote[c] \cup logged[c] \cup ToSet(todo[c])

\* Nothing is carried over from one round to the next, nor from a page to the next but what is
\* stored; what has been listed all through the round, with data to use, still is.
Fresh(c) ==
    /\ at[c] # "work" => todo[c] = <<>> /\ wrote[c] = {} /\ ~full[c]
    /\ ~InRound(c) => offset[c] = 0 /\ stored[c] = {} /\ logged[c] = {}
    /\ InRound(c) => stable[c] \subseteq ToSet(board) \ unfit[c] /\ missed[c] = {}

\* A refused statement is only outlived by the collectors that go on after it, or learn of it
\* with the commit; none of them reads in pages.
Refusal(c) ==
    /\ full[c] => Policies[c].paged
    /\ at[c] = "list" => ~refused[c]
    /\ (at[c] = "work" /\ refused[c]) =>
           /\ ~Policies[c].paged
           /\ Policies[c].deferred \/ c \in {"weather_collector", "sports_odds_collector"}

\* What has been listed is covered: everything, or the pages up to this one, as long as nothing
\* moved across them.
Reached(c) ==
    /\ (at[c] = "work" /\ ~Policies[c].paged) => stable[c] \subseteq Covered(c)
    /\ (Policies[c].paged /\ InRound(c) /\ ~shifted[c]) =>
           \A i \in DOMAIN board :
               (board[i] \in stable[c] /\ (i <= Read(c) \/ (at[c] = "work" /\ ~full[c]))) => board[i] \in Covered(c)

\* What the round before left behind.
Explained(c) ==
    /\ (report[c] = "ok" /\ missed[c] # {} /\ ~Policies[c].paged) =>
           refused[c] /\ c \in {"weather_collector", "sports_odds_collector"}
    /\ (Policies[c].paged /\ missed[c] # {}) => shifted[c]

RoundOK(c) == Fresh(c) /\ Refusal(c) /\ Reached(c) /\ Explained(c)

CollectorsInv == Types /\ \A c \in Collecting : RoundOK(c)

\* The step is none of d's.
Untouched(d) ==
    /\ at'[d] = at[d] /\ todo'[d] = todo[d] /\ offset'[d] = offset[d] /\ full'[d] = full[d]
    /\ wrote'[d] = wrote[d] /\ refused'[d] = refused[d] /\ stored'[d] = stored[d]
    /\ logged'[d] = logged[d] /\ stable'[d] = stable[d] /\ shifted'[d] = shifted[d]
    /\ report'[d] = report[d] /\ missed'[d] = missed[d]

LEMMA UntouchedKeeps ==
    ASSUME NEW d \in Collecting, RoundOK(d), Untouched(d), board' = board, unfit' = unfit
    PROVE  RoundOK(d)'
BY DEF RoundOK, Fresh, Refusal, Reached, Explained, Covered, InRound, Read, Untouched

\* The step keeps the types and touches nothing but c.
OnlyOf(c) == Types' /\ board' = board /\ unfit' = unfit /\ \A d \in Collecting \ {c} : Untouched(d)

\* The step does this with refused[c], or nothing.
Refuses(c) == refused' = refused \/ \E b \in BOOLEAN : refused' = [refused EXCEPT ![c] = b]

LEMMA RefusesIs ==
    ASSUME Types, NEW c \in Collecting, Refuses(c)
    PROVE  refused' \in [Collecting -> BOOLEAN] /\ \A d \in Collecting \ {c} : refused'[d] = refused[d]
BY DEF Types, Refuses

LEMMA OverEffect ==
    ASSUME Types, NEW c \in Collecting, NEW how \in {"ok", "failed"}, NEW kept, Over(c, how, kept), Refuses(c)
    PROVE  OnlyOf(c)
<1>1. Types'
  BY RefusesIs DEF Types, Over
<1>2. ASSUME NEW d \in Collecting \ {c} PROVE Untouched(d)
  <2>1. refused'[d] = refused[d]
    BY RefusesIs
  <2>2. QED
    BY <2>1 DEF Types, Over, Untouched
<1>3. QED
  BY <1>1, <1>2 DEF OnlyOf, Over

LEMMA WrittenEffect ==
    ASSUME Types, NEW c \in Collecting, todo[c] # <<>>,
           Written(c) \/ SkipLogged(c) \/ PassOver(c), Refuses(c)
    PROVE  OnlyOf(c)
<1>1. todo[c] \in Seq(Unit) /\ Head(todo[c]) \in Unit /\ Tail(todo[c]) \in Seq(Unit)
  BY HeadIs DEF Types
<1>2. QED
  <2>1. Types'
    <3>1. /\ wrote[c] \cup {Head(todo[c])} \in SUBSET Unit /\ logged[c] \cup {Head(todo[c])} \in SUBSET Unit
          /\ refused' \in [Collecting -> BOOLEAN]
      BY <1>1, RefusesIs DEF Types
    <3>2. CASE Written(c)
      BY <1>1, <3>1, <3>2 DEF Types, Written
    <3>3. CASE SkipLogged(c)
      BY <1>1, <3>1, <3>3 DEF Types, SkipLogged
    <3>4. CASE PassOver(c)
      BY <1>1, <3>1, <3>4 DEF Types, PassOver
    <3>5. QED
      BY <3>2, <3>3, <3>4
  <2>2. ASSUME NEW d \in Collecting \ {c} PROVE Untouched(d)
    <3>1. refused'[d] = refused[d]
      BY RefusesIs
    <3>2. QED
      BY <3>1 DEF Types, Written, SkipLogged, PassOver, Untouched
  <2>3. QED
    BY <2>1, <2>2 DEF OnlyOf, Written, SkipLogged, PassOver

LEMMA ContinueEffect ==
    ASSUME Types, NEW c \in Collecting, NEW kept \in SUBSET Unit, Continue(c, kept), Refuses(c)
    PROVE  OnlyOf(c)
<1>1. CASE full[c]
  <2>0. /\ at' = [at EXCEPT ![c] = "list"] /\ offset' = [offset EXCEPT ![c] = @ + Page]
        /\ stored' = [stored EXCEPT ![c] = kept] /\ wrote' = [wrote EXCEPT ![c] = {}]
        /\ full' = [full EXCEPT ![c] = FALSE]
        /\ UNCHANGED <<board, unfit, changes, client, todo, logged, stable, shifted, report, missed>>
    BY <1>1 DEF Continue
  <2>1. Page \in Nat
    BY PageAssumption
  <2>2. QED
    <3>1. Types'
      <4>1. offset[c] + Page \in Nat /\ {} \in SUBSET Unit /\ refused' \in [Collecting -> BOOLEAN]
        BY <2>1, RefusesIs DEF Types
      <4>2. QED
        BY <2>0, <4>1 DEF Types
    <3>2. ASSUME NEW d \in Collecting \ {c} PROVE Untouched(d)
      <4>1. refused'[d] = refused[d]
        BY RefusesIs
      <4>2. QED
        BY <2>0, <4>1 DEF Types, Untouched
    <3>3. QED
      BY <2>0, <3>1, <3>2 DEF OnlyOf
<1>2. CASE ~full[c]
  BY <1>2, OverEffect DEF Continue
<1>3. QED
  BY <1>1, <1>2

LEMMA RoundEffect ==
    ASSUME Types, NEW c \in Collecting, RoundStep(c)
    PROVE  OnlyOf(c)
<1>1. CASE Begin(c)
  <2>1. ToSet(board) \subseteq Unit
    BY DEF Types, ToSet
  <2>2. QED
    BY <1>1, <2>1 DEF Types, Begin, OnlyOf, Untouched
<1>2. ASSUME Fail(c), Refuses(c) PROVE OnlyOf(c)
  BY <1>2, OverEffect DEF Fail
<1>3. ASSUME NEW how, Outcome(c, how), todo[c] # <<>>, Refuses(c) PROVE OnlyOf(c)
  BY <1>2, <1>3, WrittenEffect DEF Outcome
<1>4. (UNCHANGED refused => Refuses(c)) /\ (refused' = [refused EXCEPT ![c] = TRUE] => Refuses(c))
  BY DEF Refuses
<1>5. CASE List(c)
  <2>1. CASE Over(c, "ok", stored[c]) /\ UNCHANGED refused
    BY <1>4, <2>1, OverEffect
  <2>2. CASE /\ at' = [at EXCEPT ![c] = "work"]
             /\ todo' = [todo EXCEPT ![c] = Listing(c)]
             /\ full' = [full EXCEPT ![c] = Policies[c].paged /\ Len(Listing(c)) = Page]
             /\ UNCHANGED <<board, unfit, changes, client, offset, wrote, refused, stored, logged, stable, shifted, report, missed>>
    <3>1. Listing(c) \in Seq(Unit)
      <4>1. board \in Seq(Unit) /\ offset[c] \in Nat /\ Page \in Nat
        BY PageAssumption DEF Types
      <4>2. QED
        BY <4>1 DEF Listing
    <3>2. QED
      BY <2>2, <3>1 DEF Types, OnlyOf, Untouched
  <2>3. QED
    BY <1>5, <2>1, <2>2 DEF List
<1>6. CASE ListFails(c) \/ CommitFails(c)
  BY <1>2, <1>4, <1>6 DEF ListFails, CommitFails
<1>7. CASE WorkUnit(c) \/ PassOver(c)
  <2>1. todo[c] # <<>> /\ Refuses(c) /\ (Written(c) \/ PassOver(c))
    BY <1>4, <1>7 DEF WorkUnit, Usable, PassOver
  <2>2. QED
    BY <2>1, WrittenEffect
<1>8. CASE UnitFails(c)
  BY <1>3, <1>4, <1>8 DEF UnitFails
<1>9. CASE RowRefused(c)
  BY <1>3, <1>4, <1>9, WrittenEffect DEF RowRefused, Usable
<1>10. CASE Commit(c)
  <2>1. stored[c] \cup wrote[c] \in SUBSET Unit /\ stored[c] \in SUBSET Unit
    BY DEF Types
  <2>2. QED
    BY <1>2, <1>4, <1>10, <2>1, ContinueEffect DEF Commit
<1>11. QED
  BY <1>1, <1>5, <1>6, <1>7, <1>8, <1>9, <1>10 DEF RoundStep

\* A round may end well only if it has covered what was listed all through it, or is excused.
LEMMA OverStep ==
    ASSUME Types, NEW c \in Collecting, NEW how \in {"ok", "failed"}, NEW kept, Over(c, how, kept),
           how = "ok" => \/ stable[c] \subseteq kept \cup logged[c]
                         \/ (Policies[c].paged /\ shifted[c])
                         \/ (~Policies[c].paged /\ refused'[c] /\ c \in {"weather_collector", "sports_odds_collector"})
    PROVE  RoundOK(c)'
<1>1. /\ at'[c] = "asleep" /\ report'[c] = how /\ todo'[c] = <<>> /\ offset'[c] = 0 /\ full'[c] = FALSE
      /\ wrote'[c] = {} /\ stored'[c] = {} /\ logged'[c] = {} /\ shifted'[c] = shifted[c]
      /\ missed'[c] = IF how = "ok" THEN stable[c] \ (kept \cup logged[c]) ELSE {}
  BY DEF Types, Over
<1>2. Explained(c)'
  BY <1>1, PolicyFacts DEF Explained, Sound
<1>3. QED
  BY <1>1, <1>2 DEF RoundOK, Fresh, Refusal, Reached, InRound

LEMMA BeginStep ==
    ASSUME Types, NEW c \in Collecting, RoundOK(c), Begin(c)
    PROVE  RoundOK(c)'
<1>1. /\ at[c] \in {"new", "asleep"} /\ at'[c] = "list" /\ stable'[c] = ToSet(board) \ unfit[c]
      /\ board' = board /\ unfit' = unfit
      /\ refused'[c] = FALSE /\ shifted'[c] = FALSE /\ report'[c] = "none" /\ missed'[c] = {}
      /\ UNCHANGED <<todo, offset, full, wrote, stored, logged>>
  BY DEF Types, Begin
<1>2. Fresh(c)'
  BY <1>1 DEF RoundOK, Fresh, InRound
<1>3. Reached(c)'
  <2>1. offset'[c] = 0 /\ Read(c)' = 0
    BY <1>1 DEF RoundOK, Fresh, InRound, Read
  <2>2. DOMAIN board = 1..Len(board) /\ Len(board) \in Nat
    BY DEF Types
  <2>3. QED
    BY <1>1, <2>1, <2>2 DEF Reached
<1>4. Refusal(c)' /\ Explained(c)'
  BY <1>1 DEF RoundOK, Fresh, Refusal, Explained, InRound
<1>5. QED
  BY <1>2, <1>3, <1>4 DEF RoundOK

\* What a page holds.
LEMMA ListingIs ==
    ASSUME Types, NEW c \in Collecting
    PROVE  /\ Listing(c) \in Seq(Unit)
           /\ ~Policies[c].paged => Listing(c) = board
           /\ Policies[c].paged =>
                \A i \in DOMAIN board :
                    (offset[c] < i /\ (i <= offset[c] + Page \/ Len(Listing(c)) # Page)) => board[i] \in ToSet(Listing(c))
<1>1. /\ board \in Seq(Unit) /\ Len(board) \in Nat /\ DOMAIN board = 1..Len(board)
      /\ offset[c] \in Nat /\ Page \in Nat \ {0}
  BY PageAssumption DEF Types
<1>2. CASE ~Policies[c].paged
  BY <1>1, <1>2 DEF Listing
<1>3. CASE Policies[c].paged
  <2> DEFINE o == offset[c]
             n == IF o + Page < Len(board) THEN o + Page ELSE Len(board)
             q == Listing(c)
  <2>1. q = SubSeq(board, o + 1, n) /\ o + 1 \in Nat /\ n \in Nat /\ n <= Len(board)
    BY <1>1, <1>3 DEF Listing
  <2>2. q \in Seq(Unit)
    BY <1>1, <2>1
  <2>3. o + 1 <= n => Len(q) = n - o
    BY <1>1, <2>1
  <2>4. \A k \in 1..(n - o) : q[k] = board[o + k]
    BY <1>1, <2>1
  <2>5. o \in Nat
    BY <1>1
  <2>6. (n = o + Page /\ o + Page < Len(board)) \/ n = Len(board)
    BY <1>1
  <2> HIDE DEF o, n, q
  <2>7. ASSUME NEW i \in DOMAIN board, o < i, i <= o + Page \/ Len(q) # Page
        PROVE  board[i] \in ToSet(q)
    <3>1. i <= n
      <4>1. CASE n = Len(board)
        BY <1>1, <4>1
      <4>2. CASE n = o + Page
        <5>1. o + 1 <= n /\ n - o = Page
          BY <1>1, <2>5, <4>2
        <5>2. i <= o + Page
          BY <2>3, <2>7, <5>1
        <5>3. QED
          BY <4>2, <5>2
      <4>3. QED
        BY <2>6, <4>1, <4>2
    <3>2. i - o \in 1..(n - o) /\ o + (i - o) = i
      BY <1>1, <2>5, <2>1, <2>7, <3>1
    <3>3. i - o \in DOMAIN q
      BY <1>1, <2>5, <2>1, <2>2, <2>3, <3>1, <2>7
    <3>4. q[i - o] = board[i]
      BY <2>4, <3>2
    <3>5. QED
      BY <3>3, <3>4 DEF ToSet
  <2>8. QED
    BY <1>3, <2>2, <2>7 DEF o, q
<1>4. QED
  BY <1>2, <1>3

LEMMA ListStep ==
    ASSUME Types, NEW c \in Collecting, RoundOK(c), List(c)
    PROVE  RoundOK(c)'
<1>1. at[c] = "list" /\ todo[c] = <<>> /\ wrote[c] = {} /\ stable[c] \subseteq ToSet(board) \ unfit[c] /\ ~refused[c]
      /\ missed[c] = {} /\ InRound(c) /\ Read(c) = offset[c]
  BY DEF List, RoundOK, Fresh, Refusal, InRound, Read
<1>2. ToSet(<<>>) = {}
  BY DEF ToSet
<1>3. /\ Page \in Nat \ {0} /\ offset[c] \in Nat /\ Len(board) \in Nat /\ DOMAIN board = 1..Len(board)
  BY PageAssumption DEF Types
<1>4. Listing(c) \in Seq(Unit)
  BY ListingIs
<1>5. ~Policies[c].paged => Listing(c) = board
  BY ListingIs
<1>6. Policies[c].paged =>
         \A i \in DOMAIN board :
            (offset[c] < i /\ (i <= offset[c] + Page \/ Len(Listing(c)) # Page)) => board[i] \in ToSet(Listing(c))
  BY ListingIs
<1>7. (Policies[c].paged /\ ~shifted[c]) =>
         \A i \in DOMAIN board : (board[i] \in stable[c] /\ i <= offset[c]) => board[i] \in stored[c] \cup logged[c]
  BY <1>1, <1>2 DEF RoundOK, Reached, Covered
<1>8. CASE Listing(c) = <<>> /\ Over(c, "ok", stored[c])
  <2>1. stable[c] \subseteq stored[c] \cup logged[c] \/ (Policies[c].paged /\ shifted[c])
    <3>1. CASE ~Policies[c].paged
      <4>1. ToSet(board) = {}
        BY <1>2, <1>5, <1>8, <3>1, Zenon
      <4>2. QED
        BY <1>1, <4>1
    <3>2. CASE Policies[c].paged /\ ~shifted[c]
      <4>1. ToSet(Listing(c)) = {} /\ Len(Listing(c)) = 0
        BY <1>2, <1>8
      <4>2. \A i \in DOMAIN board : i <= offset[c]
        BY <1>3, <1>6, <3>2, <4>1
      <4>3. \A u \in stable[c] : \E i \in DOMAIN board : board[i] = u
        BY <1>1 DEF ToSet
      <4>4. QED
        BY <1>7, <3>2, <4>2, <4>3
    <3>3. QED
      BY <3>1, <3>2
  <2>2. QED
    BY <1>8, <2>1, OverStep
<1>9. CASE /\ at' = [at EXCEPT ![c] = "work"] /\ todo' = [todo EXCEPT ![c] = Listing(c)]
           /\ full' = [full EXCEPT ![c] = Policies[c].paged /\ Len(Listing(c)) = Page]
           /\ UNCHANGED <<board, unfit, offset, wrote, refused, stored, logged, stable, shifted, report, missed>>
  <2>1. /\ at'[c] = "work" /\ todo'[c] = Listing(c) /\ full'[c] = (Policies[c].paged /\ Len(Listing(c)) = Page)
        /\ UNCHANGED <<board, unfit, offset, wrote, refused, stored, logged, stable, shifted, report, missed>>
    BY <1>9 DEF Types
  <2>2. Fresh(c)' /\ Refusal(c)' /\ Explained(c)'
    BY <1>1, <2>1 DEF RoundOK, Fresh, Refusal, Explained, InRound
  <2>3. Covered(c)' = stored[c] \cup logged[c] \cup ToSet(Listing(c))
    BY <1>1, <2>1 DEF Covered
  <2>4. ~Policies[c].paged => stable[c] \subseteq Covered(c)'
    BY <1>1, <1>5, <2>3
  <2>5. Read(c)' = offset[c] + Page
    BY <2>1 DEF Read
  <2>6. ASSUME Policies[c].paged, ~shifted[c], NEW i \in DOMAIN board, board[i] \in stable[c],
               i <= offset[c] + Page \/ ~full'[c]
        PROVE  board[i] \in Covered(c)'
    <3>1. CASE i <= offset[c]
      BY <1>7, <2>3, <2>6, <3>1
    <3>2. CASE offset[c] < i
      BY <1>6, <2>1, <2>3, <2>6, <3>2
    <3>3. QED
      BY <1>3, <3>1, <3>2
  <2>7. Reached(c)'
    BY <2>1, <2>4, <2>5, <2>6 DEF Reached
  <2>8. QED
    BY <2>2, <2>7 DEF RoundOK
<1>10. QED
  BY <1>8, <1>9 DEF List

LEMMA UnitStep ==
    ASSUME Types, NEW c \in Collecting, RoundOK(c), at[c] = "work", todo[c] # <<>>,
           Written(c) \/ SkipLogged(c),
           refused'[c] => \/ refused[c]
                          \/ /\ ~Policies[c].paged
                             /\ Policies[c].deferred \/ c \in {"weather_collector", "sports_odds_collector"}
    PROVE  RoundOK(c)'
<1>1. /\ todo'[c] = Tail(todo[c])
      /\ \/ wrote'[c] = wrote[c] \cup {Head(todo[c])} /\ logged'[c] = logged[c]
         \/ wrote'[c] = wrote[c] /\ logged'[c] = logged[c] \cup {Head(todo[c])}
      /\ UNCHANGED <<board, unfit, at, offset, full, stored, stable, shifted, report, missed>>
  <2>1. CASE Written(c)
    BY <2>1 DEF Types, Written
  <2>2. CASE SkipLogged(c)
    BY <2>2 DEF Types, SkipLogged
  <2>3. QED
    BY <2>1, <2>2
<1>2. ToSet(todo[c]) = {Head(todo[c])} \cup ToSet(Tail(todo[c]))
  <2>1. todo[c] \in Seq(Unit)
    BY DEF Types
  <2>2. QED
    BY <2>1, HeadIs, Zenon
<1>3. Covered(c)' = Covered(c)
  BY <1>1, <1>2 DEF Covered
<1>4. Read(c)' = Read(c) /\ InRound(c)' /\ InRound(c)
  BY <1>1 DEF Read, InRound
<1>5. Reached(c)'
  BY <1>1, <1>3, <1>4 DEF RoundOK, Reached
<1>6. Fresh(c)' /\ Refusal(c)' /\ Explained(c)'
  BY <1>1, <1>4 DEF RoundOK, Fresh, Refusal, Explained
<1>7. QED
  BY <1>5, <1>6 DEF RoundOK

\* The unit passed over is not one that was usable all through the round.
LEMMA PassOverStep ==
    ASSUME Types, NEW c \in Collecting, RoundOK(c), PassOver(c)
    PROVE  RoundOK(c)'
<1>1. /\ at[c] = "work" /\ todo[c] # <<>> /\ Head(todo[c]) \in unfit[c] /\ todo'[c] = Tail(todo[c])
      /\ UNCHANGED <<board, unfit, at, offset, full, wrote, refused, stored, logged, stable, shifted, report, missed>>
  BY DEF Types, PassOver
<1>2. ToSet(todo[c]) = {Head(todo[c])} \cup ToSet(Tail(todo[c]))
  <2>1. todo[c] \in Seq(Unit)
    BY DEF Types
  <2>2. QED
    BY <1>1, <2>1, HeadIs, Zenon
<1>3. Covered(c) = Covered(c)' \cup {Head(todo[c])}
  BY <1>1, <1>2 DEF Covered
<1>4. Read(c)' = Read(c) /\ InRound(c)' /\ InRound(c)
  BY <1>1 DEF Read, InRound
<1>5. Head(todo[c]) \notin stable[c]
  BY <1>1, <1>4 DEF RoundOK, Fresh
<1>6. \A u \in stable[c] : u \in Covered(c) => u \in Covered(c)'
  BY <1>3, <1>5
<1>7. Reached(c)'
  BY <1>1, <1>4, <1>6 DEF RoundOK, Reached
<1>8. Fresh(c)' /\ Refusal(c)' /\ Explained(c)'
  BY <1>1, <1>4 DEF RoundOK, Fresh, Refusal, Explained
<1>9. QED
  BY <1>7, <1>8 DEF RoundOK

LEMMA FailStep ==
    ASSUME Types, NEW c \in Collecting, Fail(c)
    PROVE  RoundOK(c)'
BY OverStep DEF Fail

LEMMA RefusedStep ==
    ASSUME Types, NEW c \in Collecting, RoundOK(c), RowRefused(c)
    PROVE  RoundOK(c)'
<1>1. at[c] = "work" /\ todo[c] # <<>> /\ refused'[c] = TRUE
  BY DEF RowRefused, Usable, Types
<1>2. CASE Policies[c].deferred
  <2>1. Written(c) /\ ~Policies[c].paged
    BY <1>2, PolicyFacts DEF RowRefused, Sound
  <2>2. QED
    BY <1>1, <1>2, <2>1, UnitStep
<1>3. CASE ~Policies[c].deferred
  <2>1. PICK how \in Policies[c].refused : Outcome(c, how)
    BY <1>3 DEF RowRefused
  <2>2. CASE how = "ends"
    BY <2>1, <2>2, FailStep DEF Outcome
  <2>3. CASE how \in {"logged", "counts"}
    <3>1. Written(c) \/ SkipLogged(c)
      BY <2>1, <2>3 DEF Outcome
    <3>2. ~Policies[c].paged /\ c \in {"weather_collector", "sports_odds_collector"}
      <4>1. Sound(c, Policies[c])
        BY PolicyFacts
      <4>2. QED
        BY <2>1, <2>3, <4>1 DEF Sound
    <3>3. QED
      BY <1>1, <3>1, <3>2, UnitStep
  <2>4. QED
    BY <2>1, <2>2, <2>3 DEF Outcome
<1>4. QED
  BY <1>2, <1>3, PolicyFacts DEF Sound

\* The commit of a round that reads in pages stores all it wrote; any other ends the round.
LEMMA ContinueStep ==
    ASSUME Types, NEW c \in Collecting, RoundOK(c), at[c] = "work", todo[c] = <<>>, UNCHANGED refused,
           NEW kept, Continue(c, kept),
           (kept = stored[c] \cup wrote[c] /\ ~refused[c]) \/ (refused[c] /\ ~Policies[c].deferred)
    PROVE  RoundOK(c)'
<1>1. ToSet(<<>>) = {}
  BY DEF ToSet
<1>2. Covered(c) = stored[c] \cup wrote[c] \cup logged[c]
  BY <1>1 DEF Covered
<1>3. InRound(c) /\ Read(c) = offset[c] + Page /\ stable[c] \subseteq ToSet(board) \ unfit[c] /\ missed[c] = {}
  BY DEF InRound, Read, RoundOK, Fresh
<1>4. refused[c] => ~Policies[c].paged /\ c \in {"weather_collector", "sports_odds_collector"}
  BY DEF RoundOK, Refusal
<1>5. CASE full[c]
  <2>1. Policies[c].paged /\ ~refused[c] /\ kept = stored[c] \cup wrote[c]
    BY <1>4, <1>5 DEF RoundOK, Refusal
  <2>2. /\ at'[c] = "list" /\ offset'[c] = offset[c] + Page /\ stored'[c] = kept /\ wrote'[c] = {}
        /\ full'[c] = FALSE
        /\ UNCHANGED <<board, unfit, todo, logged, stable, shifted, report, missed>>
    BY <1>5 DEF Types, Continue
  <2>3. Covered(c)' = Covered(c)
    BY <1>1, <1>2, <2>1, <2>2 DEF Covered
  <2>4. Read(c)' = Read(c)
    BY <1>3, <2>2 DEF Read
  <2>5. Reached(c)'
    BY <1>3, <2>1, <2>2, <2>3, <2>4 DEF RoundOK, Reached
  <2>6. Fresh(c)' /\ Refusal(c)' /\ Explained(c)'
    BY <1>3, <2>1, <2>2 DEF RoundOK, Fresh, Refusal, Explained, InRound
  <2>7. QED
    BY <2>5, <2>6 DEF RoundOK
<1>6. CASE ~full[c]
  <2>1. Over(c, "ok", kept)
    BY <1>6 DEF Continue
  <2>2. CASE refused[c]
    BY <1>4, <2>1, <2>2, OverStep
  <2>3. CASE ~refused[c] /\ Policies[c].paged /\ ~shifted[c]
    <3>1. kept = stored[c] \cup wrote[c]
      BY <2>3
    <3>2. \A i \in DOMAIN board : board[i] \in stable[c] => board[i] \in Covered(c)
      BY <1>3, <1>6, <2>3 DEF RoundOK, Reached
    <3>3. stable[c] \subseteq Covered(c)
      BY <1>3, <3>2 DEF ToSet
    <3>4. QED
      BY <1>2, <2>1, <3>1, <3>3, OverStep
  <2>4. CASE ~refused[c] /\ ~Policies[c].paged
    <3>1. kept = stored[c] \cup wrote[c] /\ stable[c] \subseteq Covered(c)
      BY <2>4 DEF RoundOK, Reached
    <3>2. QED
      BY <1>2, <2>1, <3>1, OverStep
  <2>5. CASE Policies[c].paged /\ shifted[c]
    BY <2>1, <2>5, OverStep
  <2>6. QED
    BY <2>2, <2>3, <2>4, <2>5, PolicyFacts DEF Sound
<1>7. QED
  BY <1>5, <1>6

LEMMA RoundKeeps ==
    ASSUME Types, NEW c \in Collecting, RoundOK(c), RoundStep(c)
    PROVE  RoundOK(c)'
<1>1. CASE Begin(c)
  BY <1>1, BeginStep
<1>2. CASE List(c)
  BY <1>2, ListStep
<1>3. CASE ListFails(c) \/ CommitFails(c)
  BY <1>3, FailStep DEF ListFails, CommitFails
<1>4. CASE WorkUnit(c)
  BY <1>4, UnitStep DEF WorkUnit, Usable
<1>5. CASE UnitFails(c)
  <2>1. at[c] = "work" /\ todo[c] # <<>> /\ UNCHANGED refused /\ (Fail(c) \/ SkipLogged(c) \/ Written(c))
    BY <1>5 DEF UnitFails, Outcome
  <2>2. QED
    BY <2>1, FailStep, UnitStep
<1>6. CASE RowRefused(c)
  BY <1>6, RefusedStep
<1>7. CASE Commit(c)
  <2>1. at[c] = "work" /\ todo[c] = <<>> /\ UNCHANGED refused
    BY <1>7 DEF Commit
  <2>2. \/ ~refused[c] /\ Continue(c, stored[c] \cup wrote[c])
        \/ refused[c] /\ ~Policies[c].deferred /\ Continue(c, stored[c])
        \/ Fail(c)
    BY <1>7 DEF Commit
  <2>3. CASE ~refused[c] /\ Continue(c, stored[c] \cup wrote[c])
    BY <2>1, <2>3, ContinueStep
  <2>4. CASE refused[c] /\ ~Policies[c].deferred /\ Continue(c, stored[c])
    BY <2>1, <2>4, ContinueStep
  <2>5. QED
    BY <2>2, <2>3, <2>4, FailStep
<1>8. CASE PassOver(c)
  BY <1>8, PassOverStep
<1>9. QED
  BY <1>1, <1>2, <1>3, <1>4, <1>5, <1>6, <1>7, <1>8 DEF RoundStep

LEMMA ReadIs ==
    ASSUME Types, NEW c \in Collecting
    PROVE  Read(c) \in Nat
BY PageAssumption DEF Types, Read

\* What the board shows now of the units listed all through the round was on it before, in the
\* part already read if it is shown there.
Followed(c) ==
    /\ stable'[c] \subseteq stable[c]
    /\ InRound(c) => stable'[c] \subseteq ToSet(board') \ unfit'[c]
    /\ shifted[c] => shifted'[c]
    /\ InRound(c) /\ ~shifted'[c] =>
          \A k \in DOMAIN board' :
              board'[k] \in stable'[c] =>
                  \E m \in DOMAIN board : board'[k] = board[m] /\ (k <= Read(c) => m <= Read(c))

LEMMA BoardKeeps ==
    ASSUME NEW c \in Collecting, RoundOK(c), Followed(c),
           UNCHANGED <<at, todo, offset, full, wrote, refused, stored, logged, report, missed>>
    PROVE  RoundOK(c)'
<1> USE DEF Followed
<1>1. Covered(c)' = Covered(c) /\ InRound(c)' = InRound(c) /\ Read(c)' = Read(c)
  BY DEF Covered, InRound, Read
<1>2. Fresh(c)' /\ Refusal(c)' /\ Explained(c)'
  BY <1>1 DEF RoundOK, Fresh, Refusal, Explained
<1>3. Reached(c)'
  <2>1. (at'[c] = "work" /\ ~Policies[c].paged) => stable'[c] \subseteq Covered(c)'
    BY <1>1 DEF RoundOK, Reached
  <2>2. ASSUME Policies[c].paged, InRound(c), ~shifted'[c], NEW k \in DOMAIN board', board'[k] \in stable'[c],
               k <= Read(c) \/ (at[c] = "work" /\ ~full[c])
        PROVE  board'[k] \in Covered(c)
    <3>1. PICK m \in DOMAIN board : board'[k] = board[m] /\ (k <= Read(c) => m <= Read(c))
      BY <2>2
    <3>2. QED
      BY <2>2, <3>1 DEF RoundOK, Reached
  <2>3. QED
    BY <1>1, <2>1, <2>2 DEF Reached
<1>4. QED
  BY <1>2, <1>3 DEF RoundOK

LEMMA BoardStep ==
    ASSUME CollectorsInv, BoardChanges
    PROVE  CollectorsInv'
<1>0. /\ changes' \in 0..MaxChanges
      /\ UNCHANGED <<at, client, todo, offset, full, wrote, refused, stored, logged, report, missed>>
  BY PageAssumption DEF BoardChanges, CollectorsInv, Types
<1>1. board \in Seq(Unit) /\ IsInjective(board) /\ stable \in [Collecting -> SUBSET Unit]
      /\ shifted \in [Collecting -> BOOLEAN] /\ unfit \in [Collecting -> SUBSET Unit]
  BY DEF CollectorsInv, Types
<1>2. \A c \in Collecting : InRound(c) => stable[c] \subseteq ToSet(board) \ unfit[c]
  BY DEF CollectorsInv, RoundOK, Fresh
<1>3. \A c \in Collecting : Read(c) \in Nat
  BY ReadIs DEF CollectorsInv
<1>4. SUFFICES /\ board' \in Seq(Unit) /\ IsInjective(board') /\ stable' \in [Collecting -> SUBSET Unit]
               /\ shifted' \in [Collecting -> BOOLEAN]
               /\ unfit' \in [Collecting -> SUBSET Unit]
               /\ \A c \in Collecting : Followed(c)
  <2>1. Types'
    BY <1>0, <1>4 DEF CollectorsInv, Types
  <2>2. ASSUME NEW c \in Collecting PROVE RoundOK(c)'
    BY <1>0, <1>4, BoardKeeps DEF CollectorsInv
  <2>3. QED
    BY <2>1, <2>2 DEF CollectorsInv
<1>5. CASE Leave /\ UNCHANGED unfit
  <2>1. PICK i \in DOMAIN board :
            /\ board' = RemoveAt(board, i)
            /\ stable' = [c \in Collecting |-> stable[c] \ {board[i]}]
            /\ shifted' = [c \in Collecting |-> shifted[c] \/ (InRound(c) /\ i <= Read(c))]
    BY <1>5 DEF Leave
  <2>2. /\ board' \in Seq(Unit) /\ IsInjective(board')
        /\ ToSet(board) \ {board[i]} \subseteq ToSet(board')
        /\ \A b \in Nat : ~(i <= b) => Drawn(board', board, b)
    BY <1>1, <2>1, LeaveIs
  <2>3. stable' \in [Collecting -> SUBSET Unit] /\ shifted' \in [Collecting -> BOOLEAN]
    BY <1>1, <2>1
  <2>4. ASSUME NEW c \in Collecting
        PROVE  /\ stable'[c] \subseteq stable[c]
               /\ InRound(c) => stable'[c] \subseteq ToSet(board') \ unfit'[c]
               /\ shifted[c] => shifted'[c]
    BY <1>2, <1>5, <2>1, <2>2
  <2>5. ASSUME NEW c \in Collecting, InRound(c), ~shifted'[c] PROVE Drawn(board', board, Read(c))
    BY <1>3, <2>1, <2>2, <2>5
  <2>6. QED
    BY <1>1, <1>5, <2>2, <2>3, <2>4, <2>5 DEF Drawn, Followed
<1>6. CASE Move /\ UNCHANGED unfit
  <2>1. PICK i \in DOMAIN board, j \in DOMAIN board :
            /\ board' = InsertAt(RemoveAt(board, i), j, board[i])
            /\ shifted' = [c \in Collecting |-> shifted[c] \/ (InRound(c) /\ (i <= Read(c)) # (j <= Read(c)))]
            /\ UNCHANGED stable
    BY <1>6 DEF Move
  <2>2. /\ board' \in Seq(Unit) /\ IsInjective(board') /\ ToSet(board) \subseteq ToSet(board')
        /\ \A b \in Nat : (i <= b) = (j <= b) => Drawn(board', board, b)
    BY <1>1, <2>1, MoveIs
  <2>3. stable' \in [Collecting -> SUBSET Unit] /\ shifted' \in [Collecting -> BOOLEAN]
    BY <1>1, <2>1
  <2>4. ASSUME NEW c \in Collecting
        PROVE  /\ stable'[c] \subseteq stable[c]
               /\ InRound(c) => stable'[c] \subseteq ToSet(board') \ unfit'[c]
               /\ shifted[c] => shifted'[c]
    BY <1>2, <1>6, <2>1, <2>2
  <2>5. ASSUME NEW c \in Collecting, InRound(c), ~shifted'[c] PROVE Drawn(board', board, Read(c))
    BY <1>3, <2>1, <2>2, <2>5
  <2>6. QED
    BY <1>1, <1>6, <2>2, <2>3, <2>4, <2>5 DEF Drawn, Followed
<1>7. CASE Arrive /\ UNCHANGED unfit
  <2>1. PICK u \in Unit \ ToSet(board), i \in 1..(Len(board) + 1) :
            board' = InsertAt(board, i, u) /\ UNCHANGED <<stable, shifted>>
    BY <1>7 DEF Arrive
  <2>2. /\ board' \in Seq(Unit) /\ IsInjective(board') /\ ToSet(board) \subseteq ToSet(board')
        /\ \A k \in DOMAIN board' : board'[k] = u \/ \E m \in DOMAIN board : board'[k] = board[m] /\ m <= k
    BY <1>1, <2>1, ArriveIs
  <2>3. ASSUME NEW c \in Collecting, InRound(c), NEW k \in DOMAIN board', board'[k] \in stable'[c]
        PROVE  \E m \in DOMAIN board : board'[k] = board[m] /\ (k <= Read(c) => m <= Read(c))
    <3>1. board'[k] # u
      BY <1>2, <2>1, <2>3
    <3>2. PICK m \in DOMAIN board : board'[k] = board[m] /\ m <= k
      BY <2>2, <2>3, <3>1
    <3>3. m \in Nat /\ k \in Nat /\ Read(c) \in Nat
      BY <1>1, <1>3, <2>2
    <3>4. QED
      BY <3>2, <3>3
  <2>4. QED
    BY <1>1, <1>2, <1>7, <2>1, <2>2, <2>3 DEF Followed
<1>8. CASE (\E d \in Collecting : Spoil(d) \/ Mend(d)) /\ UNCHANGED <<board, shifted>>
  <2>1. PICK d \in Collecting : Spoil(d) \/ Mend(d)
    BY <1>8
  <2>2. /\ stable' \in [Collecting -> SUBSET Unit] /\ unfit' \in [Collecting -> SUBSET Unit]
        /\ \A c \in Collecting : stable'[c] \subseteq stable[c] /\ stable'[c] \cap unfit'[c] \subseteq unfit[c]
    <3>1. CASE Spoil(d)
      <4>1. PICK u \in ToSet(board) \ unfit[d] :
                /\ unfit' = [unfit EXCEPT ![d] = @ \cup {u}]
                /\ stable' = [stable EXCEPT ![d] = @ \ {u}]
        BY <3>1 DEF Spoil
      <4>2. u \in Unit
        BY <1>1 DEF ToSet
      <4>3. QED
        BY <1>1, <4>1, <4>2
    <3>2. CASE Mend(d)
      <4>1. PICK u \in unfit[d] : unfit' = [unfit EXCEPT ![d] = @ \ {u}]
        BY <3>2 DEF Mend
      <4>2. stable' = stable
        BY <3>2 DEF Mend
      <4>3. QED
        BY <1>1, <4>1, <4>2
    <3>3. QED
      BY <2>1, <3>1, <3>2
  <2>3. ASSUME NEW c \in Collecting PROVE Followed(c)
    <3>1. InRound(c) => stable'[c] \subseteq ToSet(board') \ unfit'[c]
      BY <1>2, <1>8, <2>2
    <3>2. InRound(c) =>
             \A k \in DOMAIN board' : \E m \in DOMAIN board : board'[k] = board[m] /\ (k <= Read(c) => m <= Read(c))
      BY <1>8
    <3>3. QED
      BY <1>8, <2>2, <3>1, <3>2 DEF Followed
  <2>4. QED
    BY <1>1, <1>8, <2>2, <2>3
<1>9. QED
  BY <1>5, <1>6, <1>7, <1>8 DEF BoardChanges

LEMMA RoundsStep ==
    ASSUME CollectorsInv, NEW c \in Collecting, RoundStep(c)
    PROVE  CollectorsInv'
<1>1. Types /\ \A d \in Collecting : RoundOK(d)
  BY DEF CollectorsInv
<1>2. OnlyOf(c)
  BY <1>1, RoundEffect
<1>3. RoundOK(c)'
  BY <1>1, RoundKeeps
<1>4. ASSUME NEW d \in Collecting \ {c} PROVE RoundOK(d)'
  BY <1>1, <1>2, UntouchedKeeps DEF OnlyOf
<1>5. QED
  BY <1>2, <1>3, <1>4 DEF CollectorsInv, OnlyOf

\* A step outside the rounds leaves each collector's round as it was, or clears it.
LEMMA OutsideStep ==
    ASSUME CollectorsInv, UNCHANGED <<board, unfit, changes, refused, shifted, report, missed>>,
           at' \in [Collecting -> {"none", "new", "list", "work", "asleep", "teardown", "ended", "unrun"}],
           client' \in [Collecting -> BOOLEAN],
           \/ /\ UNCHANGED roundVars
              /\ \A c \in Collecting : at'[c] = at[c] \/ (~InRound(c) /\ ~InRound(c)')
           \/ /\ \A c \in Collecting : ~InRound(c)'
              /\ todo' = [c \in Collecting |-> <<>>] /\ offset' = [c \in Collecting |-> 0]
              /\ full' = [c \in Collecting |-> FALSE] /\ wrote' = [c \in Collecting |-> {}]
              /\ stored' = [c \in Collecting |-> {}] /\ logged' = [c \in Collecting |-> {}]
              /\ stable' = [c \in Collecting |-> {}]
    PROVE  CollectorsInv'
<1>1. CASE /\ UNCHANGED roundVars
           /\ \A c \in Collecting : at'[c] = at[c] \/ (~InRound(c) /\ ~InRound(c)')
  <2>1. UNCHANGED <<todo, offset, full, wrote, refused, stored, logged, stable, shifted, report, missed>>
    BY <1>1 DEF roundVars
  <2>2. Types'
    BY <2>1 DEF CollectorsInv, Types
  <2>3. ASSUME NEW c \in Collecting, at'[c] = at[c] PROVE RoundOK(c)'
    <3>1. RoundOK(c) /\ Untouched(c)
      BY <2>1, <2>3 DEF CollectorsInv, Untouched
    <3>2. QED
      BY <3>1, UntouchedKeeps
  <2>4. ASSUME NEW c \in Collecting, ~InRound(c), ~InRound(c)' PROVE RoundOK(c)'
    <3>1. RoundOK(c) /\ at'[c] # "list" /\ at'[c] # "work" /\ at[c] # "work"
      BY <2>4 DEF CollectorsInv, InRound
    <3>2. QED
      BY <2>1, <2>4, <3>1 DEF RoundOK, Fresh, Refusal, Reached, Explained
  <2>5. QED
    BY <1>1, <2>2, <2>3, <2>4 DEF CollectorsInv
<1>2. CASE /\ \A c \in Collecting : ~InRound(c)'
           /\ todo' = [c \in Collecting |-> <<>>] /\ offset' = [c \in Collecting |-> 0]
           /\ full' = [c \in Collecting |-> FALSE] /\ wrote' = [c \in Collecting |-> {}]
           /\ stored' = [c \in Collecting |-> {}] /\ logged' = [c \in Collecting |-> {}]
           /\ stable' = [c \in Collecting |-> {}]
  <2>1. Types'
    BY <1>2 DEF CollectorsInv, Types
  <2>2. ASSUME NEW c \in Collecting PROVE RoundOK(c)'
    <3>1. at'[c] # "list" /\ at'[c] # "work" /\ ~InRound(c)' /\ Explained(c)
      BY <1>2 DEF CollectorsInv, RoundOK, InRound
    <3>2. QED
      BY <1>2, <3>1 DEF RoundOK, Fresh, Refusal, Reached, Explained
  <2>3. QED
    BY <2>1, <2>2 DEF CollectorsInv
<1>3. QED
  BY <1>1, <1>2

-----------------------------------------------------------------------------
(* The lifespan *)

\* What the phases of the process say of the tasks and of the pump.
LifespanOK ==
    /\ settings \in Deployments /\ phase \in Phases /\ dome \in {"none", "open", "closed"}
    /\ phase \in {"starting", "collecting"} => \A c \in Collecting : at[c] = "none" /\ ~client[c]
    /\ phase = "gathering" => \A c \in Collecting : at[c] \in {"none", "unrun", "teardown", "ended"}
    /\ phase \in {"stopping", "closing", "down"} => \A c \in Collecting : Ended(c)
    /\ phase \in {"closing", "down"} => pump \in {"off", "ended"}
    /\ dome = "closed" => phase = "down"
    /\ \A c \in Collecting : client[c] => at[c] \notin {"none", "ended"}

IInv == LifespanOK /\ CollectorsInv /\ StreamInv

LEMMA StreamStartStop ==
    ASSUME StreamInv, StreamStart \/ StreamStop
    PROVE  StreamInv'
<1>1. pump' \notin {"resub", "stream"} /\ UNCHANGED <<subs, tangled>>
  BY DEF StreamStart, StreamStop, HasConnection
<1>2. StreamTypeOK'
  <2>1. CASE StreamStart
    BY <2>1 DEF StreamInv, StreamTypeOK, StreamStart
  <2>2. CASE StreamStop
    <3>1. pump' \in {"off", "close", "ended"} /\ running' = FALSE
      BY <2>2 DEF StreamStop
    <3>2. resub' = [ids |-> {}, n |-> 0, disturbed |-> FALSE]
      BY <2>2 DEF StreamStop, NoResub
    <3>3. UNCHANGED <<subs, pending, caller, leaving, asked, ids, troubles, sent, tangled>>
      BY <2>2 DEF StreamStop
    <3>4. QED
      BY <3>1, <3>2, <3>3 DEF StreamInv, StreamTypeOK
  <2>3. QED
    BY <2>1, <2>2
<1>3. QED
  BY <1>1, <1>2 DEF StreamInv, ResubOK, SendersOK, Open, StreamCarriesAll, AskedOK, MisattributionHasCause

\* A pump that is off, or has ended, stays so.
LEMMA PumpEnded ==
    ASSUME pump \in {"off", "ended"}, StreamNext
    PROVE  pump' = pump
<1>1. ~PumpStep /\ ~Break /\ ~Subscribed /\ ~Refused
  BY DEF PumpStep, Connect, ConnectFails, Resubscribe, Closed, Retry, Break, Subscribed, Refused, Open
<1>2. ASSUME CallerStep PROVE pump' = pump
  BY <1>2 DEF CallerStep, Retain, SendRaises, Forget, UnsubscribeRaises
<1>3. ASSUME NEW p \in Payload, Subscribe(p) PROVE pump' = pump
  BY <1>3 DEF Subscribe
<1>4. ASSUME NEW id \in DOMAIN subs, Unsubscribe(id) PROVE pump' = pump
  BY <1>4 DEF Unsubscribe
<1>5. QED
  BY <1>1, <1>2, <1>3, <1>4 DEF StreamNext

LEMMA InitHolds == Init => IInv
<1> SUFFICES ASSUME Init PROVE IInv
  OBVIOUS
<1> USE DEF Init
<1>1. settings \in Deployments /\ settings.board \in Seq(Unit) /\ IsInjective(settings.board)
  BY DeploymentsAssumption
<1>2. LifespanOK
  BY DEF LifespanOK, CollectorsInit, Phases
<1>3. CollectorsInv
  <2>1. Types
    BY <1>1, PageAssumption DEF Types, CollectorsInit
  <2>2. ASSUME NEW c \in Collecting PROVE RoundOK(c)
    BY DEF CollectorsInit, RoundOK, Fresh, Refusal, Reached, Explained, InRound
  <2>3. QED
    BY <2>1, <2>2 DEF CollectorsInv
<1>4. StreamInv
  <2>1. /\ running = FALSE /\ pump = "off" /\ resub = [ids |-> {}, n |-> 0, disturbed |-> FALSE]
        /\ subs = << >> /\ pending = <<>> /\ leaving = {} /\ asked = <<>> /\ ids = 0 /\ troubles = 0
        /\ sent = {} /\ tangled = FALSE
    BY DEF StreamInit, NoResub
  <2>2. DOMAIN subs = {}
    BY <2>1
  <2>3. caller \in [Payload -> {"idle", "sending", "done"}]
    BY DEF StreamInit
  <2>4. ids \in 0..MaxIds /\ troubles \in 0..MaxTroubles
    BY <2>1, StreamAssumption
  <2>5. StreamTypeOK
    <3>1. resub \in [ids : SUBSET (1..MaxIds), n : Nat, disturbed : BOOLEAN]
      BY <2>1
    <3>2. DOMAIN subs \subseteq 1..ids /\ \A i \in DOMAIN subs : subs[i] \in [payload : Payload, truly : Payload]
      BY <2>2
    <3>3. pending \in Seq(Payload) /\ asked \in Seq(Payload)
      BY <2>1
    <3>4. /\ running \in BOOLEAN /\ tangled \in BOOLEAN /\ leaving \subseteq 1..MaxIds /\ sent \subseteq Payload
          /\ pump \in {"off", "connect", "resub", "stream", "close", "backoff", "ended"}
      BY <2>1
    <3>5. QED
      BY <2>3, <2>4, <3>1, <3>2, <3>3, <3>4 DEF StreamTypeOK
  <2>6. QED
    BY <2>1, <2>2, <2>5 DEF StreamInv, ResubOK, SendersOK, Open, StreamCarriesAll, AskedOK, MisattributionHasCause, StreamInit
<1>5. QED
  BY <1>2, <1>3, <1>4 DEF IInv

\* What does not touch the collectors, or the stream, keeps what is said of them.
LEMMA Stuttering ==
    /\ CollectorsInv /\ UNCHANGED collectorVars => CollectorsInv'
    /\ StreamInv /\ UNCHANGED streamVars => StreamInv'
<1>1. ASSUME CollectorsInv, UNCHANGED collectorVars PROVE CollectorsInv'
  BY <1>1, OutsideStep DEF collectorVars, roundVars, CollectorsInv, Types
<1>2. QED
  BY <1>1, StreamStep

LEMMA BuildDomeStep ==
    ASSUME IInv, BuildDome
    PROVE  IInv'
<1>1. CollectorsInv' /\ UNCHANGED <<at, client>>
  BY Stuttering DEF IInv, BuildDome, collectorVars
<1>2. StreamInv'
  BY Stuttering, StreamStartStop DEF IInv, BuildDome
<1>3. LifespanOK'
  BY <1>1 DEF IInv, LifespanOK, BuildDome, Phases, Ended
<1>4. QED
  BY <1>1, <1>2, <1>3 DEF IInv

LEMMA StartCollectorsStep ==
    ASSUME IInv, StartCollectors
    PROVE  IInv'
<1> DEFINE cs == {c \in settings.collectors : c \in DomePowered => dome = "open"}
<1>1. /\ at' = [c \in Collecting |-> IF c \in cs THEN "new" ELSE at[c]]
      /\ client' = [c \in Collecting |-> c \in cs \cap Owners]
      /\ phase = "collecting" /\ phase' = "announcing"
      /\ UNCHANGED <<board, unfit, changes, roundVars, settings, dome, streamVars>>
  BY DEF StartCollectors, Create
<1>2. \A c \in Collecting : at[c] = "none" /\ ~client[c]
  BY <1>1 DEF IInv, LifespanOK
<1> HIDE DEF cs
<1>3. CollectorsInv'
  <2>1. /\ at' \in [Collecting -> {"none", "new", "list", "work", "asleep", "teardown", "ended", "unrun"}]
        /\ client' \in [Collecting -> BOOLEAN]
    BY <1>1, <1>2
  <2>2. \A c \in Collecting : ~InRound(c) /\ ~InRound(c)'
    BY <1>1, <1>2 DEF InRound
  <2>3. UNCHANGED roundVars /\ UNCHANGED <<board, unfit, changes, refused, shifted, report, missed>>
    BY <1>1 DEF roundVars
  <2>4. QED
    BY <2>1, <2>2, <2>3, OutsideStep DEF IInv
<1>4. StreamInv'
  BY <1>1, Stuttering DEF IInv
<1>5. \A c \in Collecting : client'[c] => at'[c] = "new"
  BY <1>1
<1>6. LifespanOK'
  BY <1>1, <1>5 DEF IInv, LifespanOK, Phases
<1>7. QED
  BY <1>3, <1>4, <1>6 DEF IInv

LEMMA CancelStep ==
    ASSUME IInv, Cancel
    PROVE  IInv'
<1>1. phase = "serving" /\ phase' = "gathering" /\ CancelAll /\ UNCHANGED <<settings, dome, streamVars>>
  BY DEF Cancel
<1>2. /\ at' \in [Collecting -> {"none", "unrun", "teardown"}]
      /\ \A c \in Collecting : at'[c] = "none" => at[c] = "none"
  BY <1>1 DEF CancelAll, Cancelled
<1>3. client' = client /\ client \in [Collecting -> BOOLEAN]
  BY <1>1 DEF CancelAll, IInv, CollectorsInv, Types
<1>4. CollectorsInv'
  <2>1. at' \in [Collecting -> {"none", "new", "list", "work", "asleep", "teardown", "ended", "unrun"}]
    BY <1>2
  <2>2. \A c \in Collecting : ~InRound(c)'
    BY <1>2 DEF InRound
  <2>3. QED
    BY <1>1, <1>3, <2>1, <2>2, OutsideStep DEF IInv, CancelAll
<1>5. StreamInv'
  BY <1>1, Stuttering DEF IInv
<1>6. LifespanOK'
  BY <1>1, <1>2, <1>3 DEF IInv, LifespanOK, Phases
<1>7. QED
  BY <1>4, <1>5, <1>6 DEF IInv

LEMMA GatheredStep ==
    ASSUME IInv, Gathered
    PROVE  IInv'
<1>1. /\ phase = "gathering" /\ phase' = "stopping" /\ \A c \in Collecting : Ended(c)
      /\ UNCHANGED <<settings, dome, collectorVars>> /\ (UNCHANGED streamVars \/ StreamStop)
  BY DEF Gathered
<1>2. CollectorsInv' /\ UNCHANGED <<at, client>>
  BY <1>1, Stuttering DEF IInv, collectorVars
<1>3. StreamInv'
  BY <1>1, Stuttering, StreamStartStop DEF IInv
<1>4. LifespanOK'
  BY <1>1, <1>2 DEF IInv, LifespanOK, Phases, Ended
<1>5. QED
  BY <1>2, <1>3, <1>4 DEF IInv

LEMMA OtherLifespanStep ==
    ASSUME IInv, Announced \/ StreamStopped \/ CloseClients \/ UNCHANGED appVars
    PROVE  IInv'
<1>1. UNCHANGED <<settings, collectorVars, streamVars>> /\ UNCHANGED <<at, client, pump>>
  BY DEF Announced, StreamStopped, CloseClients, appVars, lifespanVars, collectorVars, streamVars
<1>2. CollectorsInv' /\ StreamInv'
  BY <1>1, Stuttering DEF IInv
<1>3. LifespanOK'
  BY <1>1 DEF IInv, LifespanOK, Announced, StreamStopped, CloseClients, appVars, lifespanVars, Phases, Ended
<1>4. QED
  BY <1>2, <1>3 DEF IInv

\* A task in its rounds stays in them, with its client.
LEMMA RoundTask ==
    ASSUME Types, NEW c \in Collecting, RoundStep(c)
    PROVE  /\ client' = client /\ at'[c] \in {"list", "work", "asleep"}
           /\ \A d \in Collecting \ {c} : at'[d] = at[d]
<1>1. \A d \in Collecting \ {c} : at'[d] = at[d]
  BY RoundEffect DEF OnlyOf, Untouched
<1>2. ASSUME NEW how, NEW kept, Over(c, how, kept) PROVE client' = client /\ at'[c] = "asleep"
  BY <1>2 DEF Over, Types
<1>3. ASSUME at[c] = "work", Written(c) \/ SkipLogged(c) PROVE client' = client /\ at'[c] = "work"
  BY <1>3 DEF Written, SkipLogged
<1>4. ASSUME NEW kept, Continue(c, kept) PROVE client' = client /\ at'[c] \in {"list", "asleep"}
  BY <1>2, <1>4 DEF Continue, Types
<1>5. CASE Begin(c)
  BY <1>1, <1>5 DEF Begin, Types
<1>6. CASE List(c)
  BY <1>1, <1>2, <1>6 DEF List, Types
<1>7. CASE ListFails(c) \/ CommitFails(c)
  BY <1>1, <1>2, <1>7 DEF ListFails, CommitFails, Fail
<1>8. CASE WorkUnit(c) \/ PassOver(c)
  BY <1>1, <1>3, <1>8 DEF WorkUnit, PassOver, Usable
<1>9. CASE UnitFails(c)
  BY <1>1, <1>2, <1>3, <1>9 DEF UnitFails, Outcome, Fail
<1>10. CASE RowRefused(c)
  BY <1>1, <1>2, <1>3, <1>10 DEF RowRefused, Usable, Outcome, Fail
<1>11. CASE Commit(c)
  BY <1>1, <1>2, <1>4, <1>11 DEF Commit, Fail
<1>12. QED
  BY <1>5, <1>6, <1>7, <1>8, <1>9, <1>10, <1>11 DEF RoundStep

LEMMA CollectorsStep ==
    ASSUME IInv, CollectorsNext, UNCHANGED <<lifespanVars, streamVars>>
    PROVE  IInv'
<1>0. CollectorsInv /\ StreamInv' /\ UNCHANGED <<settings, phase, dome, pump>>
  BY Stuttering DEF IInv, lifespanVars, streamVars
<1>1. ASSUME NEW c \in Collecting, RoundStep(c) PROVE IInv'
  <2>1. CollectorsInv'
    BY <1>0, <1>1, RoundsStep
  <2>2. at[c] \in {"new", "asleep", "list", "work"}
    BY <1>1 DEF RoundStep, Begin, List, ListFails, WorkUnit, Usable, PassOver, UnitFails, RowRefused,
                   Commit, CommitFails
  <2>3. phase \notin {"starting", "collecting", "gathering", "stopping", "closing", "down"}
    BY <2>2 DEF IInv, LifespanOK, Ended
  <2>4. client' = client /\ at'[c] \in {"list", "work", "asleep"} /\ \A d \in Collecting \ {c} : at'[d] = at[d]
    BY <1>0, <1>1, RoundTask DEF CollectorsInv
  <2>5. LifespanOK'
    BY <1>0, <2>3, <2>4 DEF IInv, LifespanOK
  <2>6. QED
    BY <1>0, <2>1, <2>5 DEF IInv
<1>2. ASSUME NEW c \in Collecting, Teardown(c) PROVE IInv'
  <2>1. /\ at[c] = "teardown" /\ at' = [at EXCEPT ![c] = "ended"] /\ client' = [client EXCEPT ![c] = FALSE]
        /\ UNCHANGED <<board, unfit, changes, roundVars>>
    BY <1>2 DEF Teardown
  <2>2. /\ at \in [Collecting -> {"none", "new", "list", "work", "asleep", "teardown", "ended", "unrun"}]
        /\ client \in [Collecting -> BOOLEAN]
    BY <1>0 DEF CollectorsInv, Types
  <2>3. CollectorsInv'
    <3>1. /\ at' \in [Collecting -> {"none", "new", "list", "work", "asleep", "teardown", "ended", "unrun"}]
          /\ client' \in [Collecting -> BOOLEAN]
      BY <2>1, <2>2
    <3>2. \A d \in Collecting : at'[d] = at[d] \/ (~InRound(d) /\ ~InRound(d)')
      BY <2>1, <2>2 DEF InRound
    <3>3. UNCHANGED <<board, unfit, changes, refused, shifted, report, missed>> /\ UNCHANGED roundVars
      BY <2>1 DEF roundVars
    <3>4. QED
      BY <1>0, <3>1, <3>2, <3>3, OutsideStep
  <2>4. LifespanOK'
    BY <1>0, <2>1, <2>2 DEF IInv, LifespanOK, Ended
  <2>5. QED
    BY <1>0, <2>3, <2>4 DEF IInv
<1>3. CASE BoardChanges
  <2>1. CollectorsInv' /\ UNCHANGED <<at, client>>
    BY <1>0, <1>3, BoardStep DEF BoardChanges
  <2>2. LifespanOK'
    BY <1>0, <2>1 DEF IInv, LifespanOK, Ended
  <2>3. QED
    BY <1>0, <2>1, <2>2 DEF IInv
<1>4. QED
  BY <1>1, <1>2, <1>3 DEF CollectorsNext

LEMMA StreamsStep ==
    ASSUME IInv, StreamNext, UNCHANGED <<lifespanVars, collectorVars>>
    PROVE  IInv'
<1>1. CollectorsInv' /\ UNCHANGED <<settings, phase, dome, at, client>>
  BY Stuttering DEF IInv, lifespanVars, collectorVars
<1>2. StreamInv'
  BY StreamStep DEF IInv
<1>3. LifespanOK'
  BY <1>1, PumpEnded DEF IInv, LifespanOK, Ended
<1>4. QED
  BY <1>1, <1>2, <1>3 DEF IInv

LEMMA NextHolds == IInv /\ [Next]_appVars => IInv'
BY BuildDomeStep, StartCollectorsStep, CancelStep, GatheredStep, OtherLifespanStep, CollectorsStep, StreamsStep
   DEF Next, Lifespan, Down

-----------------------------------------------------------------------------
(* The theorems *)

\* The inductive invariant: the round of every collector, the stream with what it asked, and the
\* phases of the process, in every state the process comes to.
THEOREM Inductive == Spec => []IInv
BY InitHolds, NextHolds, PTL DEF Spec

\* The process, its collectors and its stream keep to their types.
THEOREM TypeCorrect == Spec => []TypeOK
<1>1. IInv => TypeOK
  BY CollectorsTypes DEF IInv, LifespanOK, CollectorsInv, StreamInv, TypeOK
<1>2. QED
  BY <1>1, Inductive, PTL

\* A round that ends well has stored each unit listed all through it with the data the collector
\* needs, or logged it as failed, whatever failed, came and went, or lost and gained its data: but
\* for a refused row, in two collectors.
THEOREM LossHasCause == Spec => []SilentLossHasCause
<1>1. IInv => SilentLossHasCause
  BY DEF IInv, CollectorsInv, RoundOK, Explained, SilentLossHasCause
<1>2. QED
  BY <1>1, Inductive, PTL

\* Reading in pages of any size, a round loses a unit only to a change across the pages read.
THEOREM MissHasCause == Spec => []PagedMissHasCause
<1>1. IInv => PagedMissHasCause
  BY DEF IInv, CollectorsInv, RoundOK, Explained, PagedMissHasCause
<1>2. QED
  BY <1>1, Inductive, PTL

\* Whatever callers do during a resubscription, the pump reads only from a connection that was
\* sent every subscription retained.
THEOREM CarriesAll == Spec => []StreamCarriesAll
<1>1. IInv => StreamCarriesAll
  BY DEF IInv, StreamInv
<1>2. QED
  BY <1>1, Inductive, PTL

\* Confirmed ids go to the payloads they are for unless one of the listed events came between.
THEOREM AttributionHasCause == Spec => []MisattributionHasCause
<1>1. IInv => MisattributionHasCause
  BY DEF IInv, StreamInv
<1>2. QED
  BY <1>1, Inductive, PTL

\* Shutdown leaves no task and no client behind, wherever the tasks and the stream were.
THEOREM StopIsClean == Spec => []StopLeavesNothing
<1>1. IInv => StopLeavesNothing
  BY DEF IInv, LifespanOK, StopLeavesNothing, Ended
<1>2. QED
  BY <1>1, Inductive, PTL
=============================================================================
