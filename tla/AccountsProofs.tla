---------------------------- MODULE AccountsProofs ----------------------------
(***************************************************************************)
(* Proofs about Accounts for any number of requests, wallets, mail         *)
(* addresses and Google accounts.                                          *)
(***************************************************************************)
EXTENDS Accounts, TLAPS

\* What a request is about fits what it awaits.
AskOK(r) ==
    /\ at[r] = "idle" => ask[r].op = "use" /\ ask[r].arg = NoOne /\ before[r] = {}
    /\ ask[r].op = "wallet" => ask[r].name \in Wallet
    /\ ask[r].op \in {"register", "google"} => ask[r].name \in Email \cup Wallet
    /\ ask[r].op = "google" => ask[r].arg \in Sub
    /\ ask[r].op \in {"revoke", "deactivate"} => ask[r].name \in Maker
    /\ ask[r].op \in {"challenge", "deactivate"} => at[r] = "done"
    /\ at[r] \in {"consuming", "seeking"} => ask[r].op = "wallet"
    /\ at[r] = "adding" => ask[r].op \in {"register", "wallet", "google"}
    /\ at[r] = "linking" => ask[r].op = "google"
    /\ at[r] = "recording" => ask[r].op \in {"login", "wallet"}
    /\ at[r] = "resolving" => ask[r].op \in {"use", "create", "revoke"}
    /\ at[r] = "acting" => ask[r].op \in {"create", "revoke"}
    /\ at[r] = "revoking" => ask[r].op = "revoke"
    /\ at[r] \in {"linking", "recording", "resolving", "acting", "revoking"} => found[r] \in Maker
AsksOK == \A r \in Req : AskOK(r) /\ \A s \in before[r] : at[s] \in Ended

\* A challenge is used by requests it was made for, and gone when one of them is past its DEL.
ChallengeOf(c, w) == c \in Req /\ ask[c].op = "challenge" /\ ask[c].name = w
NonceFits(r) ==
    ask[r].op = "wallet" =>
        /\ at[r] \notin {"idle", "refused"} => ChallengeOf(ask[r].arg, ask[r].name)
        /\ at[r] \in {"seeking", "adding", "recording", "done", "failed"} => nonce[ask[r].name] # ask[r].arg
        /\ at[r] = "consuming" => nonce[ask[r].name] \in {ask[r].arg, NoOne} \/ nonce[ask[r].name] \notin before[r]
NonceOK ==
    /\ \A w \in Wallet : nonce[w] # NoOne => ChallengeOf(nonce[w], w)
    /\ \A r \in Req : NonceFits(r)

\* Rows are unique by id and by wallet, and each is named after a request that added it.
Past == {"recording", "done", "refused", "failed", "dead", "linking", "resolving", "acting", "revoking", "missing"}
RowsOK ==
    /\ \A u, v \in users : u.id = v.id => u = v
    /\ \A u, v \in users : u.wallet = v.wallet /\ u.wallet # NoOne => u = v
    /\ \A u \in users : u.wallet # NoOne => u.email = u.wallet
    /\ \A u \in users : u.id \in Req => at[u.id] \in Past
WalletFits(r) ==
    ask[r].op = "wallet" =>
        /\ at[r] \in {"recording", "done"} => \E u \in users : u.id = found[r] /\ u.wallet = ask[r].name
        /\ at[r] = "adding" => \A u \in users : u.wallet = ask[r].name => u.id \notin before[r]
        /\ at[r] = "failed" => \E u \in users : /\ u.email = ask[r].name
                                                /\ u.wallet = ask[r].name => u.id \notin before[r]
WalletOK == \A r \in Req : WalletFits(r)

\* The rows of API keys and the requests that made and revoked them.
Known(k) == keys[k].status # "none"
KeysOK ==
    /\ \A k \in Req : Known(k) => ask[k].op = "create" /\ at[k] = "done"
    /\ \A r \in Req : ask[r].op = "revoke" =>
          /\ at[r] \in {"revoking", "done"} => Known(ask[r].name) /\ keys[ask[r].name].user = found[r]
          /\ at[r] = "done" => keys[ask[r].name].status = "revoked"
    /\ \A k \in Maker : keys[k].status = "revoked" => \E d \in Req : Revokes(d, k)
ActiveOK ==
    /\ \A u \in users : ~u.active => \E d \in Req : Deactivates(d, u.id)
    /\ \A d \in Req : ask[d].op = "deactivate" => /\ \E u \in users : u.id = ask[d].name
                                                  /\ \A u \in users : u.id = ask[d].name => ~u.active
PresentedOK ==
    \A r \in Req, k \in Maker : Presents(r, k) =>
        /\ at[r] = "resolving" => found[r] = keys[k].user /\ \A d \in before[r] : ~Revokes(d, k)
        /\ at[r] \in {"resolving", "acting", "revoking", "done", "missing"} => Known(k)

IInv == /\ TypeOK /\ AsksOK /\ NonceOK /\ NonceReuseOverlaps /\ RowsOK /\ WalletOK
        /\ KeysOK /\ ActiveOK /\ PresentedOK /\ KeyWorksUntilRevoked

-----------------------------------------------------------------------------
(* Initial states *)

LEMMA InitInv == Init => IInv
<1> SUFFICES ASSUME Init PROVE IInv
  OBVIOUS
<1>1. PICK e : users = {} \/ (e \in Email /\ users = {ElderRow(e)})
  BY DEF Init
<1>2. TypeOK
  <2>1. users \subseteq Row
    <3>1. CASE users = {}
      BY <3>1
    <3>2. CASE e \in Email /\ users = {ElderRow(e)}
      <4>1. Elder \in Maker /\ NoOne \in Wallet \cup {NoOne} /\ NoOne \in Sub \cup {NoOne} /\ e \in Email \cup Wallet
        BY <3>2 DEF Maker
      <4>2. ElderRow(e) \in Row
        BY <4>1 DEF ElderRow, Row
      <4>3. QED
        BY <3>2, <4>2
    <3>3. QED
      BY <1>1, <3>1, <3>2
  <2>2. Elder \in Maker /\ "use" \in Op
    BY DEF Maker, Op
  <2>3. /\ nonce \in [Wallet -> Maker \cup {NoOne}] /\ found \in [Req -> Maker \cup {NoOne}]
        /\ at \in [Req -> Waiting \cup Ended \cup {"idle"}]
    BY DEF Init
  <2>4. before \in [Req -> SUBSET Req]
    BY DEF Init
  <2>5. keys \in [Maker -> [status : {"none", "active", "revoked"}, user : Maker]]
    BY <2>2 DEF Init
  <2>6. ask \in [Req -> [op : Op, name : Email \cup Wallet \cup Maker, arg : Maker \cup Sub \cup {NoOne}]]
    BY <2>2 DEF Init
  <2>7. QED
    BY <2>1, <2>3, <2>4, <2>5, <2>6 DEF TypeOK
<1>3. \A r \in Req : at[r] = "idle" /\ ask[r].op = "use" /\ ask[r].arg = NoOne /\ before[r] = {}
  BY DEF Init
<1>4. AsksOK
  BY <1>3 DEF AsksOK, AskOK
<1>5. NonceOK /\ NonceReuseOverlaps /\ WalletOK
  BY <1>3 DEF NonceOK, NonceFits, NonceReuseOverlaps, WalletOK, WalletFits, Init
<1>6. RowsOK
  <2>1. CASE users = {}
    BY <2>1 DEF RowsOK
  <2>2. CASE users = {ElderRow(e)}
    <3>1. \A u \in users : u = ElderRow(e) /\ u.id = Elder /\ u.wallet = NoOne
      BY <2>2 DEF ElderRow
    <3>2. QED
      BY <3>1, NamesAssumption DEF RowsOK
  <2>3. QED
    BY <1>1, <2>1, <2>2
<1>7. KeysOK
  BY <1>3, NamesAssumption DEF KeysOK, Known, Init, Maker
<1>8. ActiveOK
  BY <1>1, <1>3 DEF ActiveOK, ElderRow
<1>9. PresentedOK /\ KeyWorksUntilRevoked
  BY <1>3, NamesAssumption DEF PresentedOK, KeyWorksUntilRevoked, Presents
<1>10. QED
  BY <1>2, <1>4, <1>5, <1>6, <1>7, <1>8, <1>9 DEF IInv

-----------------------------------------------------------------------------
(* How a step changes the requests *)

\* Request r begins, or moves on; the others stay where they are.
Begun(r) ==
    /\ at[r] = "idle" /\ before'[r] = {s \in Req : at[s] \in Ended}
    /\ \A s \in Req : s # r => ask'[s] = ask[s] /\ before'[s] = before[s]
Moved(r) == at[r] \in Waiting /\ ask' = ask /\ before' = before
Others(r) == \A s \in Req : s # r => at'[s] = at[s] /\ found'[s] = found[s]

\* The steps of request r.
Step(r) ==
    \/ \E e \in Email \cup Wallet, right \in BOOLEAN : Register(r, e) \/ Login(r, e, right)
    \/ \E w \in Wallet : Challenge(r, w) \/ \E signed \in Signable(w) : GetNonce(r, w, signed)
    \/ \E g \in GoogleAccount : Google(r, g[1], g[2])
    \/ \E op \in Op, k \in Maker, u \in Maker : WithToken(r, op, k, u) \/ ResolveKey(r, op, k, u)
    \/ \E u \in users : Deactivate(r, u)
    \/ Continue(r) \/ Die(r)

LEMMA NextIs == Next <=> (\E r \in Req : Step(r)) \/ \E w \in Wallet : Expire(w)
BY DEF Next, Step

\* A row that is rewritten keeps all but one column.
LEMMA RowEdit ==
    ASSUME NEW u \in Row, NEW s \in Sub
    PROVE  /\ [u EXCEPT !.active = FALSE] \in Row
           /\ [u EXCEPT !.sub = s] \in Row
BY DEF Row

LEMMA NewRowIs ==
    ASSUME IInv, NEW r \in Req, at[r] = "adding"
    PROVE  NewRow(r) \in Row
<1>1. AskOK(r) /\ ask[r].op \in {"register", "wallet", "google"}
  BY DEF IInv, AsksOK, AskOK
<1>2. /\ ask[r].name \in Email \cup Wallet /\ (ask[r].op = "wallet" => ask[r].name \in Wallet)
      /\ (ask[r].op = "google" => ask[r].arg \in Sub)
  BY <1>1 DEF AskOK
<1>3. QED
  BY <1>2 DEF NewRow, Row, Maker

LEMMA TypeStep ==
    ASSUME IInv, NEW r \in Req, Step(r)
    PROVE  TypeOK'
<1>1. ASSUME NEW e \in Email \cup Wallet, Register(r, e) PROVE TypeOK'
  BY <1>1, NamesAssumption DEF TypeOK, IInv, AsksOK, AskOK, Register, Begins, Moves, Finds, Maker, Op, Waiting, Ended, Sub, With, Row
<1>2. ASSUME NEW e \in Email \cup Wallet, NEW right \in BOOLEAN, Login(r, e, right) PROVE TypeOK'
  BY <1>2, NamesAssumption DEF TypeOK, IInv, AsksOK, AskOK, Login, Begins, Moves, Finds, Maker, Op, Waiting, Ended, Sub, With, Row
<1>3. ASSUME NEW w \in Wallet, Challenge(r, w) PROVE TypeOK'
  BY <1>3, NamesAssumption DEF TypeOK, IInv, AsksOK, AskOK, Challenge, Begins, Moves, Finds, Maker, Op, Waiting, Ended, Sub, With, Row
<1>4. ASSUME NEW w \in Wallet, NEW signed \in Signable(w), GetNonce(r, w, signed) PROVE TypeOK'
  <2>1. signed \in Maker \cup {NoOne} /\ "wallet" \in Op
    BY DEF Signable, Maker, Op
  <2>2. QED
    BY <1>4, <2>1 DEF TypeOK, IInv, GetNonce, Begins, Moves, Waiting, Ended
<1>5. ASSUME NEW g \in GoogleAccount, Google(r, g[1], g[2]) PROVE TypeOK'
  BY <1>5, NamesAssumption DEF TypeOK, IInv, AsksOK, AskOK, Google, Begins, Moves, Finds, Maker, Op, Waiting, Ended, Sub, With, Row
<1>6. ASSUME NEW op \in Op, NEW k \in Maker, NEW u \in Maker, WithToken(r, op, k, u) PROVE TypeOK'
  BY <1>6, NamesAssumption DEF TypeOK, IInv, AsksOK, AskOK, WithToken, Begins, Moves, Finds, Maker, Op, Waiting, Ended, Sub, With, Row
<1>7. ASSUME NEW op \in Op, NEW k \in Maker, NEW u \in Maker, ResolveKey(r, op, k, u) PROVE TypeOK'
  <2>1. keys[u].user \in Maker
    BY DEF IInv, TypeOK
  <2>2. found' \in [Req -> Maker \cup {NoOne}] /\ at' \in [Req -> Waiting \cup Ended \cup {"idle"}]
    BY <1>7, <2>1 DEF TypeOK, IInv, ResolveKey, Moves, Finds, Waiting, Ended
  <2>3. QED
    BY <1>7, <2>2 DEF TypeOK, IInv, ResolveKey, Begins
<1>8. ASSUME NEW u \in users, Deactivate(r, u) PROVE TypeOK'
  <2>1. u \in Row /\ u.id \in Maker /\ "deactivate" \in Op
    BY DEF IInv, TypeOK, Row, Op
  <2>2. [u EXCEPT !.active = FALSE] \in Row
    BY <2>1 DEF Row
  <2>3. QED
    BY <1>8, <2>1, <2>2 DEF TypeOK, IInv, Deactivate, Begins, Moves, Ended
<1>9. ASSUME DeleteNonce(r) PROVE TypeOK'
  BY <1>9, NamesAssumption DEF TypeOK, IInv, AsksOK, AskOK, DeleteNonce, Begins, Moves, Finds, Maker, Op, Waiting, Ended, Sub, With, Row
<1>10. ASSUME FindWallet(r) PROVE TypeOK'
  BY <1>10, NamesAssumption DEF TypeOK, IInv, AsksOK, AskOK, FindWallet, Begins, Moves, Finds, Maker, Op, Waiting, Ended, Sub, With, Row
<1>11. ASSUME LinkGoogle(r) PROVE TypeOK'
  <2>1. PICK u \in users : users' \in {users, (users \ {u}) \cup {[u EXCEPT !.sub = ask[r].arg]}}
    BY <1>11 DEF LinkGoogle, With
  <2>2. ask[r].arg \in Sub /\ u \in Row
    BY <1>11 DEF LinkGoogle, IInv, AsksOK, AskOK, TypeOK
  <2>3. [u EXCEPT !.sub = ask[r].arg] \in Row
    BY <2>2, RowEdit
  <2>4. users' \subseteq Row
    BY <2>1, <2>3 DEF IInv, TypeOK
  <2>5. QED
    BY <1>11, <2>4 DEF TypeOK, IInv, LinkGoogle, Moves, Ended
<1>12. ASSUME AddUser(r) PROVE TypeOK'
  <2>1. NewRow(r) \in Row
    BY <1>12, NewRowIs DEF AddUser
  <2>2. QED
    BY <1>12, <2>1 DEF TypeOK, IInv, AddUser, Moves, Finds, Maker, Waiting, Ended
<1>13. ASSUME RecordToken(r) PROVE TypeOK'
  BY <1>13, NamesAssumption DEF TypeOK, IInv, AsksOK, AskOK, RecordToken, Begins, Moves, Finds, Maker, Op, Waiting, Ended, Sub, With, Row
<1>14. ASSUME CheckUser(r) PROVE TypeOK'
  BY <1>14, NamesAssumption DEF TypeOK, IInv, AsksOK, AskOK, CheckUser, Begins, Moves, Finds, Maker, Op, Waiting, Ended, Sub, With, Row
<1>15. ASSUME CreateKey(r) PROVE TypeOK'
  BY <1>15, NamesAssumption DEF TypeOK, IInv, AsksOK, AskOK, CreateKey, Begins, Moves, Finds, Maker, Op, Waiting, Ended, Sub, With, Row
<1>16. ASSUME SelectKey(r) PROVE TypeOK'
  BY <1>16, NamesAssumption DEF TypeOK, IInv, AsksOK, AskOK, SelectKey, Begins, Moves, Finds, Maker, Op, Waiting, Ended, Sub, With, Row
<1>17. ASSUME CommitRevoke(r) PROVE TypeOK'
  <2>1. ask[r].name \in Maker
    BY <1>17 DEF CommitRevoke, IInv, AsksOK, AskOK
  <2>2. keys[ask[r].name] \in [status : {"none", "active", "revoked"}, user : Maker]
    BY <2>1 DEF IInv, TypeOK
  <2>3. keys' \in [Maker -> [status : {"none", "active", "revoked"}, user : Maker]]
    BY <1>17, <2>1, <2>2 DEF CommitRevoke, IInv, TypeOK
  <2>4. QED
    BY <1>17, <2>3 DEF TypeOK, IInv, CommitRevoke, Moves, Ended
<1>18. ASSUME Die(r) PROVE TypeOK'
  BY <1>18, NamesAssumption DEF TypeOK, IInv, AsksOK, AskOK, Die, Begins, Moves, Finds, Maker, Op, Waiting, Ended, Sub, With, Row
<1>19. QED
  BY <1>1, <1>2, <1>3, <1>4, <1>5, <1>6, <1>7, <1>8, <1>9, <1>10, <1>11, <1>12, <1>13, <1>14, <1>15, <1>16, <1>17, <1>18
     DEF Step, Continue

\* A step of r leaves the other requests alone.
LEMMA StepFrame ==
    ASSUME IInv, NEW r \in Req, Step(r)
    PROVE  (Begun(r) \/ Moved(r)) /\ Others(r)
<1>1. ASSUME NEW e \in Email \cup Wallet, Register(r, e) PROVE (Begun(r) \/ Moved(r)) /\ Others(r)
  BY <1>1 DEF IInv, TypeOK, Register, Begins, Moves, Finds, Begun, Moved, Others, Waiting
<1>2. ASSUME NEW e \in Email \cup Wallet, NEW right \in BOOLEAN, Login(r, e, right) PROVE (Begun(r) \/ Moved(r)) /\ Others(r)
  BY <1>2 DEF IInv, TypeOK, Login, Begins, Moves, Finds, Begun, Moved, Others, Waiting
<1>3. ASSUME NEW w \in Wallet, Challenge(r, w) PROVE (Begun(r) \/ Moved(r)) /\ Others(r)
  BY <1>3 DEF IInv, TypeOK, Challenge, Begins, Moves, Finds, Begun, Moved, Others, Waiting
<1>4. ASSUME NEW w \in Wallet, NEW signed \in Signable(w), GetNonce(r, w, signed) PROVE (Begun(r) \/ Moved(r)) /\ Others(r)
  BY <1>4 DEF IInv, TypeOK, GetNonce, Begins, Moves, Finds, Begun, Moved, Others, Waiting
<1>5. ASSUME NEW g \in GoogleAccount, Google(r, g[1], g[2]) PROVE (Begun(r) \/ Moved(r)) /\ Others(r)
  BY <1>5 DEF IInv, TypeOK, Google, Begins, Moves, Finds, Begun, Moved, Others, Waiting
<1>6. ASSUME NEW op \in Op, NEW k \in Maker, NEW u \in Maker, WithToken(r, op, k, u) PROVE (Begun(r) \/ Moved(r)) /\ Others(r)
  BY <1>6 DEF IInv, TypeOK, WithToken, Begins, Moves, Finds, Begun, Moved, Others, Waiting
<1>7. ASSUME NEW op \in Op, NEW k \in Maker, NEW u \in Maker, ResolveKey(r, op, k, u) PROVE (Begun(r) \/ Moved(r)) /\ Others(r)
  BY <1>7 DEF IInv, TypeOK, ResolveKey, Begins, Moves, Finds, Begun, Moved, Others, Waiting
<1>8. ASSUME NEW u \in users, Deactivate(r, u) PROVE (Begun(r) \/ Moved(r)) /\ Others(r)
  BY <1>8 DEF IInv, TypeOK, Deactivate, Begins, Moves, Finds, Begun, Moved, Others, Waiting
<1>9. ASSUME DeleteNonce(r) PROVE (Begun(r) \/ Moved(r)) /\ Others(r)
  BY <1>9 DEF IInv, TypeOK, DeleteNonce, Begins, Moves, Finds, Begun, Moved, Others, Waiting
<1>10. ASSUME FindWallet(r) PROVE (Begun(r) \/ Moved(r)) /\ Others(r)
  BY <1>10 DEF IInv, TypeOK, FindWallet, Begins, Moves, Finds, Begun, Moved, Others, Waiting
<1>11. ASSUME LinkGoogle(r) PROVE (Begun(r) \/ Moved(r)) /\ Others(r)
  BY <1>11 DEF IInv, TypeOK, LinkGoogle, Begins, Moves, Finds, Begun, Moved, Others, Waiting
<1>12. ASSUME AddUser(r) PROVE (Begun(r) \/ Moved(r)) /\ Others(r)
  BY <1>12 DEF IInv, TypeOK, AddUser, Begins, Moves, Finds, Begun, Moved, Others, Waiting
<1>13. ASSUME RecordToken(r) PROVE (Begun(r) \/ Moved(r)) /\ Others(r)
  BY <1>13 DEF IInv, TypeOK, RecordToken, Begins, Moves, Finds, Begun, Moved, Others, Waiting
<1>14. ASSUME CheckUser(r) PROVE (Begun(r) \/ Moved(r)) /\ Others(r)
  BY <1>14 DEF IInv, TypeOK, CheckUser, Begins, Moves, Finds, Begun, Moved, Others, Waiting
<1>15. ASSUME CreateKey(r) PROVE (Begun(r) \/ Moved(r)) /\ Others(r)
  BY <1>15 DEF IInv, TypeOK, CreateKey, Begins, Moves, Finds, Begun, Moved, Others, Waiting
<1>16. ASSUME SelectKey(r) PROVE (Begun(r) \/ Moved(r)) /\ Others(r)
  BY <1>16 DEF IInv, TypeOK, SelectKey, Begins, Moves, Finds, Begun, Moved, Others, Waiting
<1>17. ASSUME CommitRevoke(r) PROVE (Begun(r) \/ Moved(r)) /\ Others(r)
  BY <1>17 DEF IInv, TypeOK, CommitRevoke, Begins, Moves, Finds, Begun, Moved, Others, Waiting
<1>18. ASSUME Die(r) PROVE (Begun(r) \/ Moved(r)) /\ Others(r)
  BY <1>18 DEF IInv, TypeOK, Die, Begins, Moves, Finds, Begun, Moved, Others, Waiting
<1>19. QED
  BY <1>1, <1>2, <1>3, <1>4, <1>5, <1>6, <1>7, <1>8, <1>9, <1>10, <1>11, <1>12, <1>13, <1>14, <1>15, <1>16, <1>17, <1>18
     DEF Step, Continue

LEMMA AsksFrame ==
    ASSUME IInv, NEW r \in Req, Begun(r) \/ Moved(r), Others(r), AskOK(r)'
    PROVE  AsksOK'
<1>1. SUFFICES ASSUME NEW s \in Req PROVE AskOK(s)' /\ \A t \in before'[s] : at'[t] \in Ended
  BY DEF AsksOK
<1>2. /\ AskOK(s) /\ \A t \in before[s] : t \in Req /\ at[t] \in Ended
  BY DEF IInv, AsksOK, TypeOK
<1>3. \A t \in Req : at[t] \in Ended => at'[t] \in Ended
  BY DEF Begun, Moved, Others, Waiting, Ended
<1>4. AskOK(s)'
  <2>1. CASE s = r
    BY <2>1
  <2>2. CASE s # r
    <3>1. ask'[s] = ask[s] /\ before'[s] = before[s] /\ at'[s] = at[s] /\ found'[s] = found[s]
      BY <2>2 DEF Begun, Moved, Others
    <3>2. QED
      BY <1>2, <3>1 DEF AskOK
  <2>3. QED
    BY <2>1, <2>2
<1>5. \A t \in before'[s] : at'[t] \in Ended
  BY <1>2, <1>3 DEF Begun, Moved
<1>6. QED
  BY <1>4, <1>5

LEMMA AsksStep ==
    ASSUME IInv, NEW r \in Req, Step(r)
    PROVE  AsksOK'
<1>0. AskOK(r)
  BY DEF IInv, AsksOK
<1>1. ASSUME NEW e \in Email \cup Wallet, Register(r, e) PROVE AskOK(r)'
  BY <1>1 DEF AskOK, Register, Begins, Moves, Finds, IInv, AsksOK, TypeOK, Sub, With, Ended
<1>2. ASSUME NEW e \in Email \cup Wallet, NEW right \in BOOLEAN, Login(r, e, right) PROVE AskOK(r)'
  <2>1. /\ ask'[r] = [op |-> "login", name |-> e, arg |-> NoOne] /\ at'[r] \in {"refused", "failed", "recording"}
        /\ at'[r] = "recording" => found'[r] \in Maker
    BY <1>2 DEF Login, With, Row, IInv, TypeOK, Begins, Moves, Finds
  <2>2. QED
    BY <2>1 DEF AskOK
<1>3. ASSUME NEW w \in Wallet, Challenge(r, w) PROVE AskOK(r)'
  BY <1>3 DEF AskOK, Challenge, Begins, Moves, Finds, IInv, AsksOK, TypeOK, Sub, With, Ended
<1>4. ASSUME NEW w \in Wallet, NEW signed \in Signable(w), GetNonce(r, w, signed) PROVE AskOK(r)'
  BY <1>4 DEF AskOK, GetNonce, Begins, Moves, Finds, IInv, AsksOK, TypeOK, Sub, With, Ended
<1>5. ASSUME NEW g \in GoogleAccount, Google(r, g[1], g[2]) PROVE AskOK(r)'
  <2>1. /\ ask'[r] = [op |-> "google", name |-> g[1], arg |-> g[2]] /\ at'[r] \in {"adding", "linking", "done"}
        /\ at'[r] = "linking" => found'[r] \in Maker
    BY <1>5 DEF Google, With, Row, IInv, TypeOK, Begins, Moves, Finds
  <2>2. QED
    BY <2>1, NamesAssumption DEF AskOK, Sub
<1>6. ASSUME NEW op \in Op, NEW k \in Maker, NEW u \in Maker, WithToken(r, op, k, u) PROVE AskOK(r)'
  <2>1. /\ ask'[r] = [op |-> op, name |-> k, arg |-> NoOne] /\ at'[r] = "acting"
        /\ found'[r] \in Maker /\ op \in {"create", "revoke"}
    BY <1>6 DEF WithToken, KeyOp, IInv, TypeOK, Begins, Moves, Finds
  <2>2. QED
    BY <2>1 DEF AskOK
<1>7. ASSUME NEW op \in Op, NEW k \in Maker, NEW u \in Maker, ResolveKey(r, op, k, u) PROVE AskOK(r)'
  <2>1. /\ ask'[r] = [op |-> op, name |-> k, arg |-> u] /\ op \in {"use", "create", "revoke"}
    BY <1>7 DEF ResolveKey, KeyOp, IInv, TypeOK, Begins, Moves, Finds
  <2>2. CASE keys[u].status = "active"
    <3>1. at'[r] = "resolving" /\ found'[r] \in Maker
      BY <1>7, <2>2 DEF ResolveKey, IInv, TypeOK, Begins, Moves, Finds
    <3>2. QED
      BY <2>1, <3>1 DEF AskOK
  <2>3. CASE keys[u].status # "active"
    <3>1. at'[r] = "refused"
      BY <1>7, <2>3 DEF ResolveKey, IInv, TypeOK, Begins, Moves, Finds
    <3>2. QED
      BY <2>1, <3>1 DEF AskOK
  <2>4. QED
    BY <2>2, <2>3
<1>8. ASSUME NEW u \in users, Deactivate(r, u) PROVE AskOK(r)'
  <2>1. ask'[r] = [op |-> "deactivate", name |-> u.id, arg |-> NoOne] /\ at'[r] = "done" /\ u.id \in Maker
    BY <1>8 DEF Deactivate, Row, IInv, TypeOK, Begins, Moves, Finds
  <2>2. QED
    BY <2>1 DEF AskOK
<1>9. ASSUME DeleteNonce(r) PROVE AskOK(r)'
  BY <1>9 DEF AskOK, DeleteNonce, Begins, Moves, Finds, IInv, AsksOK, TypeOK, Sub, With, Ended
<1>10. ASSUME FindWallet(r) PROVE AskOK(r)'
  <2>1. /\ ask'[r] = ask[r] /\ at[r] = "seeking" /\ at'[r] \in {"adding", "recording"}
        /\ at'[r] = "recording" => found'[r] \in Maker
    BY <1>10 DEF FindWallet, With, Row, IInv, TypeOK, Begins, Moves, Finds
  <2>2. QED
    BY <1>0, <2>1 DEF AskOK
<1>11. ASSUME LinkGoogle(r) PROVE AskOK(r)'
  BY <1>11 DEF AskOK, LinkGoogle, Begins, Moves, Finds, IInv, AsksOK, TypeOK, Sub, With, Ended
<1>12. ASSUME AddUser(r) PROVE AskOK(r)'
  <2>1. /\ ask'[r] = ask[r] /\ at[r] = "adding" /\ at'[r] \in {"recording", "done", "failed"}
        /\ at'[r] = "recording" => found'[r] \in Maker /\ ask[r].op = "wallet"
    BY <1>12 DEF AddUser, Maker, IInv, TypeOK, Begins, Moves, Finds
  <2>2. QED
    BY <1>0, <2>1 DEF AskOK
<1>13. ASSUME RecordToken(r) PROVE AskOK(r)'
  BY <1>13 DEF AskOK, RecordToken, Begins, Moves, Finds, IInv, AsksOK, TypeOK, Sub, With, Ended
<1>14. ASSUME CheckUser(r) PROVE AskOK(r)'
  BY <1>14 DEF AskOK, CheckUser, Begins, Moves, Finds, IInv, AsksOK, TypeOK, Sub, With, Ended
<1>15. ASSUME CreateKey(r) PROVE AskOK(r)'
  BY <1>15 DEF AskOK, CreateKey, Begins, Moves, Finds, IInv, AsksOK, TypeOK, Sub, With, Ended
<1>16. ASSUME SelectKey(r) PROVE AskOK(r)'
  BY <1>16 DEF AskOK, SelectKey, Begins, Moves, Finds, IInv, AsksOK, TypeOK, Sub, With, Ended
<1>17. ASSUME CommitRevoke(r) PROVE AskOK(r)'
  BY <1>17 DEF AskOK, CommitRevoke, Begins, Moves, Finds, IInv, AsksOK, TypeOK, Sub, With, Ended
<1>18. ASSUME Die(r) PROVE AskOK(r)'
  <2>1. ask'[r] = ask[r] /\ at[r] \in Waiting /\ at'[r] = "dead"
    BY <1>18 DEF Die, IInv, TypeOK, Begins, Moves, Finds
  <2>2. QED
    BY <1>0, <2>1 DEF AskOK, Waiting
<1>19. AskOK(r)'
  BY <1>1, <1>2, <1>3, <1>4, <1>5, <1>6, <1>7, <1>8, <1>9, <1>10, <1>11, <1>12, <1>13, <1>14, <1>15, <1>16, <1>17, <1>18
     DEF Step, Continue
<1>20. QED
  BY <1>19, StepFrame, AsksFrame

-----------------------------------------------------------------------------
(* Nonces *)

LEMMA NonceChanges ==
    ASSUME NEW r \in Req, Step(r)
    PROVE  nonce' = nonce \/ (\E w \in Wallet : Challenge(r, w)) \/ DeleteNonce(r)
BY DEF Step, Continue, Register, Login, Challenge, GetNonce, Google, WithToken, ResolveKey, Deactivate, DeleteNonce, FindWallet,
         LinkGoogle, AddUser, RecordToken, CheckUser, CreateKey, SelectKey, CommitRevoke, Die

\* A challenge that was issued stays what it is.
LEMMA ChallengeStays ==
    ASSUME IInv, NEW r \in Req, Begun(r) \/ Moved(r), NEW c, NEW w, ChallengeOf(c, w)
    PROVE  c # r /\ ask'[c] = ask[c]
<1>1. at[c] = "done" /\ c \in Req
  BY DEF IInv, AsksOK, AskOK, ChallengeOf
<1>2. c # r
  BY <1>1 DEF Begun, Moved, Waiting
<1>3. QED
  BY <1>1, <1>2 DEF Begun, Moved

\* A step of r that leaves the nonces alone has only r's own use of one to look at.
LEMMA NonceFrame ==
    ASSUME IInv, NEW r \in Req, Begun(r) \/ Moved(r), Others(r), nonce' = nonce, NonceFits(r)'
    PROVE  NonceOK'
<1>1. ASSUME NEW w \in Wallet, nonce'[w] # NoOne PROVE ChallengeOf(nonce[w], w)'
  <2>1. nonce'[w] = nonce[w] /\ ChallengeOf(nonce[w], w)
    BY <1>1 DEF IInv, NonceOK
  <2>2. ask'[nonce[w]] = ask[nonce[w]]
    BY <2>1, ChallengeStays
  <2>3. QED
    BY <2>1, <2>2 DEF ChallengeOf
<1>2. ASSUME NEW s \in Req, s # r PROVE NonceFits(s)'
  <2>1. ask'[s] = ask[s] /\ before'[s] = before[s] /\ at'[s] = at[s] /\ NonceFits(s)
    BY <1>2 DEF Begun, Moved, Others, IInv, NonceOK
  <2>2. ChallengeOf(ask[s].arg, ask[s].name) => ask'[ask[s].arg] = ask[ask[s].arg]
    BY ChallengeStays
  <2>3. QED
    BY <2>1, <2>2 DEF NonceFits, ChallengeOf
<1>3. QED
  BY <1>1, <1>2 DEF NonceOK

\* So does a step in which a nonce goes.
LEMMA NonceGone ==
    ASSUME IInv, NEW r \in Req, Begun(r) \/ Moved(r), Others(r), NonceFits(r)',
           NEW v, nonce' = [nonce EXCEPT ![v] = NoOne]
    PROVE  NonceOK'
<1>1. \A w \in Wallet : nonce'[w] = IF w = v THEN NoOne ELSE nonce[w]
  BY DEF IInv, TypeOK
<1>2. ASSUME NEW w \in Wallet, nonce'[w] # NoOne PROVE ChallengeOf(nonce[w], w)'
  <2>1. nonce'[w] = nonce[w] /\ ChallengeOf(nonce[w], w)
    BY <1>1, <1>2 DEF IInv, NonceOK
  <2>2. ask'[nonce[w]] = ask[nonce[w]]
    BY <2>1, ChallengeStays
  <2>3. QED
    BY <2>1, <2>2 DEF ChallengeOf
<1>3. ASSUME NEW s \in Req, s # r PROVE NonceFits(s)'
  <2>1. /\ ask'[s] = ask[s] /\ before'[s] = before[s] /\ at'[s] = at[s] /\ NonceFits(s)
        /\ (ask[s].op = "wallet" => ask[s].name \in Wallet)
    BY <1>3 DEF Begun, Moved, Others, IInv, NonceOK, AsksOK, AskOK
  <2>2. ChallengeOf(ask[s].arg, ask[s].name) => ask'[ask[s].arg] = ask[ask[s].arg]
    BY ChallengeStays
  <2>3. ChallengeOf(ask[s].arg, ask[s].name) => ask[s].arg # NoOne
    BY NamesAssumption DEF ChallengeOf, Maker
  <2>4. ask[s].op = "wallet" => nonce'[ask[s].name] \in {NoOne, nonce[ask[s].name]}
    BY <1>1, <2>1
  <2>5. QED
    BY <2>1, <2>2, <2>3, <2>4 DEF NonceFits, ChallengeOf
<1>4. QED
  BY <1>2, <1>3 DEF NonceOK

LEMMA NonceFitsStep ==
    ASSUME IInv, NEW r \in Req, Step(r)
    PROVE  NonceFits(r)'
<1>0. NonceFits(r) /\ AskOK(r)
  BY DEF IInv, NonceOK, AsksOK
<1>a. Begun(r) \/ Moved(r)
  BY StepFrame
<1>1. ASSUME NEW e \in Email \cup Wallet, Register(r, e) PROVE NonceFits(r)'
  BY <1>1, <1>0 DEF NonceFits, IInv, TypeOK, Register, Begins, Moves, AskOK, KeyOp
<1>2. ASSUME NEW e \in Email \cup Wallet, NEW right \in BOOLEAN, Login(r, e, right) PROVE NonceFits(r)'
  BY <1>2, <1>0 DEF NonceFits, IInv, TypeOK, Login, Begins, Moves, AskOK, KeyOp
<1>3. ASSUME NEW w \in Wallet, Challenge(r, w) PROVE NonceFits(r)'
  BY <1>3, <1>0 DEF NonceFits, IInv, TypeOK, Challenge, Begins, Moves, AskOK, KeyOp
<1>4. ASSUME NEW w \in Wallet, NEW signed \in Signable(w), GetNonce(r, w, signed) PROVE NonceFits(r)'
  <2>1. ask'[r] = [op |-> "wallet", name |-> w, arg |-> signed] /\ at'[r] \in {"refused", "consuming"} /\ nonce' = nonce
    BY <1>4 DEF GetNonce, Begins, IInv, TypeOK, Moves
  <2>2. at'[r] = "consuming" => nonce[w] # NoOne /\ signed = nonce[w]
    BY <1>4 DEF GetNonce, IInv, TypeOK, Moves
  <2>3. ASSUME at'[r] = "consuming" PROVE ChallengeOf(signed, w)'
    <3>1. ChallengeOf(nonce[w], w) /\ signed = nonce[w]
      BY <2>2, <2>3 DEF IInv, NonceOK
    <3>2. ask'[signed] = ask[signed]
      BY <1>a, <3>1, ChallengeStays
    <3>3. QED
      BY <3>1, <3>2 DEF ChallengeOf
  <2>4. QED
    BY <2>1, <2>2, <2>3 DEF NonceFits
<1>5. ASSUME NEW g \in GoogleAccount, Google(r, g[1], g[2]) PROVE NonceFits(r)'
  BY <1>5, <1>0 DEF NonceFits, IInv, TypeOK, Google, Begins, Moves, AskOK, KeyOp
<1>6. ASSUME NEW op \in Op, NEW k \in Maker, NEW u \in Maker, WithToken(r, op, k, u) PROVE NonceFits(r)'
  BY <1>6, <1>0 DEF NonceFits, IInv, TypeOK, WithToken, Begins, Moves, AskOK, KeyOp
<1>7. ASSUME NEW op \in Op, NEW k \in Maker, NEW u \in Maker, ResolveKey(r, op, k, u) PROVE NonceFits(r)'
  BY <1>7, <1>0 DEF NonceFits, IInv, TypeOK, ResolveKey, Begins, Moves, AskOK, KeyOp
<1>8. ASSUME NEW u \in users, Deactivate(r, u) PROVE NonceFits(r)'
  BY <1>8, <1>0 DEF NonceFits, IInv, TypeOK, Deactivate, Begins, Moves, AskOK, KeyOp
<1>9. ASSUME DeleteNonce(r) PROVE NonceFits(r)'
  <2>1. at[r] = "consuming" /\ at'[r] = "seeking" /\ ask' = ask /\ before' = before
    BY <1>9 DEF DeleteNonce, IInv, TypeOK, Moves
  <2>2. ask[r].op = "wallet" /\ ask[r].name \in Wallet /\ ChallengeOf(ask[r].arg, ask[r].name)
    BY <1>0, <2>1 DEF AskOK, NonceFits
  <2>3. nonce'[ask[r].name] = NoOne /\ ask[r].arg # NoOne
    BY <1>9, <2>2, NamesAssumption DEF DeleteNonce, IInv, TypeOK, ChallengeOf, Maker
  <2>4. QED
    BY <2>1, <2>2, <2>3 DEF NonceFits, ChallengeOf
<1>10. ASSUME FindWallet(r) PROVE NonceFits(r)'
  <2>1. at[r] = "seeking" /\ at'[r] \in {"adding", "recording"} /\ ask' = ask /\ before' = before /\ nonce' = nonce
    BY <1>10 DEF FindWallet, IInv, TypeOK, Moves
  <2>2. QED
    BY <1>0, <2>1 DEF NonceFits, ChallengeOf, AskOK
<1>11. ASSUME LinkGoogle(r) PROVE NonceFits(r)'
  BY <1>11, <1>0 DEF NonceFits, IInv, TypeOK, LinkGoogle, Begins, Moves, AskOK, KeyOp
<1>12. ASSUME AddUser(r) PROVE NonceFits(r)'
  <2>1. at[r] = "adding" /\ at'[r] \in {"recording", "done", "failed"} /\ ask' = ask /\ before' = before /\ nonce' = nonce
    BY <1>12 DEF AddUser, IInv, TypeOK, Moves
  <2>2. QED
    BY <1>0, <2>1 DEF NonceFits, ChallengeOf, AskOK
<1>13. ASSUME RecordToken(r) PROVE NonceFits(r)'
  <2>1. at[r] = "recording" /\ at'[r] \in {"done"} /\ ask' = ask /\ before' = before /\ nonce' = nonce
    BY <1>13 DEF RecordToken, IInv, TypeOK, Moves
  <2>2. QED
    BY <1>0, <2>1 DEF NonceFits, ChallengeOf, AskOK
<1>14. ASSUME CheckUser(r) PROVE NonceFits(r)'
  BY <1>14, <1>0 DEF NonceFits, IInv, TypeOK, CheckUser, Begins, Moves, AskOK, KeyOp
<1>15. ASSUME CreateKey(r) PROVE NonceFits(r)'
  BY <1>15, <1>0 DEF NonceFits, IInv, TypeOK, CreateKey, Begins, Moves, AskOK, KeyOp
<1>16. ASSUME SelectKey(r) PROVE NonceFits(r)'
  BY <1>16, <1>0 DEF NonceFits, IInv, TypeOK, SelectKey, Begins, Moves, AskOK, KeyOp
<1>17. ASSUME CommitRevoke(r) PROVE NonceFits(r)'
  BY <1>17, <1>0 DEF NonceFits, IInv, TypeOK, CommitRevoke, Begins, Moves, AskOK, KeyOp
<1>18. ASSUME Die(r) PROVE NonceFits(r)'
  <2>1. at[r] \in Waiting /\ at'[r] = "dead" /\ ask' = ask /\ before' = before /\ nonce' = nonce
    BY <1>18 DEF Die, IInv, TypeOK, Moves
  <2>2. QED
    BY <1>0, <2>1 DEF NonceFits, ChallengeOf, Waiting
<1>19. QED
  BY <1>1, <1>2, <1>3, <1>4, <1>5, <1>6, <1>7, <1>8, <1>9, <1>10, <1>11, <1>12, <1>13, <1>14, <1>15, <1>16, <1>17, <1>18
     DEF Step, Continue

\* The nonces after each step: those of the other requests are touched by Challenge and DeleteNonce only.
LEMMA NonceStep ==
    ASSUME IInv, NEW r \in Req, Step(r)
    PROVE  NonceOK'
<1>1. (Begun(r) \/ Moved(r)) /\ Others(r) /\ NonceFits(r)'
  BY StepFrame, NonceFitsStep
<1>2. CASE nonce' = nonce
  BY <1>1, <1>2, NonceFrame
<1>3. ASSUME NEW w \in Wallet, Challenge(r, w) PROVE NonceOK'
  <2>1. at[r] = "idle" /\ nonce' = [nonce EXCEPT ![w] = r] /\ ask'[r].op = "challenge" /\ ask'[r].name = w
    BY <1>3 DEF Challenge, Begins, IInv, TypeOK
  <2>2. ASSUME NEW v \in Wallet, nonce'[v] # NoOne PROVE ChallengeOf(nonce[v], v)'
    <3>1. CASE v = w
      BY <2>1, <3>1 DEF ChallengeOf, IInv, TypeOK
    <3>2. CASE v # w
      <4>1. nonce'[v] = nonce[v] /\ ChallengeOf(nonce[v], v)
        BY <2>1, <2>2, <3>2 DEF IInv, NonceOK, TypeOK
      <4>2. ask'[nonce[v]] = ask[nonce[v]]
        BY <1>1, <4>1, ChallengeStays
      <4>3. QED
        BY <4>1, <4>2 DEF ChallengeOf
    <3>3. QED
      BY <3>1, <3>2
  <2>3. ASSUME NEW s \in Req, s # r PROVE NonceFits(s)'
    <3>1. ask'[s] = ask[s] /\ before'[s] = before[s] /\ at'[s] = at[s] /\ NonceFits(s)
          /\ (ask[s].op = "wallet" => ask[s].name \in Wallet)
      BY <1>1, <2>3 DEF Begun, Moved, Others, IInv, NonceOK, AsksOK, AskOK
    <3>2. ChallengeOf(ask[s].arg, ask[s].name) => ask'[ask[s].arg] = ask[ask[s].arg] /\ ask[s].arg # r
      BY <1>1, ChallengeStays
    <3>3. r \notin before[s]
      BY <2>1 DEF IInv, AsksOK, Ended
    <3>4. ask[s].op = "wallet" => nonce'[ask[s].name] \in {r, nonce[ask[s].name]}
      BY <2>1, <3>1 DEF IInv, TypeOK
    <3>5. QED
      BY <3>1, <3>2, <3>3, <3>4 DEF NonceFits, ChallengeOf
  <2>4. QED
    BY <1>1, <2>2, <2>3 DEF NonceOK
<1>4. CASE DeleteNonce(r)
  <2>1. nonce' = [nonce EXCEPT ![ask[r].name] = NoOne]
    BY <1>4 DEF DeleteNonce
  <2>2. QED
    BY <1>1, <2>1, NonceGone
<1>5. QED
  BY <1>2, <1>3, <1>4, NonceChanges

LEMMA ExpireStep ==
    ASSUME IInv, NEW w \in Wallet, Expire(w)
    PROVE  NonceOK'
<1>1. nonce' = [nonce EXCEPT ![w] = NoOne] /\ ask' = ask /\ before' = before /\ at' = at
  BY DEF Expire
<1>2. \A v \in Wallet : nonce'[v] = IF v = w THEN NoOne ELSE nonce[v]
  BY <1>1 DEF IInv, TypeOK
<1>3. \A s \in Req : NonceFits(s)'
  <2>1. SUFFICES ASSUME NEW s \in Req PROVE NonceFits(s)'
    OBVIOUS
  <2>2. NonceFits(s) /\ (ask[s].op = "wallet" => ask[s].name \in Wallet)
    BY DEF IInv, NonceOK, AsksOK, AskOK
  <2>3. QED
    BY <1>1, <1>2, <2>2, NamesAssumption DEF NonceFits, ChallengeOf, Maker
<1>4. QED
  BY <1>1, <1>2, <1>3 DEF NonceOK, IInv, ChallengeOf

\* Only GetNonce begins a wallet sign-in.
LEMMA WalletBegins ==
    ASSUME IInv, NEW r \in Req, Step(r), Begun(r), ask'[r].op = "wallet"
    PROVE  \E w \in Wallet : \E signed \in Signable(w) : GetNonce(r, w, signed)
<1>1. ASSUME NEW e \in Email \cup Wallet, Register(r, e) PROVE FALSE
  BY <1>1 DEF Register, Begins, KeyOp, Begun, IInv, TypeOK, Waiting
<1>2. ASSUME NEW e \in Email \cup Wallet, NEW right \in BOOLEAN, Login(r, e, right) PROVE FALSE
  BY <1>2 DEF Login, Begins, KeyOp, Begun, IInv, TypeOK, Waiting
<1>3. ASSUME NEW w \in Wallet, Challenge(r, w) PROVE FALSE
  BY <1>3 DEF Challenge, Begins, KeyOp, Begun, IInv, TypeOK, Waiting
<1>4. ASSUME NEW w \in Wallet, NEW signed \in Signable(w), GetNonce(r, w, signed)
      PROVE  \E v \in Wallet : \E c \in Signable(v) : GetNonce(r, v, c)
  BY <1>4
<1>5. ASSUME NEW g \in GoogleAccount, Google(r, g[1], g[2]) PROVE FALSE
  BY <1>5 DEF Google, Begins, KeyOp, Begun, IInv, TypeOK, Waiting
<1>6. ASSUME NEW op \in Op, NEW k \in Maker, NEW u \in Maker, WithToken(r, op, k, u) PROVE FALSE
  BY <1>6 DEF WithToken, Begins, KeyOp, Begun, IInv, TypeOK, Waiting
<1>7. ASSUME NEW op \in Op, NEW k \in Maker, NEW u \in Maker, ResolveKey(r, op, k, u) PROVE FALSE
  BY <1>7 DEF ResolveKey, Begins, KeyOp, Begun, IInv, TypeOK, Waiting
<1>8. ASSUME NEW u \in users, Deactivate(r, u) PROVE FALSE
  BY <1>8 DEF Deactivate, Begins, KeyOp, Begun, IInv, TypeOK, Waiting
<1>9. ASSUME DeleteNonce(r) PROVE FALSE
  BY <1>9 DEF DeleteNonce, Begins, KeyOp, Begun, IInv, TypeOK, Waiting
<1>10. ASSUME FindWallet(r) PROVE FALSE
  BY <1>10 DEF FindWallet, Begins, KeyOp, Begun, IInv, TypeOK, Waiting
<1>11. ASSUME LinkGoogle(r) PROVE FALSE
  BY <1>11 DEF LinkGoogle, Begins, KeyOp, Begun, IInv, TypeOK, Waiting
<1>12. ASSUME AddUser(r) PROVE FALSE
  BY <1>12 DEF AddUser, Begins, KeyOp, Begun, IInv, TypeOK, Waiting
<1>13. ASSUME RecordToken(r) PROVE FALSE
  BY <1>13 DEF RecordToken, Begins, KeyOp, Begun, IInv, TypeOK, Waiting
<1>14. ASSUME CheckUser(r) PROVE FALSE
  BY <1>14 DEF CheckUser, Begins, KeyOp, Begun, IInv, TypeOK, Waiting
<1>15. ASSUME CreateKey(r) PROVE FALSE
  BY <1>15 DEF CreateKey, Begins, KeyOp, Begun, IInv, TypeOK, Waiting
<1>16. ASSUME SelectKey(r) PROVE FALSE
  BY <1>16 DEF SelectKey, Begins, KeyOp, Begun, IInv, TypeOK, Waiting
<1>17. ASSUME CommitRevoke(r) PROVE FALSE
  BY <1>17 DEF CommitRevoke, Begins, KeyOp, Begun, IInv, TypeOK, Waiting
<1>18. ASSUME Die(r) PROVE FALSE
  BY <1>18 DEF Die, Begins, KeyOp, Begun, IInv, TypeOK, Waiting
<1>19. QED
  BY <1>1, <1>2, <1>3, <1>4, <1>5, <1>6, <1>7, <1>8, <1>9, <1>10, <1>11, <1>12, <1>13, <1>14, <1>15, <1>16, <1>17, <1>18
     DEF Step, Continue

LEMMA ReuseStep ==
    ASSUME IInv, NEW r \in Req, Step(r)
    PROVE  NonceReuseOverlaps'
<1>1. (Begun(r) \/ Moved(r)) /\ Others(r)
  BY StepFrame
<1>2. SUFFICES ASSUME NEW a \in Req, NEW b \in Req, a # b, ask'[a].op = "wallet", ask'[b].op = "wallet",
                      ask'[a].arg = ask'[b].arg, at'[a] \notin {"idle", "refused"}, SignedIn(b)', b \in before'[a]
               PROVE  FALSE
  BY DEF NonceReuseOverlaps
<1>3. at'[b] = "done"
  BY <1>2 DEF SignedIn
<1>4. CASE b \in before[a]
  <2>1. at[b] \in Ended
    BY <1>4 DEF IInv, AsksOK
  <2>2. b # r
    BY <1>1, <2>1 DEF Begun, Moved, Waiting, Ended
  <2>3. ask'[b] = ask[b] /\ at'[b] = at[b]
    BY <1>1, <2>2 DEF Begun, Moved, Others
  <2>4. at[a] # "idle"
    BY <1>4 DEF IInv, AsksOK, AskOK
  <2>5. ask'[a] = ask[a] /\ at[a] \notin {"idle", "refused"}
    BY <1>1, <1>2, <2>4 DEF Begun, Moved, Others, Waiting
  <2>6. QED
    BY <1>2, <1>3, <1>4, <2>3, <2>5 DEF IInv, NonceReuseOverlaps, SignedIn
<1>5. CASE b \notin before[a]
  <2>1. a = r /\ Begun(r) /\ at[b] \in Ended
    BY <1>1, <1>2, <1>5 DEF Begun, Moved
  <2>2. ask'[b] = ask[b] /\ at[b] = "done"
    BY <1>1, <1>2, <1>3, <2>1 DEF Begun, Others
  <2>3. PICK w \in Wallet : \E signed \in Signable(w) : GetNonce(r, w, signed)
    BY <1>2, <2>1, WalletBegins
  <2>4. PICK signed \in Signable(w) : GetNonce(r, w, signed)
    BY <2>3
  <2>5. ask'[r].arg = signed /\ nonce[w] # NoOne /\ signed = nonce[w]
    BY <1>2, <2>1, <2>4 DEF GetNonce, Begins, Moves, IInv, TypeOK
  <2>6. ChallengeOf(nonce[w], w) /\ ChallengeOf(ask[b].arg, ask[b].name) /\ nonce[ask[b].name] # ask[b].arg
    BY <1>2, <2>2, <2>5 DEF IInv, NonceOK, NonceFits
  <2>7. QED
    BY <1>2, <2>1, <2>2, <2>5, <2>6 DEF ChallengeOf
<1>6. QED
  BY <1>4, <1>5

-----------------------------------------------------------------------------
(* The rows of users *)

LEMMA UsersChange ==
    ASSUME NEW r \in Req, Step(r)
    PROVE  \/ users' = users /\ ~AddUser(r)
           \/ AddUser(r)
           \/ LinkGoogle(r)
           \/ \E u \in users : Deactivate(r, u)
BY DEF Step, Continue, Register, Login, Challenge, GetNonce, Google, WithToken, ResolveKey, Deactivate, DeleteNonce, FindWallet,
         LinkGoogle, AddUser, RecordToken, CheckUser, CreateKey, SelectKey, CommitRevoke, Die

LEMMA PastStays ==
    ASSUME IInv, NEW r \in Req, Step(r), at[r] \in Past
    PROVE  at'[r] \in Past
<1>0. at[r] \in Past
  OBVIOUS
<1>1. ASSUME NEW e \in Email \cup Wallet, Register(r, e) PROVE at'[r] \in Past
  BY <1>1, <1>0 DEF Register, Begins, Moves, IInv, TypeOK, Past
<1>2. ASSUME NEW e \in Email \cup Wallet, NEW right \in BOOLEAN, Login(r, e, right) PROVE at'[r] \in Past
  BY <1>2, <1>0 DEF Login, Begins, Moves, IInv, TypeOK, Past
<1>3. ASSUME NEW w \in Wallet, Challenge(r, w) PROVE at'[r] \in Past
  BY <1>3, <1>0 DEF Challenge, Begins, Moves, IInv, TypeOK, Past
<1>4. ASSUME NEW w \in Wallet, NEW signed \in Signable(w), GetNonce(r, w, signed) PROVE at'[r] \in Past
  BY <1>4, <1>0 DEF GetNonce, Begins, Moves, IInv, TypeOK, Past
<1>5. ASSUME NEW g \in GoogleAccount, Google(r, g[1], g[2]) PROVE at'[r] \in Past
  BY <1>5, <1>0 DEF Google, Begins, Moves, IInv, TypeOK, Past
<1>6. ASSUME NEW op \in Op, NEW k \in Maker, NEW u \in Maker, WithToken(r, op, k, u) PROVE at'[r] \in Past
  BY <1>6, <1>0 DEF WithToken, Begins, Moves, IInv, TypeOK, Past
<1>7. ASSUME NEW op \in Op, NEW k \in Maker, NEW u \in Maker, ResolveKey(r, op, k, u) PROVE at'[r] \in Past
  BY <1>7, <1>0 DEF ResolveKey, Begins, Moves, IInv, TypeOK, Past
<1>8. ASSUME NEW u \in users, Deactivate(r, u) PROVE at'[r] \in Past
  BY <1>8, <1>0 DEF Deactivate, Begins, Moves, IInv, TypeOK, Past
<1>9. ASSUME DeleteNonce(r) PROVE at'[r] \in Past
  BY <1>9, <1>0 DEF DeleteNonce, Begins, Moves, IInv, TypeOK, Past
<1>10. ASSUME FindWallet(r) PROVE at'[r] \in Past
  BY <1>10, <1>0 DEF FindWallet, Begins, Moves, IInv, TypeOK, Past
<1>11. ASSUME LinkGoogle(r) PROVE at'[r] \in Past
  BY <1>11, <1>0 DEF LinkGoogle, Begins, Moves, IInv, TypeOK, Past
<1>12. ASSUME AddUser(r) PROVE at'[r] \in Past
  BY <1>12, <1>0 DEF AddUser, Begins, Moves, IInv, TypeOK, Past
<1>13. ASSUME RecordToken(r) PROVE at'[r] \in Past
  BY <1>13, <1>0 DEF RecordToken, Begins, Moves, IInv, TypeOK, Past
<1>14. ASSUME CheckUser(r) PROVE at'[r] \in Past
  BY <1>14, <1>0 DEF CheckUser, Begins, Moves, IInv, TypeOK, Past
<1>15. ASSUME CreateKey(r) PROVE at'[r] \in Past
  BY <1>15, <1>0 DEF CreateKey, Begins, Moves, IInv, TypeOK, Past
<1>16. ASSUME SelectKey(r) PROVE at'[r] \in Past
  BY <1>16, <1>0 DEF SelectKey, Begins, Moves, IInv, TypeOK, Past
<1>17. ASSUME CommitRevoke(r) PROVE at'[r] \in Past
  BY <1>17, <1>0 DEF CommitRevoke, Begins, Moves, IInv, TypeOK, Past
<1>18. ASSUME Die(r) PROVE at'[r] \in Past
  BY <1>18, <1>0 DEF Die, Begins, Moves, IInv, TypeOK, Past
<1>19. QED
  BY <1>1, <1>2, <1>3, <1>4, <1>5, <1>6, <1>7, <1>8, <1>9, <1>10, <1>11, <1>12, <1>13, <1>14, <1>15, <1>16, <1>17, <1>18
     DEF Step, Continue

\* Rows stand for the same users before and after.
Same(u, v) == u.id = v.id /\ u.email = v.email /\ u.wallet = v.wallet
Kept == /\ \A u \in users : \E v \in users' : Same(u, v)
        /\ \A v \in users' : \E u \in users : Same(u, v)

\* A row is rewritten.
LEMMA Rewritten ==
    ASSUME IInv, NEW r \in Req, Step(r), NEW u \in users, NEW v, Same(u, v), users' = (users \ {u}) \cup {v}
    PROVE  RowsOK' /\ Kept
<1>1. Kept
  BY DEF Kept, Same
<1>2. \A x, y \in users' : x.id = y.id => x = y
  BY DEF Same, IInv, RowsOK
<1>3. \A x, y \in users' : x.wallet = y.wallet /\ x.wallet # NoOne => x = y
  BY DEF Same, IInv, RowsOK
<1>4. \A x \in users' : x.wallet # NoOne => x.email = x.wallet
  BY DEF Same, IInv, RowsOK
<1>5. \A q \in Req : at[q] \in Past => at'[q] \in Past
  BY StepFrame, PastStays DEF Others
<1>6. \A x \in users' : x.id \in Req => at'[x.id] \in Past
  BY <1>5 DEF Same, IInv, RowsOK
<1>7. QED
  BY <1>1, <1>2, <1>3, <1>4, <1>6 DEF RowsOK

LEMMA Untouched ==
    ASSUME IInv, NEW r \in Req, Step(r), users' = users
    PROVE  RowsOK' /\ Kept
<1>1. \A q \in Req : at[q] \in Past => at'[q] \in Past
  BY StepFrame, PastStays DEF Others
<1>2. QED
  BY <1>1 DEF IInv, RowsOK, Kept, Same

\* Google sign-ins and the operator rewrite rows; only AddUser adds one.
LEMMA KeptStep ==
    ASSUME IInv, NEW r \in Req, Step(r), ~AddUser(r)
    PROVE  RowsOK' /\ Kept
<1>1. CASE users' = users
  BY <1>1, Untouched
<1>2. CASE LinkGoogle(r)
  <2>1. PICK u \in users : \/ users' = users
                           \/ users' = (users \ {u}) \cup {[u EXCEPT !.sub = ask[r].arg]}
    BY <1>2 DEF LinkGoogle, With
  <2>2. Same(u, [u EXCEPT !.sub = ask[r].arg])
    BY DEF Same, IInv, TypeOK, Row
  <2>3. QED
    BY <2>1, <2>2, Untouched, Rewritten
<1>3. ASSUME NEW u \in users, Deactivate(r, u) PROVE RowsOK' /\ Kept
  <2>1. users' = (users \ {u}) \cup {[u EXCEPT !.active = FALSE]}
    BY <1>3 DEF Deactivate
  <2>2. Same(u, [u EXCEPT !.active = FALSE])
    BY DEF Same, IInv, TypeOK, Row
  <2>3. QED
    BY <2>1, <2>2, Rewritten
<1>4. QED
  BY <1>1, <1>2, <1>3, UsersChange

LEMMA WalletFrame ==
    ASSUME IInv, NEW r \in Req, Begun(r) \/ Moved(r), Others(r), Kept, WalletFits(r)'
    PROVE  WalletOK'
<1>1. SUFFICES ASSUME NEW s \in Req, s # r PROVE WalletFits(s)'
  BY DEF WalletOK
<1>2. ask'[s] = ask[s] /\ before'[s] = before[s] /\ at'[s] = at[s] /\ found'[s] = found[s] /\ WalletFits(s)
  BY <1>1 DEF Begun, Moved, Others, IInv, WalletOK
<1>3. QED
  BY <1>2 DEF WalletFits, Kept, Same

LEMMA WalletFitsStep ==
    ASSUME IInv, NEW r \in Req, Step(r), ~AddUser(r)
    PROVE  WalletFits(r)'
<1>0. WalletFits(r) /\ AskOK(r)
  BY DEF IInv, WalletOK, AsksOK
<1>1. ASSUME NEW e \in Email \cup Wallet, Register(r, e) PROVE WalletFits(r)'
  BY <1>1, <1>0 DEF WalletFits, IInv, TypeOK, Register, Begins, Moves, AskOK, KeyOp
<1>2. ASSUME NEW e \in Email \cup Wallet, NEW right \in BOOLEAN, Login(r, e, right) PROVE WalletFits(r)'
  BY <1>2, <1>0 DEF WalletFits, IInv, TypeOK, Login, Begins, Moves, AskOK, KeyOp
<1>3. ASSUME NEW w \in Wallet, Challenge(r, w) PROVE WalletFits(r)'
  BY <1>3, <1>0 DEF WalletFits, IInv, TypeOK, Challenge, Begins, Moves, AskOK, KeyOp
<1>4. ASSUME NEW w \in Wallet, NEW signed \in Signable(w), GetNonce(r, w, signed) PROVE WalletFits(r)'
  BY <1>4, <1>0 DEF WalletFits, IInv, TypeOK, GetNonce, Begins, Moves, AskOK, KeyOp
<1>5. ASSUME NEW g \in GoogleAccount, Google(r, g[1], g[2]) PROVE WalletFits(r)'
  BY <1>5, <1>0 DEF WalletFits, IInv, TypeOK, Google, Begins, Moves, AskOK, KeyOp
<1>6. ASSUME NEW op \in Op, NEW k \in Maker, NEW u \in Maker, WithToken(r, op, k, u) PROVE WalletFits(r)'
  BY <1>6, <1>0 DEF WalletFits, IInv, TypeOK, WithToken, Begins, Moves, AskOK, KeyOp
<1>7. ASSUME NEW op \in Op, NEW k \in Maker, NEW u \in Maker, ResolveKey(r, op, k, u) PROVE WalletFits(r)'
  BY <1>7, <1>0 DEF WalletFits, IInv, TypeOK, ResolveKey, Begins, Moves, AskOK, KeyOp
<1>8. ASSUME NEW u \in users, Deactivate(r, u) PROVE WalletFits(r)'
  BY <1>8, <1>0 DEF WalletFits, IInv, TypeOK, Deactivate, Begins, Moves, AskOK, KeyOp
<1>9. ASSUME DeleteNonce(r) PROVE WalletFits(r)'
  BY <1>9, <1>0 DEF WalletFits, IInv, TypeOK, DeleteNonce, Begins, Moves, AskOK, KeyOp
<1>10. ASSUME FindWallet(r) PROVE WalletFits(r)'
  <2>1. /\ at[r] = "seeking" /\ ask' = ask /\ before' = before /\ users' = users
        /\ \/ With("wallet", ask[r].name) = {} /\ at'[r] = "adding"
           \/ \E u \in With("wallet", ask[r].name) : found'[r] = u.id /\ at'[r] = "recording"
    BY <1>10 DEF FindWallet, Moves, Finds, IInv, TypeOK
  <2>2. QED
    BY <2>1 DEF WalletFits, With
<1>11. ASSUME LinkGoogle(r) PROVE WalletFits(r)'
  BY <1>11, <1>0 DEF WalletFits, IInv, TypeOK, LinkGoogle, Begins, Moves, AskOK, KeyOp
<1>12. ~AddUser(r)
  OBVIOUS
<1>13. ASSUME RecordToken(r) PROVE WalletFits(r)'
  <2>1. /\ at[r] = "recording" /\ at'[r] = "done" /\ UNCHANGED <<ask, before, users, found>>
    BY <1>13 DEF RecordToken, Moves, IInv, TypeOK
  <2>2. QED
    BY <1>0, <2>1 DEF WalletFits
<1>14. ASSUME CheckUser(r) PROVE WalletFits(r)'
  BY <1>14, <1>0 DEF WalletFits, IInv, TypeOK, CheckUser, Begins, Moves, AskOK, KeyOp
<1>15. ASSUME CreateKey(r) PROVE WalletFits(r)'
  BY <1>15, <1>0 DEF WalletFits, IInv, TypeOK, CreateKey, Begins, Moves, AskOK, KeyOp
<1>16. ASSUME SelectKey(r) PROVE WalletFits(r)'
  BY <1>16, <1>0 DEF WalletFits, IInv, TypeOK, SelectKey, Begins, Moves, AskOK, KeyOp
<1>17. ASSUME CommitRevoke(r) PROVE WalletFits(r)'
  BY <1>17, <1>0 DEF WalletFits, IInv, TypeOK, CommitRevoke, Begins, Moves, AskOK, KeyOp
<1>18. ASSUME Die(r) PROVE WalletFits(r)'
  BY <1>18, <1>0 DEF WalletFits, IInv, TypeOK, Die, Begins, Moves, AskOK, KeyOp
<1>19. QED
  BY <1>1, <1>2, <1>3, <1>4, <1>5, <1>6, <1>7, <1>8, <1>9, <1>10, <1>11, <1>12, <1>13, <1>14, <1>15, <1>16, <1>17, <1>18
     DEF Step, Continue

LEMMA AddUserRows ==
    ASSUME IInv, NEW r \in Req, AddUser(r)
    PROVE  RowsOK' /\ WalletOK'
<1>1. Step(r) /\ at[r] = "adding" /\ AskOK(r) /\ WalletFits(r)
  BY DEF Step, Continue, AddUser, IInv, AsksOK, WalletOK
<1>2. (Begun(r) \/ Moved(r)) /\ Others(r)
  BY <1>1, StepFrame
<1>3. ask' = ask /\ before' = before
  BY DEF AddUser
<1>4. CASE Clash(NewRow(r)) /\ at'[r] = "failed" /\ users' = users
  <2>1. RowsOK' /\ Kept
    BY <1>1, <1>4, Untouched
  <2>2. ASSUME ask[r].op = "wallet"
        PROVE  \E u \in users : u.email = ask[r].name /\ (u.wallet = ask[r].name => u.id \notin before[r])
    <3>1. ask[r].name \in Wallet /\ ask[r].name # NoOne
      BY <1>1, <2>2, NamesAssumption DEF AskOK
    <3>2. NewRow(r).email = ask[r].name /\ NewRow(r).wallet = ask[r].name /\ NewRow(r).sub = NoOne
      BY <2>2 DEF NewRow
    <3>3. PICK u \in users : u.email = ask[r].name \/ u.wallet = ask[r].name
      BY <1>4, <3>1, <3>2 DEF Clash
    <3>4. u.email = ask[r].name
      BY <3>1, <3>3 DEF IInv, RowsOK
    <3>5. QED
      BY <1>1, <2>2, <3>4 DEF WalletFits
  <2>3. WalletFits(r)'
    BY <1>1, <1>3, <1>4, <2>2 DEF WalletFits
  <2>4. QED
    BY <1>2, <2>1, <2>3, WalletFrame
<1>5. CASE /\ ~Clash(NewRow(r)) /\ users' = users \cup {NewRow(r)} /\ found'[r] = r
           /\ at'[r] \in {"recording", "done"} /\ (at'[r] = "recording" <=> ask[r].op = "wallet")
  <2>1. /\ NewRow(r).id = r /\ NewRow(r).email = ask[r].name
        /\ NewRow(r).wallet # NoOne => NewRow(r).wallet = ask[r].name
        /\ ask[r].op = "wallet" => NewRow(r).wallet = ask[r].name
    BY DEF NewRow
  <2>2. \A u \in users : u.id # r
    BY <1>1 DEF IInv, RowsOK, Past
  <2>3. \A u \in users : NewRow(r).wallet # NoOne => u.wallet # NewRow(r).wallet
    BY <1>5 DEF Clash
  <2>4. \A q \in Req : at[q] \in Past => at'[q] \in Past
    BY <1>1, <1>2, PastStays DEF Others
  <2>5. RowsOK'
    <3>1. \A x, y \in users' : x.id = y.id => x = y
      BY <1>5, <2>1, <2>2 DEF IInv, RowsOK
    <3>2. \A x, y \in users' : x.wallet = y.wallet /\ x.wallet # NoOne => x = y
      BY <1>5, <2>3 DEF IInv, RowsOK
    <3>3. \A x \in users' : x.wallet # NoOne => x.email = x.wallet
      BY <1>5, <2>1 DEF IInv, RowsOK
    <3>4. \A x \in users' : x.id \in Req => at'[x.id] \in Past
      BY <1>5, <2>1, <2>4 DEF IInv, RowsOK, Past
    <3>5. QED
      BY <3>1, <3>2, <3>3, <3>4 DEF RowsOK
  <2>6. WalletFits(r)'
    BY <1>3, <1>5, <2>1 DEF WalletFits
  <2>7. ASSUME NEW s \in Req, s # r PROVE WalletFits(s)'
    <3>1. ask'[s] = ask[s] /\ before'[s] = before[s] /\ at'[s] = at[s] /\ found'[s] = found[s] /\ WalletFits(s)
      BY <1>2, <1>3, <2>7 DEF Others, IInv, WalletOK
    <3>2. r \notin before[s]
      BY <1>1 DEF IInv, AsksOK, Ended
    <3>3. QED
      BY <1>5, <2>1, <3>1, <3>2 DEF WalletFits
  <2>8. QED
    BY <2>5, <2>6, <2>7 DEF WalletOK
<1>6. QED
  <2>1. \/ /\ ~Clash(NewRow(r)) /\ users' = users \cup {NewRow(r)} /\ found'[r] = r
           /\ at'[r] = IF ask[r].op = "wallet" THEN "recording" ELSE "done"
        \/ Clash(NewRow(r)) /\ at'[r] = "failed" /\ users' = users
    BY DEF AddUser, Moves, Finds, IInv, TypeOK
  <2>2. QED
    BY <1>4, <1>5, <2>1

LEMMA RowsStep ==
    ASSUME IInv, NEW r \in Req, Step(r)
    PROVE  RowsOK' /\ WalletOK'
<1>1. CASE AddUser(r)
  BY <1>1, AddUserRows
<1>2. CASE ~AddUser(r)
  <2>1. (Begun(r) \/ Moved(r)) /\ Others(r)
    BY StepFrame
  <2>2. QED
    BY <1>2, <2>1, KeptStep, WalletFitsStep, WalletFrame
<1>3. QED
  BY <1>1, <1>2

-----------------------------------------------------------------------------
(* API keys *)

\* What a request about keys does.
KeyRequest(r) ==
    \/ \E op \in Op, k \in Maker, u \in Maker : WithToken(r, op, k, u) \/ ResolveKey(r, op, k, u)
    \/ CheckUser(r) \/ CreateKey(r) \/ SelectKey(r) \/ CommitRevoke(r) \/ Die(r)

LEMMA KeyRequests ==
    ASSUME IInv, NEW r \in Req, Step(r), ask'[r].op \in {"use", "create", "revoke"}
    PROVE  KeyRequest(r)
<1>0. AskOK(r) /\ ask'[r].op \in {"use", "create", "revoke"}
  BY DEF IInv, AsksOK
<1>1. ASSUME NEW e \in Email \cup Wallet, Register(r, e) PROVE FALSE
  BY <1>1, <1>0 DEF Register, Begins, AskOK, IInv, TypeOK
<1>2. ASSUME NEW e \in Email \cup Wallet, NEW right \in BOOLEAN, Login(r, e, right) PROVE FALSE
  BY <1>2, <1>0 DEF Login, Begins, AskOK, IInv, TypeOK
<1>3. ASSUME NEW w \in Wallet, Challenge(r, w) PROVE FALSE
  BY <1>3, <1>0 DEF Challenge, Begins, AskOK, IInv, TypeOK
<1>4. ASSUME NEW w \in Wallet, NEW signed \in Signable(w), GetNonce(r, w, signed) PROVE FALSE
  BY <1>4, <1>0 DEF GetNonce, Begins, AskOK, IInv, TypeOK
<1>5. ASSUME NEW g \in GoogleAccount, Google(r, g[1], g[2]) PROVE FALSE
  BY <1>5, <1>0 DEF Google, Begins, AskOK, IInv, TypeOK
<1>6. ASSUME NEW op \in Op, NEW k \in Maker, NEW u \in Maker, WithToken(r, op, k, u) PROVE KeyRequest(r)
  BY <1>6 DEF KeyRequest
<1>7. ASSUME NEW op \in Op, NEW k \in Maker, NEW u \in Maker, ResolveKey(r, op, k, u) PROVE KeyRequest(r)
  BY <1>7 DEF KeyRequest
<1>8. ASSUME NEW u \in users, Deactivate(r, u) PROVE FALSE
  BY <1>8, <1>0 DEF Deactivate, Begins, AskOK, IInv, TypeOK
<1>9. ASSUME DeleteNonce(r) PROVE FALSE
  BY <1>9, <1>0 DEF DeleteNonce, Begins, AskOK, IInv, TypeOK
<1>10. ASSUME FindWallet(r) PROVE FALSE
  BY <1>10, <1>0 DEF FindWallet, Begins, AskOK, IInv, TypeOK
<1>11. ASSUME LinkGoogle(r) PROVE FALSE
  BY <1>11, <1>0 DEF LinkGoogle, Begins, AskOK, IInv, TypeOK
<1>12. ASSUME AddUser(r) PROVE FALSE
  BY <1>12, <1>0 DEF AddUser, Begins, AskOK, IInv, TypeOK
<1>13. ASSUME RecordToken(r) PROVE FALSE
  BY <1>13, <1>0 DEF RecordToken, Begins, AskOK, IInv, TypeOK
<1>14. ASSUME CheckUser(r) PROVE KeyRequest(r)
  BY <1>14 DEF KeyRequest
<1>15. ASSUME CreateKey(r) PROVE KeyRequest(r)
  BY <1>15 DEF KeyRequest
<1>16. ASSUME SelectKey(r) PROVE KeyRequest(r)
  BY <1>16 DEF KeyRequest
<1>17. ASSUME CommitRevoke(r) PROVE KeyRequest(r)
  BY <1>17 DEF KeyRequest
<1>18. ASSUME Die(r) PROVE KeyRequest(r)
  BY <1>18 DEF KeyRequest
<1>19. QED
  BY <1>1, <1>2, <1>3, <1>4, <1>5, <1>6, <1>7, <1>8, <1>9, <1>10, <1>11, <1>12, <1>13, <1>14, <1>15, <1>16, <1>17, <1>18
     DEF Step, Continue

LEMMA KeysChange ==
    ASSUME NEW r \in Req, Step(r)
    PROVE  keys' = keys \/ CreateKey(r) \/ CommitRevoke(r)
BY DEF Step, Continue, Register, Login, Challenge, GetNonce, Google, WithToken, ResolveKey, Deactivate, DeleteNonce, FindWallet,
         LinkGoogle, AddUser, RecordToken, CheckUser, CreateKey, SelectKey, CommitRevoke, Die

\* A key once made keeps its owner; a request makes a key of its own name only.
KeyKept(k) ==
    /\ Known(k)' /\ keys'[k].user = keys[k].user
    /\ keys[k].status = "revoked" => keys'[k].status = "revoked"

LEMMA KeyStays ==
    ASSUME IInv, NEW r \in Req, Step(r), NEW k \in Maker
    PROVE  /\ Known(k) => KeyKept(k)
           /\ Known(k)' => Known(k) \/ (k = r /\ CreateKey(r))
           /\ keys'[k].status = "revoked" => keys[k].status = "revoked" \/ (CommitRevoke(r) /\ k = ask[r].name)
<1>1. CASE keys' = keys
  BY <1>1 DEF KeyKept, Known
<1>2. CASE CreateKey(r)
  <2>1. r \in Maker /\ ~Known(r)
    BY <1>2 DEF Maker, CreateKey, IInv, KeysOK
  <2>2. keys'[r].status = "active" /\ (k # r => keys'[k] = keys[k])
    BY <1>2, <2>1 DEF CreateKey, IInv, TypeOK
  <2>3. QED
    BY <1>2, <2>1, <2>2 DEF KeyKept, Known
<1>3. CASE CommitRevoke(r)
  <2>1. ask[r].op = "revoke" /\ ask[r].name \in Maker /\ Known(ask[r].name)
    BY <1>3 DEF CommitRevoke, IInv, AsksOK, AskOK, KeysOK
  <2>2. keys[ask[r].name] \in [status : {"none", "active", "revoked"}, user : Maker]
    BY <2>1 DEF IInv, TypeOK
  <2>3. /\ keys'[ask[r].name].status = "revoked" /\ keys'[ask[r].name].user = keys[ask[r].name].user
        /\ k # ask[r].name => keys'[k] = keys[k]
    BY <1>3, <2>1, <2>2 DEF CommitRevoke, IInv, TypeOK
  <2>4. QED
    BY <1>3, <2>1, <2>3 DEF KeyKept, Known
<1>4. QED
  BY <1>1, <1>2, <1>3, KeysChange

\* The revocations of the other requests are the same before and after.
LEMMA RevokesStays ==
    ASSUME IInv, NEW r \in Req, Step(r), NEW d \in Req, d # r, NEW k \in Maker
    PROVE  Revokes(d, k) <=> Revokes(d, k)'
<1>1. at'[d] = at[d] /\ ask'[d] = ask[d] /\ found'[d] = found[d]
  BY StepFrame DEF Begun, Moved, Others
<1>2. ask[d].op = "revoke" /\ ask[d].name = k /\ at[d] = "done" => Known(k)
  BY DEF IInv, KeysOK
<1>3. Known(k) => keys'[k].user = keys[k].user
  BY KeyStays DEF KeyKept
<1>4. QED
  BY <1>1, <1>2, <1>3 DEF Revokes

\* A request that has ended takes no step.
LEMMA EndedRests ==
    ASSUME IInv, NEW r \in Req, Step(r), NEW d \in Req, at[d] \in Ended
    PROVE  d # r /\ at'[d] = at[d] /\ ask'[d] = ask[d] /\ found'[d] = found[d]
BY StepFrame DEF Begun, Moved, Others, Waiting, Ended

LEMMA OrderStays ==
    ASSUME IInv, NEW r \in Req, Step(r), NEW d \in Req
    PROVE  /\ \A k \in Maker : Revokes(d, k) => Revokes(d, k)'
           /\ \A u : Deactivates(d, u) => Deactivates(d, u)'
<1>1. ASSUME NEW k \in Maker, Revokes(d, k) PROVE Revokes(d, k)'
  <2>1. d # r
    BY <1>1, EndedRests DEF Revokes, Ended
  <2>2. QED
    BY <1>1, <2>1, RevokesStays
<1>2. ASSUME NEW u, Deactivates(d, u) PROVE Deactivates(d, u)'
  <2>1. at[d] = "done"
    BY <1>2 DEF Deactivates, IInv, AsksOK, AskOK
  <2>2. QED
    BY <1>2, <2>1, EndedRests DEF Deactivates, Ended
<1>3. QED
  BY <1>1, <1>2

LEMMA KeysStep ==
    ASSUME IInv, NEW r \in Req, Step(r)
    PROVE  KeysOK'
<1>1. (Begun(r) \/ Moved(r)) /\ Others(r)
  BY StepFrame
<1>2. ASSUME NEW k \in Req, Known(k)' PROVE ask'[k].op = "create" /\ at'[k] = "done"
  <2>1. CASE Known(k)
    <3>1. ask[k].op = "create" /\ at[k] = "done"
      BY <2>1 DEF IInv, KeysOK
    <3>2. QED
      BY <3>1, EndedRests DEF Ended
  <2>2. CASE k = r /\ CreateKey(r)
    BY <2>2 DEF CreateKey, Moves, IInv, TypeOK
  <2>3. QED
    BY <1>2, <2>1, <2>2, KeyStays DEF Maker
<1>3. ASSUME NEW s \in Req, ask'[s].op = "revoke"
      PROVE  /\ at'[s] \in {"revoking", "done"} => Known(ask[s].name)' /\ keys'[ask'[s].name].user = found'[s]
             /\ at'[s] = "done" => keys'[ask'[s].name].status = "revoked"
             /\ at'[s] \in {"revoking", "done"} => ask'[s].name = ask[s].name
  <2>1. ASSUME ask'[s] = ask[s], found'[s] = found[s], at[s] \in {"revoking", "done"},
               at'[s] = "done" /\ at[s] # "done" => CommitRevoke(s) /\ s = r
        PROVE  /\ Known(ask[s].name)' /\ keys'[ask'[s].name].user = found'[s]
               /\ at'[s] = "done" => keys'[ask'[s].name].status = "revoked"
    <3>1. ask[s].name \in Maker /\ Known(ask[s].name) /\ keys[ask[s].name].user = found[s]
      BY <1>3, <2>1 DEF IInv, AsksOK, AskOK, KeysOK
    <3>2. KeyKept(ask[s].name)
      BY <3>1, KeyStays
    <3>3. CASE at[s] = "done"
      BY <1>3, <2>1, <3>1, <3>2, <3>3 DEF KeyKept, IInv, KeysOK
    <3>4. CASE at'[s] = "done" /\ at[s] # "done"
      <4>1. keys' = [keys EXCEPT ![ask[s].name].status = "revoked"]
        BY <2>1, <3>4 DEF CommitRevoke
      <4>2. keys'[ask[s].name].status = "revoked"
        BY <3>1, <4>1 DEF IInv, TypeOK
      <4>3. QED
        BY <2>1, <3>1, <3>2, <4>2 DEF KeyKept
    <3>5. QED
      BY <2>1, <3>1, <3>2, <3>3, <3>4 DEF KeyKept
  <2>2. CASE s # r
    <3>1. ask'[s] = ask[s] /\ found'[s] = found[s] /\ at'[s] = at[s]
      BY <1>1, <2>2 DEF Begun, Moved, Others
    <3>2. QED
      BY <2>1, <3>1
  <2>3. CASE s = r
    <3>1. KeyRequest(r)
      BY <1>3, <2>3, KeyRequests
    <3>2. ASSUME NEW op \in Op, NEW k \in Maker, NEW u \in Maker, WithToken(r, op, k, u) \/ ResolveKey(r, op, k, u)
          PROVE  at'[r] \notin {"revoking", "done"}
      BY <3>2 DEF WithToken, ResolveKey, Moves, IInv, TypeOK
    <3>3. CASE CheckUser(r)
      <4>1. ask[r].op # "use" /\ at'[r] \in {"acting", "refused"}
        BY <1>3, <2>3, <3>3 DEF CheckUser, Moves, IInv, TypeOK
      <4>2. QED
        BY <2>3, <4>1
    <3>4. CASE SelectKey(r)
      <4>1. /\ ask' = ask /\ found' = found /\ keys' = keys
            /\ \/ at'[r] = "revoking" /\ Known(ask[r].name) /\ keys[ask[r].name].user = found[r]
               \/ at'[r] = "missing"
        BY <3>4 DEF SelectKey, Moves, Known, IInv, TypeOK
      <4>2. QED
        BY <2>3, <4>1 DEF Known
    <3>5. CASE CommitRevoke(r)
      <4>1. at[s] = "revoking" /\ ask'[s] = ask[s] /\ found'[s] = found[s]
        BY <2>3, <3>5 DEF CommitRevoke
      <4>2. QED
        BY <2>1, <2>3, <3>5, <4>1
    <3>6. CASE Die(r)
      BY <2>3, <3>6 DEF Die, Moves, IInv, TypeOK
    <3>7. ~CreateKey(r)
      BY <1>3, <2>3 DEF CreateKey
    <3>8. QED
      BY <2>3, <3>1, <3>2, <3>3, <3>4, <3>5, <3>6, <3>7 DEF KeyRequest
  <2>4. QED
    BY <2>2, <2>3
<1>4. ASSUME NEW k \in Maker, keys'[k].status = "revoked" PROVE \E d \in Req : Revokes(d, k)'
  <2>1. CASE keys[k].status = "revoked"
    BY <2>1, OrderStays DEF IInv, KeysOK
  <2>2. CASE CommitRevoke(r) /\ k = ask[r].name
    <3>1. ask[r].op = "revoke" /\ Known(k) /\ keys[k].user = found[r]
      BY <2>2 DEF CommitRevoke, IInv, AsksOK, AskOK, KeysOK
    <3>2. keys'[k].user = keys[k].user /\ at'[r] = "done" /\ ask' = ask /\ found' = found
      BY <2>2, <3>1, KeyStays DEF KeyKept, CommitRevoke, Moves, IInv, TypeOK
    <3>3. QED
      BY <2>2, <3>1, <3>2 DEF Revokes
  <2>3. QED
    BY <1>4, <2>1, <2>2, KeyStays
<1>5. QED
  BY <1>2, <1>3, <1>4 DEF KeysOK, Known

\* Rows that are rewritten leave who is active alone, unless the operator clears it.
LEMMA ActiveFrame ==
    ASSUME IInv, NEW r \in Req, Step(r), Kept, ask'[r].op = "deactivate" => ask[r].op = "deactivate",
           \A v \in users' : \E u \in users : u.id = v.id /\ u.active = v.active
    PROVE  ActiveOK'
<1>1. ASSUME NEW v \in users', ~v.active PROVE \E d \in Req : Deactivates(d, v.id)'
  <2>1. PICK u \in users : u.id = v.id /\ ~u.active
    BY <1>1
  <2>2. PICK d \in Req : Deactivates(d, u.id)
    BY <2>1 DEF IInv, ActiveOK
  <2>3. QED
    BY <2>1, <2>2, OrderStays
<1>2. ASSUME NEW d \in Req, ask'[d].op = "deactivate" PROVE ask[d].op = "deactivate" /\ ask'[d] = ask[d]
  <2>1. ask[d].op = "deactivate"
    BY <1>2, StepFrame DEF Begun, Moved
  <2>2. QED
    BY <2>1, EndedRests DEF IInv, AsksOK, AskOK, Ended
<1>3. ASSUME NEW d \in Req, ask'[d].op = "deactivate"
      PROVE  /\ \E u \in users' : u.id = ask'[d].name
             /\ \A u \in users' : u.id = ask'[d].name => ~u.active
  <2>1. ask'[d].name = ask[d].name /\ ask[d].op = "deactivate"
    BY <1>2, <1>3
  <2>2. PICK u \in users : u.id = ask[d].name
    BY <2>1 DEF IInv, ActiveOK
  <2>3. \A v \in users : v.id = ask[d].name => ~v.active
    BY <2>1 DEF IInv, ActiveOK
  <2>4. \E v \in users' : v.id = ask[d].name
    BY <2>2 DEF Kept, Same
  <2>5. QED
    BY <2>1, <2>3, <2>4
<1>4. QED
  BY <1>1, <1>3 DEF ActiveOK

\* Only the operator begins a deactivation.
LEMMA DeactivateBegins ==
    ASSUME IInv, NEW r \in Req, Step(r), ask'[r].op = "deactivate"
    PROVE  \E u \in users : Deactivate(r, u)
<1>0. AskOK(r) /\ ask'[r].op = "deactivate"
  BY DEF IInv, AsksOK
<1>1. ASSUME NEW e \in Email \cup Wallet, Register(r, e) PROVE FALSE
  BY <1>1, <1>0 DEF Register, Begins, AskOK, KeyOp, Waiting, IInv, TypeOK
<1>2. ASSUME NEW e \in Email \cup Wallet, NEW right \in BOOLEAN, Login(r, e, right) PROVE FALSE
  BY <1>2, <1>0 DEF Login, Begins, AskOK, KeyOp, Waiting, IInv, TypeOK
<1>3. ASSUME NEW w \in Wallet, Challenge(r, w) PROVE FALSE
  BY <1>3, <1>0 DEF Challenge, Begins, AskOK, KeyOp, Waiting, IInv, TypeOK
<1>4. ASSUME NEW w \in Wallet, NEW signed \in Signable(w), GetNonce(r, w, signed) PROVE FALSE
  BY <1>4, <1>0 DEF GetNonce, Begins, AskOK, KeyOp, Waiting, IInv, TypeOK
<1>5. ASSUME NEW g \in GoogleAccount, Google(r, g[1], g[2]) PROVE FALSE
  BY <1>5, <1>0 DEF Google, Begins, AskOK, KeyOp, Waiting, IInv, TypeOK
<1>6. ASSUME NEW op \in Op, NEW k \in Maker, NEW u \in Maker, WithToken(r, op, k, u) PROVE FALSE
  BY <1>6, <1>0 DEF WithToken, Begins, AskOK, KeyOp, Waiting, IInv, TypeOK
<1>7. ASSUME NEW op \in Op, NEW k \in Maker, NEW u \in Maker, ResolveKey(r, op, k, u) PROVE FALSE
  BY <1>7, <1>0 DEF ResolveKey, Begins, AskOK, KeyOp, Waiting, IInv, TypeOK
<1>8. ASSUME NEW u \in users, Deactivate(r, u) PROVE \E v \in users : Deactivate(r, v)
  BY <1>8
<1>9. ASSUME DeleteNonce(r) PROVE FALSE
  BY <1>9, <1>0 DEF DeleteNonce, Begins, AskOK, KeyOp, Waiting, IInv, TypeOK
<1>10. ASSUME FindWallet(r) PROVE FALSE
  BY <1>10, <1>0 DEF FindWallet, Begins, AskOK, KeyOp, Waiting, IInv, TypeOK
<1>11. ASSUME LinkGoogle(r) PROVE FALSE
  BY <1>11, <1>0 DEF LinkGoogle, Begins, AskOK, KeyOp, Waiting, IInv, TypeOK
<1>12. ASSUME AddUser(r) PROVE FALSE
  BY <1>12, <1>0 DEF AddUser, Begins, AskOK, KeyOp, Waiting, IInv, TypeOK
<1>13. ASSUME RecordToken(r) PROVE FALSE
  BY <1>13, <1>0 DEF RecordToken, Begins, AskOK, KeyOp, Waiting, IInv, TypeOK
<1>14. ASSUME CheckUser(r) PROVE FALSE
  BY <1>14, <1>0 DEF CheckUser, Begins, AskOK, KeyOp, Waiting, IInv, TypeOK
<1>15. ASSUME CreateKey(r) PROVE FALSE
  BY <1>15, <1>0 DEF CreateKey, Begins, AskOK, KeyOp, Waiting, IInv, TypeOK
<1>16. ASSUME SelectKey(r) PROVE FALSE
  BY <1>16, <1>0 DEF SelectKey, Begins, AskOK, KeyOp, Waiting, IInv, TypeOK
<1>17. ASSUME CommitRevoke(r) PROVE FALSE
  BY <1>17, <1>0 DEF CommitRevoke, Begins, AskOK, KeyOp, Waiting, IInv, TypeOK
<1>18. ASSUME Die(r) PROVE FALSE
  BY <1>18, <1>0 DEF Die, Begins, AskOK, KeyOp, Waiting, IInv, TypeOK
<1>19. QED
  BY <1>1, <1>2, <1>3, <1>4, <1>5, <1>6, <1>7, <1>8, <1>9, <1>10, <1>11, <1>12, <1>13, <1>14, <1>15, <1>16, <1>17, <1>18
     DEF Step, Continue

LEMMA ActiveStep ==
    ASSUME IInv, NEW r \in Req, Step(r)
    PROVE  ActiveOK'
<1>1. ASSUME NEW u \in users, Deactivate(r, u) PROVE ActiveOK'
  <2> DEFINE v == [u EXCEPT !.active = FALSE]
  <2>1. /\ v.id = u.id /\ ~v.active /\ u.id \in Maker
        /\ users' = (users \ {u}) \cup {v}
    BY <1>1 DEF Deactivate, IInv, TypeOK, Row
  <2>2. at[r] = "idle" /\ ask'[r].op = "deactivate" /\ ask'[r].name = u.id
    BY <1>1 DEF Deactivate, Begins, IInv, TypeOK
  <2>3. Deactivates(r, u.id)'
    BY <1>1 DEF Deactivate, Begins, Deactivates, IInv, TypeOK
  <2> HIDE DEF v
  <2>4. ASSUME NEW x \in users', ~x.active PROVE \E d \in Req : Deactivates(d, x.id)'
    <3>1. CASE x = v
      BY <2>1, <2>3, <3>1
    <3>2. CASE x \in users
      <4>1. PICK d \in Req : Deactivates(d, x.id)
        BY <2>4, <3>2 DEF IInv, ActiveOK
      <4>2. QED
        BY <4>1, OrderStays
    <3>3. QED
      BY <2>1, <3>1, <3>2
  <2>5. ASSUME NEW d \in Req, ask'[d].op = "deactivate"
        PROVE  /\ \E x \in users' : x.id = ask'[d].name
               /\ \A x \in users' : x.id = ask'[d].name => ~x.active
    <3>1. \A x \in users : x.id = u.id => x = u
      BY DEF IInv, RowsOK
    <3>2. CASE d = r
      BY <2>1, <2>2, <3>1, <3>2
    <3>3. CASE d # r
      <4>1. ask'[d] = ask[d]
        BY <1>1, <3>3 DEF Deactivate, Begins, IInv, TypeOK
      <4>2. PICK x \in users : x.id = ask[d].name
        BY <2>5, <4>1 DEF IInv, ActiveOK
      <4>3. \A y \in users : y.id = ask[d].name => ~y.active
        BY <2>5, <4>1 DEF IInv, ActiveOK
      <4>4. \E y \in users' : y.id = ask[d].name
        BY <2>1, <4>2
      <4>5. QED
        BY <2>1, <4>1, <4>3, <4>4
    <3>4. QED
      BY <3>2, <3>3
  <2>6. QED
    BY <2>4, <2>5 DEF ActiveOK
<1>2. CASE AddUser(r)
  <2>1. at[r] = "adding" /\ ask' = ask
    BY <1>2 DEF AddUser
  <2>2. \/ users' = users
        \/ users' = users \cup {NewRow(r)} /\ NewRow(r).active /\ NewRow(r).id = r
    BY <1>2 DEF AddUser, NewRow
  <2>3. ASSUME NEW x \in users', ~x.active PROVE \E d \in Req : Deactivates(d, x.id)'
    <3>1. x \in users
      BY <2>2, <2>3
    <3>2. PICK d \in Req : Deactivates(d, x.id)
      BY <2>3, <3>1 DEF IInv, ActiveOK
    <3>3. QED
      BY <3>2, OrderStays
  <2>4. ASSUME NEW d \in Req, ask'[d].op = "deactivate"
        PROVE  /\ \E x \in users' : x.id = ask'[d].name
               /\ \A x \in users' : x.id = ask'[d].name => ~x.active
    <3>1. PICK x \in users : x.id = ask[d].name
      BY <2>1, <2>4 DEF IInv, ActiveOK
    <3>2. \A y \in users : y.id = ask[d].name => ~y.active
      BY <2>1, <2>4 DEF IInv, ActiveOK
    <3>3. x.id # r
      BY <2>1, <3>1 DEF IInv, RowsOK, Past
    <3>4. QED
      BY <2>1, <2>2, <3>1, <3>2, <3>3
  <2>5. QED
    BY <2>3, <2>4 DEF ActiveOK
<1>3. CASE ~AddUser(r) /\ ~\E u \in users : Deactivate(r, u)
  <2>1. Kept /\ ask'[r].op # "deactivate"
    BY <1>3, KeptStep, DeactivateBegins
  <2>2. \A v \in users' : \E u \in users : u.id = v.id /\ u.active = v.active
    <3>1. CASE users' = users
      BY <3>1
    <3>2. CASE LinkGoogle(r)
      <4>1. PICK u \in users : \/ users' = users
                               \/ users' = (users \ {u}) \cup {[u EXCEPT !.sub = ask[r].arg]}
        BY <3>2 DEF LinkGoogle, With
      <4>2. LET v == [u EXCEPT !.sub = ask[r].arg] IN v.id = u.id /\ v.active = u.active
        BY DEF IInv, TypeOK, Row
      <4>3. QED
        BY <4>1, <4>2
    <3>3. QED
      BY <1>3, <3>1, <3>2, UsersChange
  <2>3. QED
    BY <2>1, <2>2, ActiveFrame
<1>4. QED
  BY <1>1, <1>2, <1>3

\* What holds of a request r that presents the key k.
KeyFits(r, k) ==
    Presents(r, k) =>
        /\ at[r] = "resolving" => found[r] = keys[k].user /\ \A d \in before[r] : ~Revokes(d, k)
        /\ at[r] \in {"resolving", "acting", "revoking", "done", "missing"} => Known(k)
        /\ at[r] \in {"acting", "revoking", "done", "missing"} =>
              \A d \in before[r] : ~Revokes(d, k) /\ ~Deactivates(d, keys[k].user)
        /\ at[r] = "refused" /\ Known(k) /\ k \in before[r] \cup {Elder} =>
              \E d \in Req : Revokes(d, k) \/ Deactivates(d, keys[k].user)

LEMMA KeyFitsIs == PresentedOK /\ KeyWorksUntilRevoked <=> \A r \in Req, k \in Maker : KeyFits(r, k)
BY DEF PresentedOK, KeyWorksUntilRevoked, KeyFits, Known

\* What was let in, or kept out, stays so.
LEMMA KeyFitsStays ==
    ASSUME IInv, NEW r \in Req, Step(r), NEW s \in Req, NEW k \in Maker,
           ask'[s] = ask[s], before'[s] = before[s], found'[s] = found[s],
           at'[s] = at[s] \/ (at[s] \in {"acting", "revoking"} /\ at'[s] \in {"revoking", "done", "missing"})
    PROVE  KeyFits(s, k)'
<1>1. SUFFICES ASSUME Presents(s, k) PROVE KeyFits(s, k)'
  BY DEF KeyFits, Presents
<1>2. KeyFits(s, k)
  BY KeyFitsIs DEF IInv
<1>3. \A d \in before[s] : /\ d \in Req /\ d # r /\ ask'[d] = ask[d]
                           /\ Revokes(d, k) <=> Revokes(d, k)'
  <2>1. SUFFICES ASSUME NEW d \in before[s] PROVE d \in Req /\ d # r /\ ask'[d] = ask[d] /\ (Revokes(d, k) <=> Revokes(d, k)')
    OBVIOUS
  <2>2. d \in Req /\ at[d] \in Ended
    BY DEF IInv, TypeOK, AsksOK
  <2>3. d # r /\ ask'[d] = ask[d]
    BY <2>2, EndedRests
  <2>4. QED
    BY <2>2, <2>3, RevokesStays
<1>4. /\ Known(k) => Known(k)' /\ keys'[k].user = keys[k].user
      /\ Known(k)' => Known(k) \/ k = r
  BY KeyStays DEF KeyKept
<1>5. k \in before[s] \cup {Elder} => k # r
  BY <1>3, NamesAssumption
<1>6. ASSUME at'[s] = "resolving" PROVE found'[s] = keys'[k].user /\ \A d \in before'[s] : ~Revokes(d, k)'
  BY <1>1, <1>2, <1>3, <1>4, <1>6 DEF KeyFits
<1>7. ASSUME at'[s] \in {"resolving", "acting", "revoking", "done", "missing"} PROVE Known(k)'
  BY <1>1, <1>2, <1>4, <1>7 DEF KeyFits
<1>8. ASSUME at'[s] \in {"acting", "revoking", "done", "missing"}
      PROVE  \A d \in before'[s] : ~Revokes(d, k)' /\ ~Deactivates(d, keys[k].user)'
  <2>1. keys'[k].user = keys[k].user
    BY <1>1, <1>2, <1>4, <1>8 DEF KeyFits
  <2>2. QED
    BY <1>1, <1>2, <1>3, <1>8, <2>1 DEF KeyFits, Deactivates
<1>9. ASSUME at'[s] = "refused", Known(k)', k \in before'[s] \cup {Elder}
      PROVE  \E d \in Req : Revokes(d, k)' \/ Deactivates(d, keys[k].user)'
  <2>1. Known(k) /\ keys'[k].user = keys[k].user /\ at[s] = "refused"
    BY <1>4, <1>5, <1>9
  <2>2. PICK d \in Req : Revokes(d, k) \/ Deactivates(d, keys[k].user)
    BY <1>1, <1>2, <1>9, <2>1 DEF KeyFits
  <2>3. QED
    BY <2>1, <2>2, OrderStays
<1>10. QED
  BY <1>6, <1>7, <1>8, <1>9 DEF KeyFits

LEMMA KeyFitsStep ==
    ASSUME IInv, NEW r \in Req, Step(r), NEW k \in Maker
    PROVE  KeyFits(r, k)'
<1>1. SUFFICES ASSUME Presents(r, k)' PROVE KeyFits(r, k)'
  BY DEF KeyFits
<1>2. KeyRequest(r)
  BY <1>1, KeyRequests DEF Presents
<1>3. KeyFits(r, k)
  BY KeyFitsIs DEF IInv
<1>4. ASSUME NEW op \in Op, NEW n \in Maker, NEW u \in Maker, WithToken(r, op, n, u) PROVE KeyFits(r, k)'
  BY <1>1, <1>4, NamesAssumption DEF WithToken, Begins, Presents, IInv, TypeOK
<1>5. ASSUME NEW op \in Op, NEW n \in Maker, NEW u \in Maker, ResolveKey(r, op, n, u) PROVE KeyFits(r, k)'
  <2>1. u = k /\ keys' = keys /\ before'[r] = {s \in Req : at[s] \in Ended}
    BY <1>1, <1>5 DEF ResolveKey, Begins, Presents, IInv, TypeOK
  <2>2. \A d \in before'[r] : d \in Req /\ (Revokes(d, k) <=> Revokes(d, k)')
    BY <2>1, EndedRests, RevokesStays
  <2>3. CASE keys[k].status = "active"
    <3>1. at'[r] = "resolving" /\ found'[r] = keys[k].user
      BY <1>5, <2>1, <2>3 DEF ResolveKey, Moves, Finds, IInv, TypeOK
    <3>2. ASSUME NEW d \in before'[r], Revokes(d, k) PROVE FALSE
      BY <2>1, <2>3, <3>2 DEF Revokes, IInv, KeysOK
    <3>3. QED
      BY <2>1, <2>2, <2>3, <3>1, <3>2 DEF KeyFits, Known
  <2>4. CASE keys[k].status # "active"
    <3>1. at'[r] = "refused"
      BY <1>5, <2>1, <2>4 DEF ResolveKey, Moves, IInv, TypeOK
    <3>2. ASSUME Known(k) PROVE \E d \in Req : Revokes(d, k)'
      <4>1. keys[k].status = "revoked"
        BY <2>4, <3>2 DEF Known, IInv, TypeOK
      <4>2. PICK d \in Req : Revokes(d, k)
        BY <4>1 DEF IInv, KeysOK
      <4>3. QED
        BY <4>2, OrderStays
    <3>3. QED
      BY <2>1, <3>1, <3>2 DEF KeyFits, Known
  <2>5. QED
    BY <2>3, <2>4
<1>6. CASE CheckUser(r)
  <2>1. at[r] = "resolving" /\ ask' = ask /\ before' = before /\ found' = found /\ keys' = keys
    BY <1>6 DEF CheckUser
  <2>2. Presents(r, k) /\ found[r] = keys[k].user /\ Known(k)
    BY <1>1, <1>3, <2>1 DEF Presents, KeyFits
  <2>3. PICK u \in users : /\ u.id = keys[k].user
                           /\ at'[r] = IF ~u.active THEN "refused" ELSE IF ask[r].op = "use" THEN "done" ELSE "acting"
    BY <1>6, <2>2 DEF CheckUser, With, Moves, IInv, TypeOK
  <2>4. \A d \in before[r] : d \in Req /\ ~Revokes(d, k)'
    <3>1. \A d \in before[r] : d \in Req /\ ~Revokes(d, k)
      BY <1>3, <2>1, <2>2 DEF KeyFits, IInv, TypeOK
    <3>2. \A d \in before[r] : d # r
      BY <2>1 DEF IInv, AsksOK, Ended
    <3>3. QED
      BY <3>1, <3>2, RevokesStays
  <2>5. CASE u.active
    <3>1. \A d \in Req : ~Deactivates(d, keys[k].user)'
      BY <2>1, <2>3, <2>5 DEF IInv, ActiveOK, Deactivates
    <3>2. at'[r] \in {"done", "acting"}
      BY <2>3, <2>5
    <3>3. QED
      BY <2>1, <2>2, <2>4, <3>1, <3>2 DEF KeyFits, Known
  <2>6. CASE ~u.active
    <3>1. PICK d \in Req : Deactivates(d, keys[k].user)
      BY <2>3, <2>6 DEF IInv, ActiveOK
    <3>2. Deactivates(d, keys[k].user)'
      BY <2>1, <3>1 DEF Deactivates
    <3>3. at'[r] = "refused"
      BY <2>3, <2>6
    <3>4. QED
      BY <3>2, <3>3 DEF KeyFits
  <2>7. QED
    BY <2>5, <2>6
<1>7. CASE CreateKey(r) \/ SelectKey(r) \/ CommitRevoke(r)
  <2>1. /\ ask' = ask /\ before' = before /\ found' = found
        /\ at[r] \in {"acting", "revoking"} /\ at'[r] \in {"revoking", "done", "missing"}
    BY <1>7 DEF CreateKey, SelectKey, CommitRevoke, Moves, IInv, TypeOK
  <2>2. QED
    BY <2>1, KeyFitsStays
<1>8. CASE Die(r)
  <2>1. at'[r] = "dead"
    BY <1>8 DEF Die, Moves, IInv, TypeOK
  <2>2. QED
    BY <2>1 DEF KeyFits
<1>9. QED
  BY <1>2, <1>4, <1>5, <1>6, <1>7, <1>8 DEF KeyRequest

LEMMA PresentedStep ==
    ASSUME IInv, NEW r \in Req, Step(r)
    PROVE  PresentedOK' /\ KeyWorksUntilRevoked'
<1>1. ASSUME NEW s \in Req, NEW k \in Maker PROVE KeyFits(s, k)'
  <2>1. CASE s = r
    BY <2>1, KeyFitsStep
  <2>2. CASE s # r
    <3>1. ask'[s] = ask[s] /\ before'[s] = before[s] /\ found'[s] = found[s] /\ at'[s] = at[s]
      BY <2>2, StepFrame DEF Begun, Moved, Others
    <3>2. QED
      BY <3>1, KeyFitsStays
  <2>3. QED
    BY <2>1, <2>2
<1>2. QED
  BY <1>1 DEF PresentedOK, KeyWorksUntilRevoked, KeyFits, Known

-----------------------------------------------------------------------------
(* Every step *)

\* The expiry of a nonce, or no step at all.
LEMMA RestStays ==
    ASSUME IInv, UNCHANGED <<users, keys, ask, at, found, before>>, nonce' \in [Wallet -> Maker \cup {NoOne}]
    PROVE  /\ TypeOK' /\ AsksOK' /\ NonceReuseOverlaps' /\ RowsOK' /\ WalletOK'
           /\ KeysOK' /\ ActiveOK' /\ PresentedOK' /\ KeyWorksUntilRevoked'
<1>1. TypeOK' /\ AsksOK' /\ NonceReuseOverlaps'
  BY DEF IInv, TypeOK, AsksOK, AskOK, NonceReuseOverlaps, SignedIn
<1>2. RowsOK' /\ WalletOK'
  BY DEF IInv, RowsOK, WalletOK, WalletFits
<1>3. KeysOK' /\ ActiveOK'
  BY DEF IInv, KeysOK, Known, ActiveOK, Revokes, Deactivates
<1>4. PresentedOK' /\ KeyWorksUntilRevoked'
  BY DEF IInv, PresentedOK, KeyWorksUntilRevoked, Presents, Known, Revokes, Deactivates
<1>5. QED
  BY <1>1, <1>2, <1>3, <1>4

LEMMA StepInv == IInv /\ [Next]_vars => IInv'
<1> SUFFICES ASSUME IInv, [Next]_vars PROVE IInv'
  OBVIOUS
<1>1. ASSUME NEW r \in Req, Step(r) PROVE IInv'
  BY <1>1, TypeStep, AsksStep, NonceStep, ReuseStep, RowsStep, KeysStep, ActiveStep, PresentedStep DEF IInv
<1>2. ASSUME NEW w \in Wallet, Expire(w) PROVE IInv'
  <2>1. UNCHANGED <<users, keys, ask, at, found, before>> /\ nonce' \in [Wallet -> Maker \cup {NoOne}]
    BY <1>2 DEF Expire, IInv, TypeOK
  <2>2. NonceOK'
    BY <1>2, ExpireStep
  <2>3. QED
    BY <2>1, <2>2, RestStays DEF IInv
<1>3. CASE UNCHANGED vars
  <2>1. UNCHANGED <<users, keys, ask, at, found, before>> /\ nonce' = nonce
    BY <1>3 DEF vars
  <2>2. NonceOK'
    BY <2>1 DEF IInv, NonceOK, NonceFits, ChallengeOf
  <2>3. nonce' \in [Wallet -> Maker \cup {NoOne}]
    BY <2>1 DEF IInv, TypeOK
  <2>4. QED
    BY <2>1, <2>2, <2>3, RestStays DEF IInv
<1>4. QED
  BY <1>1, <1>2, <1>3, NextIs

-----------------------------------------------------------------------------
(* Theorems *)

\* The strengthening that every step of every request, and every expiry, preserves.
THEOREM Inductive == Spec => []IInv
BY InitInv, StepInv, PTL DEF Spec

\* The rows, nonces and keys keep their shape, whatever requests interleave.
THEOREM TypeCorrect == Spec => []TypeOK
<1>1. IInv => TypeOK
  BY DEF IInv
<1>2. QED
  BY <1>1, Inductive, PTL

\* One wallet signature signs in twice only if the two requests overlapped, for any number of
\* requests (GET and DEL of the nonce at service.py:126 and :139).
THEOREM NonceReuse == Spec => []NonceReuseOverlaps
<1>1. IInv => NonceReuseOverlaps
  BY DEF IInv
<1>2. QED
  BY <1>1, Inductive, PTL

\* A proven wallet signs in to its one account, whatever sign-ins, registrations and Google
\* links interleave; failing after the proof takes a row that stands in the way (service.py:141).
THEOREM WalletAccount == Spec => []WalletGetsItsAccount
<1>1. IInv => WalletGetsItsAccount
  <2> SUFFICES ASSUME IInv, NEW r \in Req, ask[r].op = "wallet"
               PROVE  /\ at[r] = "done" => \E u \in users : u.id = found[r] /\ With("wallet", ask[r].name) = {u}
                      /\ at[r] = "failed" => \E u \in users : /\ u.email = ask[r].name
                                                              /\ u.wallet = ask[r].name => u.id \notin before[r]
    BY DEF WalletGetsItsAccount
  <2>1. WalletFits(r) /\ ask[r].name # NoOne
    BY NamesAssumption DEF IInv, WalletOK, AsksOK, AskOK
  <2>2. ASSUME at[r] = "done" PROVE \E u \in users : u.id = found[r] /\ With("wallet", ask[r].name) = {u}
    <3>1. PICK u \in users : u.id = found[r] /\ u.wallet = ask[r].name
      BY <2>1, <2>2 DEF WalletFits
    <3>2. With("wallet", ask[r].name) = {u}
      BY <2>1, <3>1 DEF With, IInv, RowsOK, TypeOK, Row
    <3>3. QED
      BY <3>1, <3>2
  <2>3. QED
    BY <2>1, <2>2 DEF WalletFits
<1>2. QED
  BY <1>1, Inductive, PTL

\* An API key works exactly until its revocation or the deactivation of its user, for any number
\* of keys and of requests that create, use and revoke them (deps.py:31-37, service.py delete_api_key).
THEOREM Keys == Spec => []KeyWorksUntilRevoked
<1>1. IInv => KeyWorksUntilRevoked
  BY DEF IInv
<1>2. QED
  BY <1>1, Inductive, PTL

\* A live challenge is deleted only by a request accepted with it, or by one that overlapped its
\* making: a wrong signature never uses it up (verify_wallet_signature).
THEOREM Challenges == Spec => ChallengeSurvives
<1> DEFINE Survives == \A w \in Wallet : nonce[w] # NoOne /\ nonce'[w] = NoOne /\ at' # at =>
                           \E r \in Req : /\ at[r] = "consuming" /\ ask[r].name = w
                                          /\ (ask[r].arg = nonce[w] \/ nonce[w] \notin before[r])
<1>1. ASSUME IInv, [Next]_vars PROVE Survives
  <2> SUFFICES ASSUME NEW w \in Wallet, nonce[w] # NoOne, nonce'[w] = NoOne, at' # at
               PROVE  \E r \in Req : /\ at[r] = "consuming" /\ ask[r].name = w
                                     /\ (ask[r].arg = nonce[w] \/ nonce[w] \notin before[r])
    OBVIOUS
  <2>1. PICK r \in Req : Step(r)
    BY <1>1, NextIs DEF vars, Expire
  <2>2. CASE \E v \in Wallet : Challenge(r, v)
    BY <1>1, <2>2, NamesAssumption DEF Challenge, IInv, TypeOK, Maker
  <2>3. CASE DeleteNonce(r)
    <3>1. at[r] = "consuming" /\ ask[r].name = w
      BY <1>1, <2>3 DEF DeleteNonce, IInv, TypeOK
    <3>2. NonceFits(r) /\ ask[r].op = "wallet"
      BY <1>1, <3>1 DEF IInv, NonceOK, AsksOK, AskOK
    <3>3. QED
      BY <3>1, <3>2 DEF NonceFits
  <2>4. QED
    BY <2>1, <2>2, <2>3, NonceChanges
<1>2. IInv /\ [Next]_vars => [Survives]_vars
  BY <1>1
<1>3. QED
  BY <1>2, Inductive, PTL DEF Spec, ChallengeSurvives
=============================================================================
