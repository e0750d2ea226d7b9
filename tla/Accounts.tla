------------------------------- MODULE Accounts -------------------------------
(***************************************************************************)
(* Users, sign-ins and API keys:                                           *)
(*   api/auth/service.py, api/auth/router.py   register, login, wallet     *)
(*                       challenge and verify, Google sign-in, API keys    *)
(*   api/deps.py         who an API key stands for                         *)
(*                                                                         *)
(* Every request is a coroutine with a database session of its own; the    *)
(* requests of all workers interleave at the awaits, each an action here.  *)
(* Rows are checked for and then inserted in two steps; the UNIQUE columns *)
(* email, wallet_address and google_sub have the last word.  Nonces live   *)
(* in Redis for five minutes.  A row, a nonce and a key are named after    *)
(* the request that made them.  register and login have no route yet: only *)
(* tests call them.                                                        *)
(***************************************************************************)
EXTENDS Naturals

CONSTANTS
    Req,            \* requests, each made once
    Elder,          \* names an account and an API key from before the behaviour
    Wallet,         \* addresses, lower-cased; w as an email stands for w@wallet.local
    Email,          \* other email addresses
    GoogleAccount,  \* pairs of an email and a google_sub Google may vouch for
    NoOne           \* none of these

Maker == Req \cup {Elder}
Sub == {g[2] : g \in GoogleAccount}

ASSUME NamesAssumption ==
    /\ Wallet \cap Email = {}
    /\ \A g \in GoogleAccount : g[1] \in Email \cup Wallet
    /\ Elder \notin Req
    /\ NoOne \notin Maker \cup Wallet \cup Email \cup Sub

VARIABLES
    users,   \* the rows of users
    nonce,   \* nonce[w]: the live challenge of wallet w in Redis
    keys,    \* keys[k]: the row of API key k
    ask,     \* ask[r]: what request r is about
    at,      \* at[r]: what r awaits, or how it ended
    found,   \* found[r]: the user r has found or made
    before   \* history: requests that had ended when r began

vars == <<users, nonce, keys, ask, at, found, before>>

Op == {"register", "login", "challenge", "wallet", "google",
       "use", "create", "revoke", "deactivate"}
SignIn == {"login", "wallet", "google"}
Row == [id : Maker, email : Email \cup Wallet, wallet : Wallet \cup {NoOne},
        sub : Sub \cup {NoOne}, password : BOOLEAN, active : BOOLEAN]
Waiting == {"consuming", "seeking", "adding", "linking", "recording",
            "resolving", "acting", "revoking"}
\* refused: 401 and 409; missing: 404; failed: 500; dead: cut off.
Ended == {"done", "refused", "missing", "failed", "dead"}

TypeOK ==
    /\ users \subseteq Row
    /\ nonce \in [Wallet -> Maker \cup {NoOne}]
    /\ keys \in [Maker -> [status : {"none", "active", "revoked"}, user : Maker]]
    /\ ask \in [Req -> [op : Op, name : Email \cup Wallet \cup Maker,
                        arg : Maker \cup Sub \cup {NoOne}]]
    /\ at \in [Req -> Waiting \cup Ended \cup {"idle"}]
    /\ found \in [Req -> Maker \cup {NoOne}]
    /\ before \in [Req -> SUBSET Req]

ElderRow(e) == [id |-> Elder, email |-> e, wallet |-> NoOne, sub |-> NoOne,
                password |-> TRUE, active |-> TRUE]

\* An empty database, or one with a user and an API key.
Init ==
    /\ users \in {{}} \cup {{ElderRow(e)} : e \in Email}
    /\ keys = [k \in Maker |-> [status |-> IF k = Elder /\ users # {} THEN "active" ELSE "none",
                                user |-> Elder]]
    /\ nonce = [w \in Wallet |-> NoOne]
    /\ ask = [r \in Req |-> [op |-> "use", name |-> Elder, arg |-> NoOne]]
    /\ at = [r \in Req |-> "idle"]
    /\ found = [r \in Req |-> NoOne]
    /\ before = [r \in Req |-> {}]
-----------------------------------------------------------------------------
Begins(r, op, name, arg) ==
    /\ at[r] = "idle"
    /\ ask' = [ask EXCEPT ![r] = [op |-> op, name |-> name, arg |-> arg]]
    /\ before' = [before EXCEPT ![r] = {s \in Req : at[s] \in Ended}]

Moves(r, to) == at' = [at EXCEPT ![r] = to]
Finds(r, u) == found' = [found EXCEPT ![r] = u]

With(field, value) == {u \in users : u[field] = value}
-----------------------------------------------------------------------------
\* Sign-in.

Register(r, email) ==
    /\ Begins(r, "register", email, NoOne)
    /\ Moves(r, IF With("email", email) = {} THEN "adding" ELSE "refused")
    /\ UNCHANGED <<users, nonce, keys, found>>

\* bcrypt.checkpw raises on the empty hash of a user without a password.
Login(r, email, right) ==
    /\ Begins(r, "login", email, NoOne)
    /\ \/ /\ With("email", email) = {} /\ Moves(r, "refused") /\ UNCHANGED found
       \/ \E u \in With("email", email) :
             /\ Finds(r, u.id)
             /\ Moves(r, IF ~u.password THEN "failed" ELSE IF right THEN "recording" ELSE "refused")
    /\ UNCHANGED <<users, nonce, keys>>

\* create_wallet_challenge
Challenge(r, w) ==
    /\ Begins(r, "challenge", w, NoOne)
    /\ nonce' = [nonce EXCEPT ![w] = r]
    /\ Moves(r, "done")
    /\ UNCHANGED <<users, keys, found>>

Expire(w) ==
    /\ nonce[w] # NoOne
    /\ nonce' = [nonce EXCEPT ![w] = NoOne]
    /\ UNCHANGED <<users, keys, ask, at, found, before>>

\* What the owner of w may have signed; NoOne stands for any other signature.
Signable(w) == {NoOne} \cup {c \in Req : at[c] = "done" /\ ask[c].op = "challenge" /\ ask[c].name = w}

\* Mutant: a wrong signature uses up the challenge.
GetNonceBurns(r, w, signed) ==
    /\ Begins(r, "wallet", w, signed)
    /\ Moves(r, IF nonce[w] # NoOne /\ signed = nonce[w] THEN "consuming" ELSE "refused")
    /\ nonce' = IF signed = nonce[w] THEN nonce ELSE [nonce EXCEPT ![w] = NoOne]
    /\ UNCHANGED <<users, keys, found>>

\* verify_wallet_signature reads the nonce and recovers the signer over it.
GetNonce(r, w, signed) ==
    /\ Begins(r, "wallet", w, signed)
    /\ Moves(r, IF nonce[w] # NoOne /\ signed = nonce[w] THEN "consuming" ELSE "refused")
    /\ UNCHANGED <<users, nonce, keys, found>>

\* Mutant: the nonce is left to its expiry.
DeleteNonceLater(r) ==
    /\ at[r] = "consuming"
    /\ Moves(r, "seeking")
    /\ UNCHANGED <<users, nonce, keys, ask, found, before>>

\* DEL takes whatever nonce is there by now.
DeleteNonce(r) ==
    /\ at[r] = "consuming"
    /\ nonce' = [nonce EXCEPT ![ask[r].name] = NoOne]
    /\ Moves(r, "seeking")
    /\ UNCHANGED <<users, keys, ask, found, before>>

FindWallet(r) ==
    /\ at[r] = "seeking"
    /\ \/ With("wallet", ask[r].name) = {} /\ Moves(r, "adding") /\ UNCHANGED found
       \/ \E u \in With("wallet", ask[r].name) : Finds(r, u.id) /\ Moves(r, "recording")
    /\ UNCHANGED <<users, nonce, keys, ask, before>>

\* google_auth finds the user of a verified email and links the account if
\* the row has none; names and pictures are left out.
Google(r, email, sub) ==
    /\ Begins(r, "google", email, sub)
    /\ \/ With("email", email) = {} /\ Moves(r, "adding") /\ UNCHANGED found
       \/ \E u \in With("email", email) :
             Finds(r, u.id) /\ Moves(r, IF u.sub = NoOne THEN "linking" ELSE "done")
    /\ UNCHANGED <<users, nonce, keys>>

LinkGoogle(r) ==
    /\ at[r] = "linking"
    /\ \E u \in With("id", found[r]) :
          \/ /\ With("sub", ask[r].arg) \subseteq {u}
             /\ users' = (users \ {u}) \cup {[u EXCEPT !.sub = ask[r].arg]}
             /\ Moves(r, "done")
          \/ /\ ~(With("sub", ask[r].arg) \subseteq {u})
             /\ Moves(r, "failed")
             /\ UNCHANGED users
    /\ UNCHANGED <<nonce, keys, ask, found, before>>

NewRow(r) ==
    LET op == ask[r].op IN
    [id |-> r, email |-> ask[r].name, active |-> TRUE, password |-> op = "register",
     wallet |-> IF op = "wallet" THEN ask[r].name ELSE NoOne,
     sub |-> IF op = "google" THEN ask[r].arg ELSE NoOne]

\* Mutant: only google_sub is UNIQUE.
ClashOnSub(row) == \E u \in users : u.sub = row.sub /\ row.sub # NoOne

Clash(row) ==
    \E u \in users : \/ u.email = row.email
                     \/ u.wallet = row.wallet /\ row.wallet # NoOne
                     \/ u.sub = row.sub /\ row.sub # NoOne

\* INSERT and commit: an IntegrityError ends the request.
AddUser(r) ==
    /\ at[r] = "adding"
    /\ \/ /\ ~Clash(NewRow(r))
          /\ users' = users \cup {NewRow(r)}
          /\ Finds(r, r)
          /\ Moves(r, IF ask[r].op = "wallet" THEN "recording" ELSE "done")
       \/ /\ Clash(NewRow(r))
          /\ Moves(r, "failed")
          /\ UNCHANGED <<users, found>>
    /\ UNCHANGED <<nonce, keys, ask, before>>

\* The row of the refresh token is committed, the tokens are the answer.
RecordToken(r) ==
    /\ at[r] = "recording"
    /\ Moves(r, "done")
    /\ UNCHANGED <<users, nonce, keys, ask, found, before>>
-----------------------------------------------------------------------------
\* API keys.  A request for them carries an access token or an API key.

SignedIn(r) == ask[r].op \in SignIn /\ at[r] = "done"
HasToken(u) == (u = Elder /\ With("id", u) # {}) \/ \E r \in Req : SignedIn(r) /\ found[r] = u

\* Only a revocation is about a key k; Elder stands in elsewhere.
KeyOp(op, k) == op = "revoke" \/ (op \in {"use", "create"} /\ k = Elder)

\* A key that nobody made is Elder's, in the database without one.
Made(k) == k = Elder \/ keys[k].status # "none"

\* decode_access_token asks no database: a deactivated user still passes.
WithToken(r, op, k, u) ==
    /\ KeyOp(op, k) /\ op # "use" /\ Made(k)
    /\ HasToken(u)
    /\ Begins(r, op, k, NoOne)
    /\ Finds(r, u)
    /\ Moves(r, "acting")
    /\ UNCHANGED <<users, nonce, keys>>

\* resolve_api_key
ResolveKey(r, op, k, presented) ==
    /\ KeyOp(op, k) /\ Made(k) /\ Made(presented)
    /\ Begins(r, op, k, presented)
    /\ IF keys[presented].status = "active"
       THEN Finds(r, keys[presented].user) /\ Moves(r, "resolving")
       ELSE Moves(r, "refused") /\ UNCHANGED found
    /\ UNCHANGED <<users, nonce, keys>>

\* get_current_user_from_api_key reads the user after the key.
CheckUser(r) ==
    /\ at[r] = "resolving"
    /\ \E u \in With("id", found[r]) :
          Moves(r, IF ~u.active THEN "refused" ELSE IF ask[r].op = "use" THEN "done" ELSE "acting")
    /\ UNCHANGED <<users, nonce, keys, ask, found, before>>

CreateKey(r) ==
    /\ at[r] = "acting" /\ ask[r].op = "create"
    /\ keys' = [keys EXCEPT ![r] = [status |-> "active", user |-> found[r]]]
    /\ Moves(r, "done")
    /\ UNCHANGED <<users, nonce, ask, found, before>>

\* Mutant: the key of another user is found as well.
SelectForeignKey(r) ==
    LET k == ask[r].name IN
    /\ at[r] = "acting" /\ ask[r].op = "revoke"
    /\ Moves(r, IF keys[k].status # "none" THEN "revoking" ELSE "missing")
    /\ UNCHANGED <<users, nonce, keys, ask, found, before>>

\* delete_api_key looks for a key of this user, revoked or not.
SelectKey(r) ==
    LET k == ask[r].name IN
    /\ at[r] = "acting" /\ ask[r].op = "revoke"
    /\ Moves(r, IF keys[k].status # "none" /\ keys[k].user = found[r] THEN "revoking" ELSE "missing")
    /\ UNCHANGED <<users, nonce, keys, ask, found, before>>

CommitRevoke(r) ==
    /\ at[r] = "revoking"
    /\ keys' = [keys EXCEPT ![ask[r].name].status = "revoked"]
    /\ Moves(r, "done")
    /\ UNCHANGED <<users, nonce, ask, found, before>>

\* is_active is only ever cleared in the database, by hand.
Deactivate(r, u) ==
    /\ Begins(r, "deactivate", u.id, NoOne)
    /\ users' = (users \ {u}) \cup {[u EXCEPT !.active = FALSE]}
    /\ Moves(r, "done")
    /\ UNCHANGED <<nonce, keys, found>>

\* The process dies, the client hangs up, or a command of r raises.
Die(r) ==
    /\ at[r] \in Waiting
    /\ Moves(r, "dead")
    /\ UNCHANGED <<users, nonce, keys, ask, found, before>>
-----------------------------------------------------------------------------
Continue(r) ==
    \/ DeleteNonce(r) \/ FindWallet(r) \/ LinkGoogle(r) \/ AddUser(r) \/ RecordToken(r)
    \/ CheckUser(r) \/ CreateKey(r) \/ SelectKey(r) \/ CommitRevoke(r)

Next ==
    \/ \E r \in Req :
          \/ \E e \in Email \cup Wallet, right \in BOOLEAN : Register(r, e) \/ Login(r, e, right)
          \/ \E w \in Wallet : Challenge(r, w) \/ \E signed \in Signable(w) : GetNonce(r, w, signed)
          \/ \E g \in GoogleAccount : Google(r, g[1], g[2])
          \/ \E op \in Op, k \in Maker, u \in Maker : WithToken(r, op, k, u) \/ ResolveKey(r, op, k, u)
          \/ \E u \in users : Deactivate(r, u)
          \/ Continue(r) \/ Die(r)
    \/ \E w \in Wallet : Expire(w)

Spec == Init /\ [][Next]_vars
-----------------------------------------------------------------------------
(* A nonce signs in twice only if the two requests overlapped: GET at
   service.py:126 and DEL at :139 are two commands, so the comment "Nonce is
   single-use" holds for requests one after the other only. *)
NonceReuseOverlaps ==
    \A r, s \in Req :
        /\ r # s /\ ask[r].op = "wallet" /\ ask[s].op = "wallet" /\ ask[r].arg = ask[s].arg
        /\ at[r] \notin {"idle", "refused"} /\ SignedIn(s)
        => s \notin before[r]

(* A live challenge goes only by expiry, or deleted by a request that was
   accepted with it, or by one that overlapped the challenge and deletes it
   for an older nonce (service.py:139). *)
ChallengeSurvives ==
    [][\A w \in Wallet : nonce[w] # NoOne /\ nonce'[w] = NoOne /\ at' # at =>
           \E r \in Req : /\ at[r] = "consuming" /\ ask[r].name = w
                          /\ (ask[r].arg = nonce[w] \/ nonce[w] \notin before[r])]_vars

(* Who proves a wallet gets the one account of that wallet.  A wallet sign-in
   fails after its proof only if a request that overlapped it made the account,
   or if someone registered the mail address the account would be given
   (service.py:141-151), and then it fails for good. *)
WalletGetsItsAccount ==
    \A r \in Req : ask[r].op = "wallet" =>
        /\ at[r] = "done" =>
              \E u \in users : u.id = found[r] /\ With("wallet", ask[r].name) = {u}
        /\ at[r] = "failed" =>
              \E u \in users : /\ u.email = ask[r].name
                               /\ u.wallet = ask[r].name => u.id \notin before[r]

Revokes(d, k) == ask[d].op = "revoke" /\ ask[d].name = k /\ found[d] = keys[k].user /\ at[d] = "done"
Deactivates(d, u) == ask[d].op = "deactivate" /\ ask[d].name = u
Presents(r, k) == ask[r].op \in {"use", "create", "revoke"} /\ ask[r].arg = k

(* An API key stops at its revocation or the deactivation of its user: no
   request that began later is let in (deps.py:31-37, two reads).  And it does
   not stop before: a key whose creation was answered is refused only if its
   owner revoked it or lost the account before the refusal. *)
KeyWorksUntilRevoked ==
    \A r \in Req, k \in Maker : Presents(r, k) =>
        /\ at[r] \in {"acting", "revoking", "done", "missing"} =>
              \A d \in before[r] : ~Revokes(d, k) /\ ~Deactivates(d, keys[k].user)
        /\ at[r] = "refused" /\ keys[k].status # "none" /\ k \in before[r] \cup {Elder} =>
              \E d \in Req : Revokes(d, k) \/ Deactivates(d, keys[k].user)
=============================================================================
