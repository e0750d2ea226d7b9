------------------------ MODULE CrooCatalogueProofs -------------------------
(***************************************************************************)
(* Proofs about CrooCatalogue for any operators, situations and release:   *)
(* what a run has mapped so far is always the beginning of the catalogue,  *)
(* and a run in which nothing went wrong accounts for every active service *)
(* of its agent.                                                           *)
(***************************************************************************)
EXTENDS CrooCatalogue, FiniteSetTheorems, TLAPS

\* Functions from some service ids to slugs.
Maps == UNION {[D -> STRING] : D \in SUBSET Nat}
Entry == [agent : Nat, slug : STRING, status : {"draft", "active", "inactive"}]
RunType == [pc : {"idle", "list", "setup", "work", "activate"}, agent : Nat, todo : SUBSET Nat,
            map : Maps, id : Nat]

\* The marketplace: services of agents that exist.
ListingOK(l, a) == l \in Seq(Entry) /\ \A i \in 1..Len(l) : l[i].agent \in 1..a

\* A run's map holds the first services of the catalogue, as they are listed for its agent.
RunOK(r, l, a) ==
    /\ r \in RunType /\ r.agent \in 0..a /\ (r.pc \in {"list", "work", "activate"} => r.agent # 0)
    /\ r.todo \subseteq 1..Len(l) /\ DOMAIN r.map \subseteq 1..Len(l)
    /\ IsFiniteSet(DOMAIN r.map)
    /\ \A i \in DOMAIN r.map : l[i].agent = r.agent /\ l[i].slug = r.map[i]
    /\ \A n \in 1..Cardinality(DOMAIN r.map) : \E i \in DOMAIN r.map : r.map[i] = Offered[n]
    /\ r.pc = "activate" => r.id \in DOMAIN r.map /\ r.todo = {}

\* A run in which nothing went wrong has mapped, or is about to deactivate, what is active.
CleanOK(o) ==
    clean[o] /\ run[o].pc \in {"work", "activate"} =>
        Active(run[o].agent) \subseteq run[o].todo \cup DOMAIN run[o].map

IInv ==
    /\ agents \in Nat /\ runs \in Nat
    /\ ListingOK(listing, agents)
    /\ file \in [agent : Nat, services : Maps] /\ file.agent \in 0..agents
    /\ (file # NoFile => file.agent # 0) /\ DOMAIN file.services \subseteq Ids
    /\ run \in [Operator -> RunType] /\ \A o \in Operator : RunOK(run[o], listing, agents)
    /\ provider.agent \in 0..agents /\ DOMAIN provider.map \subseteq Ids
    /\ clean \in [Operator -> BOOLEAN] /\ \A o \in Operator : CleanOK(o)
    /\ settled \in BOOLEAN /\ SettledCatalogueIsWhole

-----------------------------------------------------------------------------
(* Lemmas about maps and listings *)

LEMMA EmptyMap == <<>> \in Maps /\ DOMAIN <<>> = {}
<1>1. <<>> \in [{} -> STRING]
  OBVIOUS
<1>2. QED
  BY <1>1 DEF Maps

LEMMA SeqMonotone == ASSUME NEW S, NEW T, S \subseteq T, NEW s \in Seq(S) PROVE s \in Seq(T)
OBVIOUS

LEMMA SeqElements == ASSUME NEW S, NEW s \in Seq(S) PROVE Len(s) \in Nat /\ \A i \in 1..Len(s) : s[i] \in S
OBVIOUS

LEMMA IdleOK == ASSUME NEW l, NEW a \in Nat PROVE RunOK(Idle, l, a)
<1>1. Idle \in RunType
  BY EmptyMap DEF Idle, RunType
<1>2. DOMAIN Idle.map = {} /\ Idle.agent = 0 /\ Idle.todo = {} /\ Idle.pc = "idle"
  BY EmptyMap DEF Idle
<1>3. IsFiniteSet({}) /\ Cardinality({}) = 0
  BY FS_EmptySet
<1>4. QED
  BY <1>1, <1>2, <1>3 DEF RunOK

\* A map with one more service.
LEMMA WithIs ==
    \A m \in Maps, id \in Nat, slug \in STRING :
        /\ With(m, id, slug) \in Maps
        /\ DOMAIN With(m, id, slug) = DOMAIN m \cup {id}
        /\ With(m, id, slug)[id] = slug
        /\ \A i \in DOMAIN m : i # id => With(m, id, slug)[i] = m[i]
<1> TAKE m \in Maps, id \in Nat, slug \in STRING
<1>1. PICK D \in SUBSET Nat : m \in [D -> STRING]
  BY DEF Maps
<1>2. With(m, id, slug) \in [D \cup {id} -> STRING]
  BY <1>1 DEF With
<1>3. With(m, id, slug) \in Maps
  BY <1>2 DEF Maps
<1>4. QED
  BY <1>3 DEF With

LEMMA FirstMap ==
    ASSUME NEW id \in Nat, NEW slug \in STRING
    PROVE  /\ With(<<>>, id, slug) \in Maps
           /\ DOMAIN With(<<>>, id, slug) = {id}
           /\ With(<<>>, id, slug)[id] = slug
<1>1. PICK m : m = <<>>
  OBVIOUS
<1>2. m \in Maps /\ DOMAIN m = {}
  BY <1>1, EmptyMap
<1>3. With(m, id, slug) \in Maps /\ DOMAIN With(m, id, slug) = DOMAIN m \cup {id} /\ With(m, id, slug)[id] = slug
  BY <1>2, WithIs
<1>4. With(m, id, slug) \in Maps /\ DOMAIN With(m, id, slug) = {id} /\ With(m, id, slug)[id] = slug
  BY <1>2, <1>3
<1>5. QED
  BY <1>1, <1>4

\* The marketplace l holds the present one and, after it, the entry e.
Grown(l, e, b) ==
    /\ ListingOK(l, b) /\ Len(l) = NewId /\ NewId = Len(listing) + 1 /\ NewId \in Nat
    /\ l[NewId] = e /\ \A i \in 1..Len(listing) : l[i] = listing[i]

\* A service is added to the marketplace.
LEMMA ListedIs ==
    ASSUME NEW a \in Nat, ListingOK(listing, a), NEW b \in Nat, a <= b, NEW e \in Entry, e.agent \in 1..b
    PROVE  Grown(Append(listing, e), e, b)
<1> DEFINE l == Append(listing, e)
<1>1. listing \in Seq(Entry) /\ Len(listing) \in Nat
  BY DEF ListingOK
<1>2. l \in Seq(Entry) /\ Len(l) = Len(listing) + 1 /\ l[Len(listing) + 1] = e
      /\ \A i \in 1..Len(listing) : l[i] = listing[i]
  BY <1>1
<1>3. \A i \in 1..Len(l) : l[i].agent \in 1..b
  <2>1. \A i \in 1..Len(listing) : l[i].agent \in 1..b
    BY <1>1, <1>2 DEF ListingOK
  <2>2. QED
    BY <1>1, <1>2, <2>1
<1>4. QED
  BY <1>1, <1>2, <1>3 DEF ListingOK, NewId, Grown

\* What is listed stays listed for its agent under its slug.
Keeps(l, k) == Len(l) <= Len(k) /\ \A i \in 1..Len(l) : k[i].agent = l[i].agent /\ k[i].slug = l[i].slug

\* A run stays right when the marketplace grows.
LEMMA RunStays ==
    ASSUME NEW r, NEW l \in Seq(Entry), NEW k \in Seq(Entry), NEW a \in Nat, NEW b \in Nat,
           RunOK(r, l, a), Keeps(l, k), a <= b
    PROVE  RunOK(r, k, b)
<1>1. Len(l) \in Nat /\ Len(k) \in Nat /\ 1..Len(l) \subseteq 1..Len(k) /\ 0..a \subseteq 0..b
  BY DEF Keeps
<1>2. \A i \in DOMAIN r.map : k[i].agent = l[i].agent /\ k[i].slug = l[i].slug
  BY DEF RunOK, Keeps
<1>3. QED
  BY <1>1, <1>2 DEF RunOK

\* A change of one service's status.
LEMMA StatusChange ==
    ASSUME NEW a \in Nat, ListingOK(listing, a), NEW i \in 1..Len(listing), NEW status \in {"active", "inactive"}
    PROVE  LET l == [listing EXCEPT ![i].status = status]
           IN  /\ ListingOK(l, a) /\ Keeps(listing, l) /\ Len(l) = Len(listing)
               /\ l[i].status = status /\ \A j \in 1..Len(listing) : j # i => l[j] = listing[j]
<1> DEFINE l == [listing EXCEPT ![i].status = status]
<1>1. listing \in Seq(Entry) /\ Len(listing) \in Nat /\ DOMAIN listing = 1..Len(listing)
  BY DEF ListingOK
<1>2. l \in Seq(Entry) /\ Len(l) = Len(listing)
  <2>1. listing[i] \in Entry
    BY <1>1
  <2>2. [listing[i] EXCEPT !.status = status] \in Entry
    BY <2>1 DEF Entry
  <2>3. QED
    BY <1>1, <2>2
<1>3. l[i].status = status /\ l[i].agent = listing[i].agent /\ l[i].slug = listing[i].slug
  BY <1>1 DEF Entry
<1>4. \A j \in 1..Len(listing) : j # i => l[j] = listing[j]
  BY <1>1
<1>5. \A j \in 1..Len(listing) : l[j].agent = listing[j].agent /\ l[j].slug = listing[j].slug
  BY <1>3, <1>4
<1>6. \A j \in 1..Len(l) : l[j].agent \in 1..a
  BY <1>2, <1>5 DEF ListingOK
<1>7. QED
  BY <1>1, <1>2, <1>3, <1>4, <1>5, <1>6 DEF ListingOK, Keeps

\* The run with its next service created.
Created(r, id, slug) == [r EXCEPT !.pc = "activate", !.id = id, !.map = With(r.map, id, slug)]

-----------------------------------------------------------------------------
(* Initial states and steps *)

LEMMA InitInv == Init => IInv
<1> SUFFICES ASSUME Init PROVE IInv
  OBVIOUS
<1>1. PICK s \in Situations : agents = s.agents /\ listing = s.listing /\ file = s.file /\ runs = s.runs
  BY DEF Init
<1>2. Installation(s)
  BY SituationsAssumption
<1>3. agents \in Nat /\ runs \in Nat
  BY <1>1, <1>2 DEF Installation
<1>4. ListingOK(listing, agents)
  <2>1. listing \in Seq([agent : 1..agents, slug : STRING, status : {"draft", "active", "inactive"}])
    BY <1>1, <1>2 DEF Installation
  <2>2. Len(listing) \in Nat /\ \A i \in 1..Len(listing) :
            listing[i] \in [agent : 1..agents, slug : STRING, status : {"draft", "active", "inactive"}]
    BY <2>1, SeqElements
  <2>3. \A i \in 1..Len(listing) : listing[i].agent \in 1..agents
    BY <2>2
  <2>4. [agent : 1..agents, slug : STRING, status : {"draft", "active", "inactive"}] \subseteq Entry
    BY <1>3 DEF Entry
  <2>5. listing \in Seq(Entry)
    BY <2>1, <2>4, SeqMonotone
  <2>6. QED
    BY <2>3, <2>5 DEF ListingOK
<1>5. /\ file \in [agent : Nat, services : Maps] /\ file.agent \in 0..agents
      /\ (file # NoFile => file.agent # 0) /\ DOMAIN file.services \subseteq Ids
  <2>1. DOMAIN file.services \subseteq Ids /\ (file = NoFile \/ file.agent \in 1..agents)
        /\ file = [agent |-> file.agent, services |-> file.services]
        /\ file.services \in [DOMAIN file.services -> STRING]
    BY <1>1, <1>2 DEF Installation, Ids
  <2>2. Ids \subseteq Nat
    BY <1>4 DEF ListingOK, Ids
  <2>3. file.services \in Maps
    BY <2>1, <2>2 DEF Maps
  <2>4. file.agent \in 0..agents /\ (file # NoFile => file.agent # 0)
    BY <2>1, <1>3 DEF NoFile
  <2>5. QED
    BY <2>1, <2>3, <2>4, <1>3
<1>6. run \in [Operator -> RunType] /\ \A o \in Operator : run[o] = Idle /\ RunOK(run[o], listing, agents)
  <2>1. Idle \in RunType
    BY EmptyMap DEF Idle, RunType
  <2>2. QED
    BY <2>1, <1>3, IdleOK DEF Init
<1>7. provider.agent \in 0..agents /\ DOMAIN provider.map \subseteq Ids
  BY <1>3, EmptyMap DEF Init, Off
<1>8. clean \in [Operator -> BOOLEAN] /\ \A o \in Operator : CleanOK(o)
  BY DEF Init, CleanOK
<1>9. QED
  BY <1>3, <1>4, <1>5, <1>6, <1>7, <1>8 DEF Init, IInv, SettledCatalogueIsWhole

\* A step of run o that leaves the file alone keeps the invariant, if what it does to its own
\* run is right and it takes the other runs' cleanness when it changes the marketplace.
LEMMA RunStep ==
    ASSUME IInv, NEW o \in Operator, NEW r,
           run' = [run EXCEPT ![o] = r], RunOK(r, listing', agents'),
           ListingOK(listing', agents'), Keeps(listing, listing'), agents' \in Nat, agents <= agents',
           runs' \in Nat, file' = file, provider' = provider,
           clean' \in [Operator -> BOOLEAN], settled' \in BOOLEAN,
           settled' => settled /\ listing' = listing,
           \A p \in Operator : p # o /\ clean'[p] => clean[p] /\ listing' = listing,
           CleanOK(o)'
    PROVE  IInv'
<1>1. /\ listing \in Seq(Entry) /\ listing' \in Seq(Entry) /\ agents \in Nat
      /\ Ids = 1..Len(listing) /\ Ids' = 1..Len(listing') /\ Len(listing) \in Nat /\ Len(listing') \in Nat
  BY DEF IInv, ListingOK, Ids
<1>2. Ids \subseteq Ids' /\ 0..agents \subseteq 0..agents'
  BY <1>1 DEF Keeps, IInv
<1>3. r \in RunType /\ run \in [Operator -> RunType]
  BY DEF RunOK, IInv
<1>4. run' \in [Operator -> RunType]
  BY <1>3
<1>5. \A p \in Operator : RunOK(run'[p], listing', agents')
  <2> TAKE p \in Operator
  <2>1. CASE p = o
    BY <2>1, <1>3
  <2>2. CASE p # o
    <3>1. run'[p] = run[p] /\ RunOK(run[p], listing, agents)
      BY <2>2, <1>3 DEF IInv
    <3>2. QED
      BY <3>1, <1>1, RunStays
  <2>3. QED
    BY <2>1, <2>2
<1>6. \A p \in Operator : CleanOK(p)'
  <2> TAKE p \in Operator
  <2>1. CASE p = o
    BY <2>1
  <2>2. CASE p # o
    <3>1. run'[p] = run[p]
      BY <2>2, <1>3
    <3>2. ASSUME clean'[p] PROVE clean[p] /\ listing' = listing
      BY <2>2, <3>2
    <3>3. CleanOK(p)
      BY DEF IInv
    <3>4. QED
      BY <3>1, <3>2, <3>3 DEF CleanOK, Active, Ids
  <2>3. QED
    BY <2>1, <2>2
<1>7. SettledCatalogueIsWhole'
  BY DEF IInv, SettledCatalogueIsWhole, Active, Ids
<1>8. QED
  BY <1>1, <1>2, <1>4, <1>5, <1>6, <1>7 DEF IInv

\* A step that leaves the marketplace alone is right about its own run.
LEMMA QuietStep ==
    ASSUME IInv, NEW o \in Operator, NEW r, run' = [run EXCEPT ![o] = r], RunOK(r, listing, agents),
           runs' \in Nat, UNCHANGED <<agents, listing, file, provider, settled>>,
           clean' \in [Operator -> BOOLEAN], \A p \in Operator : p # o /\ clean'[p] => clean[p],
           CleanOK(o)'
    PROVE  IInv'
<1>1. Keeps(listing, listing) /\ ListingOK(listing, agents) /\ agents \in Nat /\ agents <= agents /\ settled \in BOOLEAN
  BY DEF Keeps, IInv, ListingOK
<1>2. agents' = agents /\ listing' = listing /\ file' = file /\ provider' = provider /\ settled' = settled
  OBVIOUS
<1>3. RunOK(r, listing', agents') /\ ListingOK(listing', agents') /\ Keeps(listing, listing')
  BY <1>1, <1>2
<1>4. \A p \in Operator : p # o /\ clean'[p] => clean[p] /\ listing' = listing
  BY <1>2
<1>5. settled' \in BOOLEAN /\ (settled' => settled /\ listing' = listing)
      /\ agents' \in Nat /\ agents <= agents'
  BY <1>1, <1>2
<1>6. QED
  BY <1>2, <1>3, <1>4, <1>5, RunStep

\* How one step ends or moves a run on.
LEMMA EndsIs == ASSUME NEW o \in Operator, Ends(o), IInv PROVE CleanOK(o)' /\ run' = [run EXCEPT ![o] = Idle]
<1>1. run' = [run EXCEPT ![o] = Idle] /\ run'[o] = Idle
  BY DEF Ends, IInv
<1>2. QED
  BY <1>1 DEF CleanOK, Idle

LEMMA ActsIs ==
    ASSUME NEW o \in Operator, Acts(o), IInv
    PROVE  /\ settled' = FALSE /\ clean' \in [Operator -> BOOLEAN] /\ clean'[o] = clean[o]
           /\ \A p \in Operator : p # o => ~clean'[p]
BY DEF Acts, IInv

LEMMA FreshRun ==
    ASSUME NEW a \in Nat, NEW l, NEW r \in RunType, (r.pc = "list" /\ r.agent # 0) \/ r.pc = "setup", r.agent \in 0..a,
           r.todo = {}, r.map = <<>>
    PROVE  RunOK(r, l, a)
<1>1. IsFiniteSet({}) /\ Cardinality({}) = 0 /\ DOMAIN r.map = {}
  BY FS_EmptySet, EmptyMap
<1>2. QED
  BY <1>1 DEF RunOK

LEMMA StartStep ==
    ASSUME IInv, NEW o \in Operator, Rebuild(o) \/ Setup(o)
    PROVE  IInv'
<1>1. PICK r : run' = [run EXCEPT ![o] = r] /\ RunOK(r, listing, agents) /\ r.pc \in {"list", "setup"}
  <2>1. Idle \in RunType /\ Idle.map = <<>> /\ Idle.todo = {} /\ Idle.agent = 0 /\ agents \in Nat
    BY EmptyMap DEF Idle, RunType, IInv
  <2>2. CASE Rebuild(o)
    <3> DEFINE r == [Idle EXCEPT !.pc = "list", !.agent = file.agent]
    <3>1. file.agent \in 0..agents /\ file.agent \in Nat /\ file.agent # 0
      BY <2>2 DEF IInv, Rebuild
    <3>2. r \in RunType /\ r.pc = "list" /\ r.agent = file.agent /\ r.todo = {} /\ r.map = <<>>
      BY <2>1, <3>1 DEF RunType
    <3>3. run' = [run EXCEPT ![o] = r]
      BY <2>2 DEF Rebuild, Advance
    <3> HIDE DEF r
    <3>4. RunOK(r, listing, agents)
      BY <2>1, <3>1, <3>2, FreshRun
    <3>5. QED
      BY <3>2, <3>3, <3>4
  <2>3. CASE Setup(o)
    <3> DEFINE r == [Idle EXCEPT !.pc = "setup"]
    <3>1. r \in RunType /\ r.pc = "setup" /\ r.agent = 0 /\ r.todo = {} /\ r.map = <<>> /\ 0 \in 0..agents
      BY <2>1 DEF RunType
    <3>2. run' = [run EXCEPT ![o] = r]
      BY <2>3 DEF Setup, Advance
    <3> HIDE DEF r
    <3>3. RunOK(r, listing, agents)
      BY <2>1, <3>1, FreshRun
    <3>4. QED
      BY <3>1, <3>2, <3>3
  <2>4. QED
    BY <2>2, <2>3
<1>2. runs' \in Nat /\ clean' = [clean EXCEPT ![o] = TRUE]
  BY DEF Rebuild, Setup, Started, IInv
<1>3. run'[o] = r
  BY <1>1 DEF IInv
<1>4. CleanOK(o)'
  BY <1>1, <1>3 DEF CleanOK
<1>5. clean' \in [Operator -> BOOLEAN] /\ \A p \in Operator : p # o /\ clean'[p] => clean[p]
  BY <1>2 DEF IInv
<1>6. UNCHANGED <<agents, listing, file, provider, settled>>
  BY DEF Rebuild, Setup
<1>7. QED
  BY <1>1, <1>2, <1>4, <1>5, <1>6, QuietStep

LEMMA ListStep ==
    ASSUME IInv, NEW o \in Operator, ListServices(o)
    PROVE  IInv'
<1> DEFINE r == [run[o] EXCEPT !.pc = "work", !.todo = Active(run[o].agent)]
<1>1. /\ RunOK(run[o], listing, agents) /\ run[o] \in RunType /\ run[o].pc = "list"
      /\ listing \in Seq(Entry) /\ Len(listing) \in Nat
  BY DEF IInv, ListingOK, ListServices
<1>2. Active(run[o].agent) \subseteq 1..Len(listing) /\ Active(run[o].agent) \in SUBSET Nat
  BY <1>1 DEF Active, Ids
<1>3. r \in RunType /\ r.pc = "work" /\ r.todo = Active(run[o].agent) /\ r.map = run[o].map /\ r.agent = run[o].agent
  BY <1>1, <1>2 DEF RunType
<1>4. RunOK(r, listing, agents)
  BY <1>1, <1>2, <1>3 DEF RunOK
<1>5. run' = [run EXCEPT ![o] = r] /\ UNCHANGED <<agents, listing, file, runs, provider, clean, settled>>
  BY DEF ListServices, Advance
<1>6. run'[o] = r
  BY <1>5 DEF IInv
<1>7. CleanOK(o)'
  <2>1. SUFFICES ASSUME NEW j \in Ids, listing[j].agent = r.agent, listing[j].status = "active"
                 PROVE  j \in r.todo
    BY <1>5, <1>6 DEF CleanOK, Active, Ids
  <2>2. QED
    BY <1>3, <2>1 DEF Active
<1>8. runs' \in Nat /\ clean' \in [Operator -> BOOLEAN] /\ \A p \in Operator : p # o /\ clean'[p] => clean[p]
  BY <1>5 DEF IInv
<1> HIDE DEF r
<1>9. QED
  BY <1>4, <1>5, <1>7, <1>8, QuietStep

LEMMA AbortStep ==
    ASSUME IInv, NEW o \in Operator, Abort(o)
    PROVE  IInv'
<1>1. Ends(o) /\ UNCHANGED <<agents, listing, file, runs, provider, clean, settled>>
  BY DEF Abort
<1>2. RunOK(Idle, listing, agents) /\ run' = [run EXCEPT ![o] = Idle] /\ CleanOK(o)'
  BY <1>1, IdleOK, EndsIs DEF IInv
<1>3. runs' \in Nat /\ clean' \in [Operator -> BOOLEAN] /\ \A p \in Operator : p # o /\ clean'[p] => clean[p]
  BY <1>1 DEF IInv
<1>4. QED
  BY <1>1, <1>2, <1>3, QuietStep

LEMMA DeactivateStep ==
    ASSUME IInv, NEW o \in Operator, Deactivate(o)
    PROVE  IInv'
<1>1. PICK i \in run[o].todo :
        /\ Advance(o, [run[o] EXCEPT !.todo = @ \ {i}])
        /\ \/ listing' = [listing EXCEPT ![i].status = "inactive"] /\ Acts(o)
           \/ clean' = [clean EXCEPT ![o] = FALSE] /\ UNCHANGED <<listing, settled>>
  BY DEF Deactivate
<1> DEFINE r == [run[o] EXCEPT !.todo = run[o].todo \ {i}]
<1>2. /\ RunOK(run[o], listing, agents) /\ run[o] \in RunType /\ listing \in Seq(Entry) /\ Len(listing) \in Nat
      /\ ListingOK(listing, agents) /\ agents \in Nat
  BY DEF IInv, ListingOK
<1>3. i \in 1..Len(listing)
  BY <1>2 DEF RunOK
<1>4. /\ r \in RunType /\ r.pc = run[o].pc /\ r.pc = "work" /\ r.todo = run[o].todo \ {i}
      /\ r.map = run[o].map /\ r.agent = run[o].agent
  BY <1>2 DEF RunType, Deactivate
<1>5. RunOK(r, listing, agents)
  BY <1>2, <1>4 DEF RunOK
<1>6. run' = [run EXCEPT ![o] = r] /\ UNCHANGED <<agents, file, runs, provider>>
  BY <1>1 DEF Advance, Deactivate
<1>7. run'[o] = r
  BY <1>6 DEF IInv
<1> HIDE DEF r
<1>8. CASE clean' = [clean EXCEPT ![o] = FALSE] /\ UNCHANGED <<listing, settled>>
  <2>1. CleanOK(o)' /\ clean' \in [Operator -> BOOLEAN] /\ \A p \in Operator : p # o /\ clean'[p] => clean[p]
    BY <1>8 DEF CleanOK, IInv
  <2>2. runs' \in Nat
    BY <1>6 DEF IInv
  <2>3. QED
    BY <1>5, <1>6, <1>8, <2>1, <2>2, QuietStep
<1>9. CASE listing' = [listing EXCEPT ![i].status = "inactive"] /\ Acts(o)
  <2>1. /\ ListingOK(listing', agents) /\ Keeps(listing, listing') /\ Len(listing') = Len(listing)
        /\ listing'[i].status = "inactive" /\ \A j \in 1..Len(listing) : j # i => listing'[j] = listing[j]
    <3> DEFINE k == [listing EXCEPT ![i].status = "inactive"]
    <3>1. /\ ListingOK(k, agents) /\ Keeps(listing, k) /\ Len(k) = Len(listing)
          /\ k[i].status = "inactive" /\ \A j \in 1..Len(listing) : j # i => k[j] = listing[j]
      BY <1>2, <1>3, StatusChange
    <3>2. listing' = k
      BY <1>9
    <3> HIDE DEF k
    <3>3. QED
      BY <3>1, <3>2
  <2>2. RunOK(r, listing', agents)
    BY <1>2, <1>5, <2>1, RunStays DEF ListingOK
  <2>3. settled' = FALSE /\ clean' \in [Operator -> BOOLEAN] /\ clean'[o] = clean[o]
        /\ \A p \in Operator : p # o => ~clean'[p]
    BY <1>9, ActsIs
  <2>4. Ids = 1..Len(listing) /\ Ids' = 1..Len(listing)
    BY <1>2, <2>1 DEF Ids, ListingOK
  <2>5. ASSUME NEW j \in Ids', listing'[j].agent = r.agent, listing'[j].status = "active"
        PROVE  j \in Active(run[o].agent) /\ j # i
    <3>1. j # i
      BY <2>1, <2>5
    <3>2. QED
      BY <1>4, <2>1, <2>4, <2>5, <3>1 DEF Active
  <2>6. CleanOK(o)'
    <3>1. SUFFICES ASSUME clean'[o], NEW j \in Ids', listing'[j].agent = run'[o].agent, listing'[j].status = "active"
                   PROVE  j \in run'[o].todo \cup DOMAIN run'[o].map
      BY DEF CleanOK, Active
    <3>2. j \in Active(run[o].agent) /\ j # i
      BY <1>7, <2>5, <3>1
    <3>3. j \in run[o].todo \cup DOMAIN run[o].map
      BY <1>4, <2>3, <3>1, <3>2 DEF CleanOK, IInv
    <3>4. QED
      BY <1>4, <1>7, <3>2, <3>3
  <2>7. agents' = agents /\ runs' = runs /\ file' = file /\ provider' = provider
    BY <1>6
  <2>8. /\ agents' \in Nat /\ agents <= agents' /\ runs' \in Nat /\ settled' \in BOOLEAN
        /\ RunOK(r, listing', agents') /\ ListingOK(listing', agents')
        /\ (settled' => settled /\ listing' = listing)
        /\ \A p \in Operator : p # o /\ clean'[p] => clean[p] /\ listing' = listing
    <3>1. agents' \in Nat /\ agents <= agents' /\ runs' \in Nat
      BY <1>2, <2>7 DEF IInv
    <3>2. RunOK(r, listing', agents') /\ ListingOK(listing', agents')
      BY <2>1, <2>2, <2>7
    <3>3. QED
      BY <2>3, <3>1, <3>2
  <2>9. QED
    BY <1>6, <2>1, <2>3, <2>6, <2>7, <2>8, RunStep
<1>10. QED
  BY <1>1, <1>8, <1>9

\* A step of run o that changes the marketplace.
LEMMA ActStep ==
    ASSUME IInv, NEW o \in Operator, NEW r, Acts(o),
           run' = [run EXCEPT ![o] = r], RunOK(r, listing', agents'),
           ListingOK(listing', agents'), Keeps(listing, listing'), agents' \in Nat, agents <= agents',
           UNCHANGED <<file, runs, provider>>, CleanOK(o)'
    PROVE  IInv'
<1>1. /\ settled' = FALSE /\ clean' \in [Operator -> BOOLEAN] /\ clean'[o] = clean[o]
      /\ \A p \in Operator : p # o => ~clean'[p]
  BY ActsIs
<1>2. /\ settled' \in BOOLEAN /\ (settled' => settled /\ listing' = listing)
      /\ \A p \in Operator : p # o /\ clean'[p] => clean[p] /\ listing' = listing
  BY <1>1
<1>3. runs' \in Nat /\ file' = file /\ provider' = provider
  BY DEF IInv
<1>4. QED
  BY <1>1, <1>2, <1>3, RunStep

\* A run ends in a step that added a service, or an agent, or neither.
LEMMA FailedCall ==
    ASSUME IInv, NEW o \in Operator, Acts(o), Ends(o), ListingOK(listing', agents'),
           Keeps(listing, listing'), agents' \in Nat, agents <= agents', UNCHANGED <<file, runs, provider>>
    PROVE  IInv'
<1>1. RunOK(Idle, listing', agents')
  BY IdleOK
<1>2. run' = [run EXCEPT ![o] = Idle] /\ CleanOK(o)'
  BY EndsIs
<1>3. QED
  BY <1>1, <1>2, ActStep

LEMMA SetupAgentStep ==
    ASSUME IInv, NEW o \in Operator, SetupAgent(o)
    PROVE  IInv'
<1>1. /\ run[o].pc = "setup" /\ agents' = agents + 1 /\ Acts(o) /\ UNCHANGED <<file, runs, provider>>
  BY DEF SetupAgent
<1>2. /\ agents \in Nat /\ agents' \in Nat /\ agents <= agents' /\ agents + 1 \in 1..agents'
      /\ ListingOK(listing, agents) /\ RunOK(run[o], listing, agents) /\ run[o] \in RunType
      /\ listing \in Seq(Entry) /\ Len(listing) \in Nat
  BY <1>1 DEF IInv, ListingOK
<1>3. Offered[1] \in STRING
  BY OfferedAssumption
<1> DEFINE l == Listed(agents + 1, Offered[1], "active")
<1>4. /\ ListingOK(l, agents') /\ Len(l) = NewId /\ NewId = Len(listing) + 1 /\ NewId \in Nat
      /\ l[NewId] = [agent |-> agents + 1, slug |-> Offered[1], status |-> "active"]
      /\ \A i \in 1..Len(listing) : l[i] = listing[i]
  <2> DEFINE e == [agent |-> agents + 1, slug |-> Offered[1], status |-> "active"]
  <2>1. e \in Entry /\ e.agent \in 1..agents'
    BY <1>2, <1>3 DEF Entry
  <2>2. e = [agent |-> agents + 1, slug |-> Offered[1], status |-> "active"]
    OBVIOUS
  <2>3. l = Append(listing, e)
    BY DEF Listed
  <2> HIDE DEF e, l
  <2>4. Grown(Append(listing, e), e, agents')
    BY <1>2, <2>1, ListedIs
  <2>5. QED
    BY <2>2, <2>3, <2>4 DEF Grown
<1> HIDE DEF l
<1>5. Keeps(listing, l)
  BY <1>2, <1>4 DEF Keeps
<1>6. CASE listing' = l /\ Ends(o)
  BY <1>1, <1>2, <1>4, <1>5, <1>6, FailedCall
<1>7. CASE listing' = listing /\ Ends(o)
  <2>1. ListingOK(listing, agents') /\ Keeps(listing, listing)
    BY <1>1, <1>2 DEF ListingOK, Keeps
  <2>2. QED
    BY <1>1, <1>2, <1>7, <2>1, FailedCall
<1>8. CASE /\ listing' = l
           /\ Advance(o, [run[o] EXCEPT !.pc = "work", !.agent = agents + 1, !.map = With(<<>>, NewId, Offered[1])])
  <2> DEFINE m == With(<<>>, NewId, Offered[1])
             r == [run[o] EXCEPT !.pc = "work", !.agent = agents + 1, !.map = m]
  <2>3. run' = [run EXCEPT ![o] = r]
    BY <1>8 DEF Advance
  <2>1. m \in Maps /\ DOMAIN m = {NewId} /\ m[NewId] = Offered[1]
    BY <1>3, <1>4, FirstMap
  <2> HIDE DEF m
  <2>2. /\ r \in RunType /\ r.pc = "work" /\ r.agent = agents + 1 /\ r.map = m /\ r.todo = run[o].todo
    <3>1. agents + 1 \in Nat /\ run[o] \in RunType
      BY <1>2
    <3>2. QED
      BY <2>1, <3>1 DEF RunType
  <2> HIDE DEF r
  <2>4. run'[o] = r
    <3>1. run \in [Operator -> RunType]
      BY DEF IInv
    <3>2. QED
      BY <2>3, <3>1
  <2>5. IsFiniteSet({NewId}) /\ Cardinality({NewId}) = 1
    BY FS_Singleton
  <2>6. RunOK(r, listing', agents')
    <3>1. /\ r.todo \subseteq 1..Len(l) /\ DOMAIN r.map \subseteq 1..Len(l)
          /\ r.agent \in 0..agents' /\ r.agent # 0
      BY <1>2, <1>4, <2>1, <2>2 DEF RunOK
    <3>2. \A i \in DOMAIN r.map : l[i].agent = r.agent /\ l[i].slug = r.map[i]
      BY <1>4, <2>1, <2>2
    <3>3. \A n \in 1..Cardinality(DOMAIN r.map) : \E i \in DOMAIN r.map : r.map[i] = Offered[n]
      BY <2>1, <2>2, <2>5
    <3>4. QED
      BY <1>8, <2>1, <2>2, <2>5, <3>1, <3>2, <3>3 DEF RunOK
  <2>7. CleanOK(o)'
    <3>1. SUFFICES ASSUME NEW j \in Ids', listing'[j].agent = run'[o].agent
                   PROVE  j \in DOMAIN run'[o].map
      BY DEF CleanOK, Active
    <3>2. j \in 1..Len(l) /\ l[j].agent = agents + 1
      BY <1>4, <1>8, <2>2, <2>4, <3>1 DEF Ids, ListingOK
    <3>3. j \notin 1..Len(listing)
      BY <1>2, <1>4, <3>2 DEF ListingOK
    <3>4. j = NewId
      BY <1>2, <1>4, <3>2, <3>3
    <3>5. QED
      BY <2>1, <2>2, <2>4, <3>4
  <2>8. ListingOK(listing', agents') /\ Keeps(listing, listing')
    BY <1>4, <1>5, <1>8
  <2>9. QED
    BY <1>1, <1>2, <2>3, <2>6, <2>7, <2>8, ActStep
<1>9. QED
  BY <1>6, <1>7, <1>8 DEF SetupAgent, l

LEMMA CreateStep ==
    ASSUME IInv, NEW o \in Operator, Create(o)
    PROVE  IInv'
<1> DEFINE n == Cardinality(DOMAIN run[o].map) + 1
<1>1. /\ run[o].pc = "work" /\ run[o].todo = {} /\ n <= Len(Offered)
      /\ Acts(o) /\ UNCHANGED <<agents, file, runs, provider>>
  BY DEF Create
<1>2. /\ agents \in Nat /\ ListingOK(listing, agents) /\ RunOK(run[o], listing, agents) /\ run[o] \in RunType
      /\ listing \in Seq(Entry) /\ Len(listing) \in Nat /\ run \in [Operator -> RunType]
  BY DEF IInv, ListingOK
<1>3. n \in 1..Len(Offered) /\ Offered[n] \in STRING
  <2>1. Cardinality(DOMAIN run[o].map) \in Nat
    BY <1>2, FS_CardinalityType DEF RunOK
  <2>2. Offered \in Seq(STRING) /\ Len(Offered) \in Nat
    BY OfferedAssumption
  <2>3. n \in 1..Len(Offered)
    BY <1>1, <2>1, <2>2
  <2>4. QED
    BY <2>2, <2>3, SeqElements
<1>4. PICK status \in {"draft", "active"} : listing' = Listed(run[o].agent, Offered[n], status)
  BY DEF Create
<1>5. run[o].agent \in 1..agents
  BY <1>1, <1>2 DEF RunOK
<1> DEFINE l == Listed(run[o].agent, Offered[n], status)
<1> HIDE DEF n
<1>6. /\ ListingOK(l, agents) /\ Len(l) = NewId /\ NewId = Len(listing) + 1 /\ NewId \in Nat
      /\ l[NewId] = [agent |-> run[o].agent, slug |-> Offered[n], status |-> status]
      /\ \A i \in 1..Len(listing) : l[i] = listing[i]
  <2> DEFINE e == [agent |-> run[o].agent, slug |-> Offered[n], status |-> status]
  <2>1. e \in Entry /\ e.agent \in 1..agents
    BY <1>2, <1>3, <1>5 DEF Entry
  <2>2. e = [agent |-> run[o].agent, slug |-> Offered[n], status |-> status] /\ agents <= agents
    BY <1>2
  <2>3. l = Append(listing, e)
    BY DEF Listed
  <2> HIDE DEF e, l
  <2>4. Grown(Append(listing, e), e, agents)
    BY <1>2, <2>1, <2>2, ListedIs
  <2>5. QED
    BY <2>2, <2>3, <2>4 DEF Grown
<1> HIDE DEF l
<1>7. Keeps(listing, l) /\ l \in Seq(Entry)
  BY <1>2, <1>6 DEF Keeps, ListingOK
<1>8. agents' \in Nat /\ agents <= agents' /\ ListingOK(listing', agents') /\ Keeps(listing, listing') /\ listing' = l
  BY <1>1, <1>2, <1>4, <1>6, <1>7 DEF l
<1>9. CASE Ends(o)
  BY <1>1, <1>8, <1>9, FailedCall
<1>10. CASE Advance(o, [run[o] EXCEPT !.pc = "activate", !.id = NewId, !.map = With(@, NewId, Offered[n])])
  <2> DEFINE q == Created(run[o], NewId, Offered[n])
  <2>1. run' = [run EXCEPT ![o] = q]
    <3>1. [run[o] EXCEPT !.pc = "activate", !.id = NewId, !.map = With(@, NewId, Offered[n])] = q
      BY <1>2 DEF RunType, Created
    <3>2. QED
      BY <1>10, <3>1 DEF Advance
  <2>2. NewId \in 1..Len(l)
    BY <1>2, <1>6
  <2>3. l[NewId].agent = run[o].agent /\ l[NewId].slug = Offered[n]
    BY <1>6
  <2>4. n = Cardinality(DOMAIN run[o].map) + 1 /\ n \in 1..Len(Offered)
    BY <1>3 DEF n
  <2>5. /\ RunOK(q, l, agents) /\ q.agent = run[o].agent /\ q.todo = {} /\ q.pc = "activate"
        /\ DOMAIN q.map = DOMAIN run[o].map \cup {NewId}
    <3>1. PICK r \in RunType : r = run[o]
      BY <1>2
    <3>2. PICK id \in 1..Len(l) : id = NewId
      BY <2>2
    <3>3. /\ RunOK(r, listing, agents) /\ id = Len(listing) + 1 /\ r.pc = "work" /\ r.todo = {}
          /\ n \in 1..Len(Offered) /\ n = Cardinality(DOMAIN r.map) + 1
          /\ l[id].agent = r.agent /\ l[id].slug = Offered[n]
          /\ agents \in Nat /\ listing \in Seq(Entry) /\ l \in Seq(Entry) /\ Keeps(listing, l)
      BY <1>1, <1>2, <1>6, <1>7, <2>3, <2>4, <3>1, <3>2
    <3>4. PICK slug \in STRING : slug = Offered[n]
      <4>1. Offered[n] \in STRING
        BY <3>3, OfferedAssumption
      <4>2. QED
        BY <4>1
    <3>5. PICK f \in Maps : f = r.map
      BY DEF RunType
    <3>6. id \in Nat /\ Len(listing) \in Nat /\ Len(l) \in Nat
      BY <3>3
    <3>7. PICK m \in Maps : /\ m = With(f, id, slug) /\ DOMAIN m = DOMAIN f \cup {id} /\ m[id] = slug
                            /\ \A i \in DOMAIN f : i # id => m[i] = f[i]
      <4>1. f \in Maps /\ id \in Nat /\ slug \in STRING
        BY <3>4, <3>5, <3>6
      <4>2. PICK m : m = With(f, id, slug)
        OBVIOUS
      <4>3. m = [i \in DOMAIN f \cup {id} |-> IF i = id THEN slug ELSE f[i]]
        BY <4>2 DEF With
      <4>4. m \in Maps
        BY <4>1, <4>2, WithIs, Zenon
      <4>5. QED
        BY <4>2, <4>3, <4>4
    <3>8. PICK p : p = Created(r, id, slug)
      OBVIOUS
    <3>9. p \in RunType /\ p.pc = "activate" /\ p.agent = r.agent /\ p.todo = {} /\ p.map = m /\ p.id = id
      <4>1. p = [r EXCEPT !.pc = "activate", !.id = id, !.map = m]
        BY <3>5, <3>7, <3>8 DEF Created
      <4>2. QED
        BY <3>3, <3>6, <3>7, <4>1 DEF RunType
    <3>10. DOMAIN f \subseteq 1..Len(listing) /\ id \notin DOMAIN f
      BY <3>3, <3>5, <3>6 DEF RunOK
    <3>11. IsFiniteSet(DOMAIN m) /\ Cardinality(DOMAIN m) = n
      <4>1. IsFiniteSet(DOMAIN f)
        BY <3>3, <3>5 DEF RunOK
      <4>2. IsFiniteSet(DOMAIN f \cup {id}) /\ Cardinality(DOMAIN f \cup {id}) = Cardinality(DOMAIN f) + 1
        BY <3>10, <4>1, FS_AddElement
      <4>3. QED
        BY <3>3, <3>5, <3>7, <4>2
    <3>12. \A i \in DOMAIN m : l[i].agent = p.agent /\ l[i].slug = m[i]
      <4>1. \A i \in DOMAIN f : l[i].agent = r.agent /\ l[i].slug = f[i]
        BY <3>3, <3>5, <3>10 DEF RunOK, Keeps
      <4>2. QED
        BY <3>3, <3>4, <3>7, <3>9, <3>10, <4>1
    <3>13. \A j \in 1..n : \E i \in DOMAIN m : m[i] = Offered[j]
      <4> TAKE j \in 1..n
      <4>1. CASE j = n
        BY <3>3, <3>4, <3>7, <4>1
      <4>2. CASE j # n
        <5>1. IsFiniteSet(DOMAIN f)
          BY <3>3, <3>5 DEF RunOK
        <5>2. j \in 1..Cardinality(DOMAIN f)
          BY <3>3, <3>5, <4>2, <5>1, FS_CardinalityType
        <5>3. PICK i \in DOMAIN f : f[i] = Offered[j]
          BY <3>3, <3>5, <5>2 DEF RunOK
        <5>4. QED
          BY <3>7, <3>10, <5>3
      <4>3. QED
        BY <4>1, <4>2
    <3>14. DOMAIN m \subseteq 1..Len(l)
      BY <3>3, <3>6, <3>7, <3>10 DEF Keeps
    <3>15. p.agent \in 0..agents /\ p.agent # 0
      BY <3>3, <3>9 DEF RunOK
    <3>16. RunOK(p, l, agents)
      BY <3>3, <3>7, <3>9, <3>11, <3>12, <3>13, <3>14, <3>15 DEF RunOK
    <3>17. QED
      BY <3>1, <3>2, <3>4, <3>5, <3>7, <3>8, <3>9, <3>16
  <2> HIDE DEF q
  <2>6. run'[o] = q
    BY <1>2, <2>1
  <2>7. CleanOK(o)'
    <3>1. SUFFICES ASSUME clean'[o], NEW j \in Ids', listing'[j].agent = run[o].agent,
                          listing'[j].status = "active"
                   PROVE  j \in DOMAIN run[o].map \cup {NewId}
      BY <2>5, <2>6 DEF CleanOK, Active
    <3>2. j \in 1..(Len(listing) + 1)
      BY <1>6, <1>7, <1>8 DEF Ids
    <3>3. CASE j = NewId
      BY <3>3
    <3>4. CASE j # NewId
      <4>1. j \in Ids /\ listing'[j] = listing[j]
        BY <1>2, <1>6, <1>8, <3>2, <3>4 DEF Ids
      <4>2. clean[o]
        BY <1>1, <3>1, ActsIs
      <4>3. QED
        BY <1>1, <3>1, <4>1, <4>2 DEF CleanOK, IInv, Active
    <3>5. QED
      BY <3>3, <3>4
  <2>8. RunOK(q, listing', agents')
    BY <1>1, <1>8, <2>5
  <2>9. QED
    BY <1>1, <1>8, <2>1, <2>7, <2>8, ActStep
<1>11. QED
  BY <1>9, <1>10 DEF Create, n

LEMMA ActivateStep ==
    ASSUME IInv, NEW o \in Operator, Activate(o)
    PROVE  IInv'
<1> DEFINE r == [run[o] EXCEPT !.pc = "work", !.id = 0]
           i == run[o].id
<1>1. /\ run[o].pc = "activate" /\ run' = [run EXCEPT ![o] = r] /\ UNCHANGED <<agents, file, runs, provider>>
      /\ \/ listing' = [listing EXCEPT ![i].status = "active"] /\ Acts(o)
         \/ UNCHANGED <<listing, clean, settled>>
  BY DEF Activate, Advance
<1>2. /\ RunOK(run[o], listing, agents) /\ run[o] \in RunType /\ listing \in Seq(Entry) /\ Len(listing) \in Nat
      /\ ListingOK(listing, agents) /\ agents \in Nat /\ runs \in Nat /\ run \in [Operator -> RunType]
  BY DEF IInv, ListingOK
<1>3. i \in DOMAIN run[o].map /\ i \in 1..Len(listing)
  BY <1>1, <1>2 DEF RunOK
<1>4. /\ r \in RunType /\ r.pc = "work" /\ r.todo = run[o].todo /\ r.map = run[o].map /\ r.agent = run[o].agent
  BY <1>2 DEF RunType
<1>5. RunOK(r, listing, agents)
  BY <1>1, <1>2, <1>4 DEF RunOK
<1>6. run'[o] = r
  BY <1>1, <1>2
<1> HIDE DEF r
<1>7. CASE UNCHANGED <<listing, clean, settled>>
  <2>1. CleanOK(o) /\ CleanOK(o)'
    BY <1>1, <1>4, <1>6, <1>7 DEF CleanOK, IInv, Active, Ids
  <2>2. runs' \in Nat /\ clean' \in [Operator -> BOOLEAN] /\ \A p \in Operator : p # o /\ clean'[p] => clean[p]
    BY <1>1, <1>7 DEF IInv
  <2>3. QED
    BY <1>1, <1>5, <1>7, <2>1, <2>2, QuietStep
<1>8. CASE listing' = [listing EXCEPT ![i].status = "active"] /\ Acts(o)
  <2>1. /\ ListingOK(listing', agents) /\ Keeps(listing, listing') /\ Len(listing') = Len(listing)
        /\ \A j \in 1..Len(listing) : j # i => listing'[j] = listing[j]
    <3> DEFINE k == [listing EXCEPT ![i].status = "active"]
    <3>1. /\ ListingOK(k, agents) /\ Keeps(listing, k) /\ Len(k) = Len(listing)
          /\ \A j \in 1..Len(listing) : j # i => k[j] = listing[j]
      BY <1>2, <1>3, StatusChange
    <3>2. listing' = k
      BY <1>8
    <3> HIDE DEF k
    <3>3. QED
      BY <3>1, <3>2
  <2>2. listing' \in Seq(Entry)
    BY <2>1 DEF ListingOK
  <2>3. RunOK(r, listing', agents)
    <3>1. agents <= agents
      BY <1>2
    <3>2. QED
      BY <1>2, <1>5, <2>1, <2>2, <3>1, RunStays
  <2>4. Ids = 1..Len(listing) /\ Ids' = 1..Len(listing)
    BY <1>2, <2>1, <2>2 DEF Ids
  <2>5. CleanOK(o)'
    <3>1. SUFFICES ASSUME clean'[o], NEW j \in Ids', listing'[j].agent = run'[o].agent, listing'[j].status = "active"
                   PROVE  j \in run'[o].todo \cup DOMAIN run'[o].map
      BY DEF CleanOK, Active
    <3>2. CASE j = i
      BY <1>3, <1>4, <1>6, <3>2
    <3>3. CASE j # i
      <4>1. listing'[j] = listing[j] /\ j \in Ids
        BY <2>1, <2>4, <3>3
      <4>2. clean[o]
        BY <1>8, <3>1, ActsIs
      <4>3. j \in Active(run[o].agent)
        BY <1>4, <1>6, <3>1, <4>1 DEF Active
      <4>4. j \in run[o].todo \cup DOMAIN run[o].map
        BY <1>1, <4>2, <4>3 DEF CleanOK, IInv
      <4>5. QED
        BY <1>4, <1>6, <4>4
    <3>4. QED
      BY <3>2, <3>3
  <2>6. /\ agents' \in Nat /\ agents <= agents' /\ RunOK(r, listing', agents') /\ ListingOK(listing', agents')
        /\ UNCHANGED <<file, runs, provider>>
    BY <1>1, <1>2, <2>1, <2>3
  <2>7. QED
    BY <1>1, <1>8, <2>1, <2>5, <2>6, ActStep
<1>9. QED
  BY <1>1, <1>7, <1>8

\* The run that is saved: its map is the whole catalogue and, after a clean run, everything active.
LEMMA SaveStep ==
    ASSUME IInv, NEW o \in Operator, Save(o)
    PROVE  IInv'
<1>1. /\ run[o].pc = "work" /\ run[o].todo = {} /\ settled' = clean[o] /\ clean' = [p \in Operator |-> FALSE]
      /\ file' = [agent |-> run[o].agent, services |-> run[o].map]
      /\ run' = [run EXCEPT ![o] = Idle] /\ UNCHANGED <<agents, listing, runs, provider>>
  BY DEF Save, Ends
<1>2. /\ RunOK(run[o], listing, agents) /\ run[o] \in RunType /\ run \in [Operator -> RunType]
      /\ agents \in Nat /\ runs \in Nat /\ ListingOK(listing, agents) /\ Ids = 1..Len(listing)
  BY DEF IInv, ListingOK, Ids
<1>3. agents' \in Nat /\ runs' \in Nat /\ ListingOK(listing', agents') /\ settled' \in BOOLEAN
      /\ provider'.agent \in 0..agents' /\ DOMAIN provider'.map \subseteq Ids'
  BY <1>1, <1>2 DEF IInv, Ids
<1>4. /\ file' \in [agent : Nat, services : Maps] /\ file'.agent \in 0..agents'
      /\ (file' # NoFile => file'.agent # 0) /\ DOMAIN file'.services \subseteq Ids'
  BY <1>1, <1>2 DEF RunOK, RunType, Ids
<1>5. run' \in [Operator -> RunType] /\ \A p \in Operator : RunOK(run'[p], listing', agents')
  <2>1. RunOK(Idle, listing, agents)
    BY <1>2, IdleOK
  <2>2. Idle \in RunType
    BY <2>1 DEF RunOK
  <2>3. QED
    BY <1>1, <1>2, <2>1, <2>2 DEF IInv
<1>6. clean' \in [Operator -> BOOLEAN] /\ \A p \in Operator : CleanOK(p)'
  BY <1>1 DEF CleanOK
<1>7. SettledCatalogueIsWhole'
  <2>1. SUFFICES ASSUME clean[o], NEW i \in Ids, listing[i].agent = run[o].agent, listing[i].status = "active"
                 PROVE  i \in DOMAIN run[o].map /\ run[o].map[i] = listing[i].slug
    BY <1>1 DEF SettledCatalogueIsWhole, Active, Ids
  <2>2. i \in DOMAIN run[o].map
    BY <1>1, <2>1 DEF CleanOK, IInv, Active
  <2>3. QED
    BY <1>2, <2>2 DEF RunOK
<1>8. QED
  BY <1>3, <1>4, <1>5, <1>6, <1>7 DEF IInv

\* The provider and the buyers leave the catalogue alone.
LEMMA ProviderStep ==
    ASSUME IInv, Start \/ Stop \/ Buy
    PROVE  IInv'
<1>1. UNCHANGED <<agents, listing, file, run, runs, clean, settled>>
  BY DEF Start, Stop, Buy
<1>2. provider'.agent \in 0..agents /\ DOMAIN provider'.map \subseteq Ids
  <2>1. CASE Start
    BY <2>1 DEF Start, Resolved, IInv
  <2>2. CASE Stop
    BY <2>2, EmptyMap DEF Stop, Off, IInv
  <2>3. CASE Buy
    BY <2>3 DEF Buy, IInv
  <2>4. QED
    BY <2>1, <2>2, <2>3
<1>3. \A o \in Operator : CleanOK(o)'
  BY <1>1 DEF IInv, CleanOK, Active, Ids
<1>4. SettledCatalogueIsWhole'
  BY <1>1 DEF IInv, SettledCatalogueIsWhole, Active, Ids
<1>5. QED
  BY <1>1, <1>2, <1>3, <1>4 DEF IInv, Ids

-----------------------------------------------------------------------------
(* What is sold *)

\* p holds the presets of a service and a true value for each of its required fields.
Given(spec, p) ==
    /\ \A f \in DOMAIN spec.preset : f \in DOMAIN p /\ p[f] = spec.preset[f]
    /\ \A f \in spec.required : Truthy(p, f)

\* No buyer may say what a service presets; given the rest, the second validation lets the
\* parameters pass and the handler ends with the kind of result that is advertised.
Delivers(slug, spec) ==
    /\ DOMAIN spec.preset \intersect Allowed(spec) = {}
    /\ \A p, dome : Given(spec, p) =>
          /\ Permits(spec.capability, p)
          /\ Outcomes(spec.capability, p, dome) \subseteq {Advertised[slug], "error"}

LEMMA MarketDelivers == \A slug \in DOMAIN MarketServices : Delivers(slug, MarketServices[slug])
<1> USE DEF Service, Delivers, Given, Allowed, Permits, Get, Truthy, Outcomes, Market, Advertised
<1>1. Delivers("market_search", Service("market_query", [action |-> "search"], {"query"}, {}))
  OBVIOUS
<1>2. Delivers("market_detail", Service("market_query", [action |-> "detail"], {"market_id"}, {}))
  OBVIOUS
<1>3. QED
  BY <1>1, <1>2 DEF MarketServices

LEMMA StrategyDelivers == \A slug \in DOMAIN StrategyServices : Delivers(slug, StrategyServices[slug])
<1> USE DEF Service, Delivers, Given, Allowed, Permits, Get, Truthy, Outcomes, Strategy, Advertised
<1>1. Delivers("strategy_list", Service("strategy", [action |-> "list"], {}, {}))
  OBVIOUS
<1>2. Delivers("strategy_scan_convergence", Service("strategy", [action |-> "scan"], {}, {}))
  OBVIOUS
<1>3. QED
  BY <1>1, <1>2 DEF StrategyServices

LEMMA AnalysisDelivers == \A slug \in DOMAIN AnalysisServices : Delivers(slug, AnalysisServices[slug])
<1> USE DEF Service, Delivers, Given, Allowed, Permits, Get, Truthy, Outcomes, Analysis, Advertised
<1>1. Delivers("analysis_ask", Service("analysis", [action |-> "ask"], {"question"}, {}))
  OBVIOUS
<1>2. Delivers("analysis_scan", Service("analysis", [action |-> "scan"], {}, {"category"}))
  OBVIOUS
<1>3. QED
  BY <1>1, <1>2 DEF AnalysisServices

LEMMA NbaDelivers == \A slug \in DOMAIN NbaServices : Delivers(slug, NbaServices[slug])
<1> USE DEF Feed, Service, Delivers, Given, Allowed, Permits, Get, DATA_FEED_DOMAINS, Truthy, Outcomes, DataFeed, Nba, Query, Advertised
<1>1. Delivers("nba_list", Feed("nba", "list", {}, {}))
  OBVIOUS
<1>2. Delivers("nba_detail", Feed("nba", "detail", {"game_id"}, {}))
  OBVIOUS
<1>3. Delivers("nba_fusion", Feed("nba", "fusion", {"game_id"}, {}))
  OBVIOUS
<1>4. QED
  BY <1>1, <1>2, <1>3 DEF NbaServices

LEMMA BtcDelivers == \A slug \in DOMAIN BtcServices : Delivers(slug, BtcServices[slug])
<1> USE DEF Feed, Service, Delivers, Given, Allowed, Permits, Get, DATA_FEED_DOMAINS, Truthy, Outcomes, DataFeed, Btc, Query, Advertised
<1>1. Delivers("btc_list", Feed("btc", "list", {}, {}))
  OBVIOUS
<1>2. Delivers("btc_detail", Feed("btc", "detail", {"timeframe"}, {}))
  OBVIOUS
<1>3. Delivers("btc_fusion", Feed("btc", "fusion", {"timeframe"}, {}))
  OBVIOUS
<1>4. QED
  BY <1>1, <1>2, <1>3 DEF BtcServices

LEMMA CryptoDelivers == \A slug \in DOMAIN CryptoServices : Delivers(slug, CryptoServices[slug])
<1> USE DEF Feed, Service, Delivers, Given, Allowed, Permits, Get, DATA_FEED_DOMAINS, Truthy, Outcomes, DataFeed, Crypto, Query, Advertised
<1>1. Delivers("crypto_overview", Feed("crypto", "overview", {}, {"symbol"}))
  OBVIOUS
<1>2. Delivers("crypto_funding", Feed("crypto", "funding", {}, {"symbol"}))
  OBVIOUS
<1>3. Delivers("crypto_oi", Feed("crypto", "oi", {}, {"symbol"}))
  OBVIOUS
<1>4. Delivers("crypto_liquidations", Feed("crypto", "liquidations", {}, {"symbol"}))
  OBVIOUS
<1>5. Delivers("crypto_sentiment", Feed("crypto", "sentiment", {}, {"symbol"}))
  OBVIOUS
<1>6. QED
  BY <1>1, <1>2, <1>3, <1>4, <1>5 DEF CryptoServices

LEMMA WeatherDelivers == \A slug \in DOMAIN WeatherServices : Delivers(slug, WeatherServices[slug])
<1> USE DEF Feed, Service, Delivers, Given, Allowed, Permits, Get, DATA_FEED_DOMAINS, Truthy, Outcomes, DataFeed, Weather, Query, Advertised
<1>1. Delivers("weather_dates", Feed("weather", "dates", {}, {}))
  OBVIOUS
<1>2. Delivers("weather_cities", Feed("weather", "cities", {"date"}, {}))
  OBVIOUS
<1>3. Delivers("weather_fusion", Feed("weather", "fusion", {"date", "city"}, {}))
  OBVIOUS
<1>4. QED
  BY <1>1, <1>2, <1>3 DEF WeatherServices

LEMMA SportsDelivers == \A slug \in DOMAIN SportsServices : Delivers(slug, SportsServices[slug])
<1> USE DEF Feed, Service, Delivers, Given, Allowed, Permits, Get, DATA_FEED_DOMAINS, Truthy, Outcomes, DataFeed, Sports, Query, Advertised
<1>1. Delivers("sports_categories", Feed("sports", "categories", {}, {}))
  OBVIOUS
<1>2. Delivers("sports_events", Feed("sports", "list", {"sport"}, {}))
  OBVIOUS
<1>3. QED
  BY <1>1, <1>2 DEF SportsServices

LEMMA SportsOddsDelivers == \A slug \in DOMAIN SportsOddsServices : Delivers(slug, SportsOddsServices[slug])
<1> USE DEF Feed, Service, Delivers, Given, Allowed, Permits, Get, DATA_FEED_DOMAINS, Truthy, Outcomes, DataFeed, SportsOdds, Query, Advertised
<1>1. Delivers("sports_odds_sports", Feed("sports_odds", "sports", {}, {}))
  OBVIOUS
<1>2. Delivers("sports_odds_bookmaker", Feed("sports_odds", "odds", {"sport"}, {}))
  OBVIOUS
<1>3. Delivers("sports_odds_scores", Feed("sports_odds", "scores", {"sport"}, {}))
  OBVIOUS
<1>4. Delivers("sports_odds_opportunities", Feed("sports_odds", "opportunities", {}, {"min_bias_bps"}))
  OBVIOUS
<1>5. QED
  BY <1>1, <1>2, <1>3, <1>4 DEF SportsOddsServices

LEMMA DomeMarketDelivers == \A slug \in DOMAIN DomeMarketServices : Delivers(slug, DomeMarketServices[slug])
<1> USE DEF Feed, Service, Delivers, Given, Allowed, Permits, Get, DATA_FEED_DOMAINS, Truthy, Outcomes, DataFeed, DomeMarkets, Query, Advertised
<1>1. Delivers("dome_markets_list", Feed("dome_markets", "list", {}, {"market_slug", "query"}))
  OBVIOUS
<1>2. Delivers("dome_markets_candles", Feed("dome_markets", "candlesticks", {"market_slug"}, {}))
  OBVIOUS
<1>3. QED
  BY <1>1, <1>2 DEF DomeMarketServices

LEMMA DomeArbDelivers == \A slug \in DOMAIN DomeArbServices : Delivers(slug, DomeArbServices[slug])
<1> USE DEF Feed, Service, Delivers, Given, Allowed, Permits, Get, DATA_FEED_DOMAINS, Truthy, Outcomes, DataFeed, DomeArb, Query, Advertised
<1>1. Delivers("dome_arb_spreads", Feed("dome_arbitrage", "spreads", {}, {"min_spread_bps"}))
  OBVIOUS
<1>2. Delivers("dome_arb_opportunities", Feed("dome_arbitrage", "opportunities", {}, {"min_spread_bps"}))
  OBVIOUS
<1>3. QED
  BY <1>1, <1>2 DEF DomeArbServices

LEMMA DomeWalletDelivers == \A slug \in DOMAIN DomeWalletServices : Delivers(slug, DomeWalletServices[slug])
<1> USE DEF Feed, Service, Delivers, Given, Allowed, Permits, Get, DATA_FEED_DOMAINS, Truthy, Outcomes, DataFeed, DomeWallets, Query, Advertised
<1>1. Delivers("dome_wallet_positions", Feed("dome_wallets", "positions", {"wallet_address"}, {}))
  OBVIOUS
<1>2. Delivers("dome_wallet_pnl", Feed("dome_wallets", "pnl", {"wallet_address"}, {}))
  OBVIOUS
<1>3. QED
  BY <1>1, <1>2 DEF DomeWalletServices

LEMMA DomeLiveDelivers == \A slug \in DOMAIN DomeLiveServices : Delivers(slug, DomeLiveServices[slug])
<1> USE DEF Feed, Service, Delivers, Given, Allowed, Permits, Get, DATA_FEED_DOMAINS, Truthy, Outcomes, DataFeed, DomeCrypto, DomeEvents, Query, Advertised
<1>1. Delivers("dome_crypto_price", Service("data_feed", [feed |-> "dome_crypto"], {}, {"symbol", "source"}))
  OBVIOUS
<1>2. Delivers("dome_events_list", Feed("dome_events", "list", {}, {}))
  OBVIOUS
<1>3. Delivers("dome_events_activity", Feed("dome_events", "activity", {}, {}))
  OBVIOUS
<1>4. QED
  BY <1>1, <1>2, <1>3 DEF DomeLiveServices

LEMMA KalshiDelivers == \A slug \in DOMAIN KalshiServices : Delivers(slug, KalshiServices[slug])
<1> USE DEF Feed, Service, Delivers, Given, Allowed, Permits, Get, DATA_FEED_DOMAINS, Truthy, Outcomes, DataFeed, Kalshi, Query, Advertised
<1>1. Delivers("kalshi_markets", Feed("kalshi", "markets", {}, {"query"}))
  OBVIOUS
<1>2. Delivers("kalshi_price", Feed("kalshi", "price", {"ticker"}, {}))
  OBVIOUS
<1>3. Delivers("kalshi_trades", Feed("kalshi", "trades", {"ticker"}, {}))
  OBVIOUS
<1>4. Delivers("kalshi_orderbook", Feed("kalshi", "orderbook", {"ticker"}, {}))
  OBVIOUS
<1>5. QED
  BY <1>1, <1>2, <1>3, <1>4 DEF KalshiServices

LEMMA CatalogueDelivers == \A slug \in Slugs : Delivers(slug, SPECS[slug])
<1> TAKE slug \in Slugs
<1>1. PICK g \in Groups : slug \in DOMAIN g /\ SPECS[slug] = g[slug]
  BY DEF Slugs, SPECS
<1>2. QED
  BY <1>1, MarketDelivers, StrategyDelivers, AnalysisDelivers, NbaDelivers, BtcDelivers, CryptoDelivers,
     WeatherDelivers, SportsDelivers, SportsOddsDelivers, DomeMarketDelivers, DomeArbDelivers,
     DomeWalletDelivers, DomeLiveDelivers, KalshiDelivers DEF Groups

\* A requirement with a true value for each required field leaves nothing to be desired.
LEMMA MergeGiven ==
    ASSUME NEW spec, NEW req, DOMAIN spec.preset \intersect Allowed(spec) = {},
           \A f \in spec.required : f \in DOMAIN req /\ req[f] \notin {"empty", "null", "zero"}
    PROVE  Given(spec, Merge(spec, req))
<1>1. DOMAIN Merge(spec, req) = DOMAIN spec.preset \cup (DOMAIN req \cap Allowed(spec))
  BY DEF Merge
<1>2. \A f \in DOMAIN spec.preset : Merge(spec, req)[f] = spec.preset[f]
  BY DEF Merge
<1>3. ASSUME NEW f \in spec.required PROVE f \in DOMAIN Merge(spec, req) /\ Merge(spec, req)[f] = req[f]
  BY <1>1 DEF Merge, Allowed
<1>4. QED
  BY <1>1, <1>2, <1>3 DEF Given, Truthy

\* No handler ends with what the dispatcher itself answers.
LEMMA NeverTurnedAway ==
    ASSUME NEW capability, NEW p, NEW dome
    PROVE  "unknown" \notin Outcomes(capability, p, dome) /\ "invalid" \notin Outcomes(capability, p, dome)
<1> DEFINE Works(S) == "unknown" \notin S /\ "invalid" \notin S
<1>1. Works(Market(p)) /\ Works(Strategy(p)) /\ Works(Analysis(p))
  BY DEF Market, Strategy, Analysis
<1>2. Works(Nba(p)) /\ Works(Btc(p)) /\ Works(Crypto(p)) /\ Works(Weather(p)) /\ Works(Sports(p))
  BY DEF Nba, Btc, Crypto, Weather, Sports, Query
<1>3. Works(SportsOdds(p)) /\ Works(DomeMarkets(p)) /\ Works(DomeArb(p)) /\ Works(DomeWallets(p))
  BY DEF SportsOdds, DomeMarkets, DomeArb, DomeWallets, Query
<1>4. Works(DomeCrypto(p)) /\ Works(DomeEvents(p)) /\ Works(Kalshi(p))
  BY DEF DomeCrypto, DomeEvents, Kalshi, Query
<1>5. Works(DataFeed(p, dome))
  BY <1>2, <1>3, <1>4 DEF DataFeed
<1>6. QED
  BY <1>1, <1>5 DEF Outcomes

\* Every slug in the map m is one of this release.
OfRelease(m) == \A i \in DOMAIN m : m[i] \in Slugs

\* The map m calls services what they are listed as.
TrueOf(m, l) == \A i \in DOMAIN m : m[i] = l[i].slug

\* What the file and the provider call a service is what it is listed as; the provider, the runs
\* and a settled file know services of this release only.
Truthful ==
    /\ TrueOf(file.services, listing) /\ TrueOf(provider.map, listing)
    /\ OfRelease(provider.map) /\ \A o \in Operator : OfRelease(run[o].map)
    /\ settled => OfRelease(file.services)

SalesOK == AnswerIsAdvertised /\ ConformingIsAccepted /\ UnknownServiceHasCause

LEMMA InitSales == Init => Truthful /\ SalesOK
<1> SUFFICES ASSUME Init PROVE Truthful /\ SalesOK
  OBVIOUS
<1>1. PICK s \in Situations : listing = s.listing /\ file = s.file
  BY DEF Init
<1>2. \A i \in DOMAIN file.services : file.services[i] = listing[i].slug
  BY <1>1, SituationsAssumption DEF Installation
<1>3. DOMAIN provider.map = {} /\ \A o \in Operator : DOMAIN run[o].map = {}
  BY EmptyMap DEF Init, Off, Idle
<1>4. SalesOK
  BY DEF Init, NoSale, SalesOK, AnswerIsAdvertised, ConformingIsAccepted, UnknownServiceHasCause
<1>5. QED
  BY <1>2, <1>3, <1>4 DEF Truthful, Init, TrueOf, OfRelease

\* A service stays listed under its slug.
LEMMA ListingStays ==
    ASSUME IInv, [Next]_vars
    PROVE  Keeps(listing, listing')
<1>1. /\ listing \in Seq(Entry) /\ Len(listing) \in Nat /\ ListingOK(listing, agents) /\ agents \in Nat
      /\ \A o \in Operator : RunOK(run[o], listing, agents)
  BY DEF IInv, ListingOK
<1>2. ASSUME listing' = listing PROVE Keeps(listing, listing')
  BY <1>1, <1>2 DEF Keeps
<1>3. ASSUME NEW i \in 1..Len(listing), NEW status \in {"active", "inactive"},
             listing' = [listing EXCEPT ![i].status = status]
      PROVE  Keeps(listing, listing')
  BY <1>1, <1>3, StatusChange
<1>4. ASSUME NEW a, NEW slug, NEW status, listing' = Listed(a, slug, status) PROVE Keeps(listing, listing')
  <2> DEFINE e == [agent |-> a, slug |-> slug, status |-> status]
  <2>1. listing' = Append(listing, e)
    BY <1>4 DEF Listed
  <2> HIDE DEF e
  <2>2. Len(Append(listing, e)) = Len(listing) + 1
    BY <1>1
  <2>3. \A j \in 1..Len(listing) : Append(listing, e)[j] = listing[j]
    BY <1>1
  <2>4. QED
    BY <1>1, <2>1, <2>2, <2>3 DEF Keeps
<1>5. CASE UNCHANGED vars \/ Start \/ Stop \/ Buy
  BY <1>2, <1>5 DEF vars, Start, Stop, Buy
<1>6. ASSUME NEW o \in Operator, SetupStep(o) PROVE Keeps(listing, listing')
  <2>1. CASE Rebuild(o) \/ Setup(o) \/ ListServices(o) \/ Save(o) \/ Abort(o)
    BY <1>2, <2>1 DEF Rebuild, Setup, ListServices, Save, Abort
  <2>2. CASE Deactivate(o)
    <3>1. PICK i \in run[o].todo : listing' = [listing EXCEPT ![i].status = "inactive"] \/ listing' = listing
      BY <2>2 DEF Deactivate
    <3>2. i \in 1..Len(listing)
      BY <1>1 DEF RunOK
    <3>3. QED
      BY <1>2, <1>3, <3>1, <3>2
  <2>3. CASE SetupAgent(o)
    BY <1>2, <1>4, <2>3 DEF SetupAgent
  <2>4. CASE Create(o)
    BY <1>4, <2>4 DEF Create
  <2>5. CASE Activate(o)
    <3>1. listing' = [listing EXCEPT ![run[o].id].status = "active"] \/ listing' = listing
      BY <2>5 DEF Activate
    <3>2. run[o].id \in 1..Len(listing)
      BY <1>1, <2>5 DEF RunOK, Activate
    <3>3. QED
      BY <1>2, <1>3, <3>1, <3>2
  <2>6. QED
    BY <1>6, <2>1, <2>2, <2>3, <2>4, <2>5 DEF SetupStep
<1>7. QED
  BY <1>5, <1>6 DEF Next

\* A run maps services of this release only.
LEMMA RunMaps ==
    ASSUME IInv, [Next]_vars, \A o \in Operator : OfRelease(run[o].map)
    PROVE  \A o \in Operator : OfRelease(run'[o].map)
<1> TAKE p \in Operator
<1>1. /\ run \in [Operator -> RunType] /\ NewId \in Nat
      /\ Offered \in Seq(Slugs \intersect STRING) /\ Len(Offered) \in Nat /\ 1 <= Len(Offered)
  BY OfferedAssumption DEF IInv, ListingOK, NewId
<1>2. OfRelease(Idle.map)
  BY EmptyMap DEF Idle, OfRelease
<1>3. ASSUME NEW o \in Operator, NEW r, run' = [run EXCEPT ![o] = r], OfRelease(r.map)
      PROVE  OfRelease(run'[p].map)
  BY <1>1, <1>3
<1>4. ASSUME run' = run PROVE OfRelease(run'[p].map)
  BY <1>4
<1>5. ASSUME NEW n \in 1..Len(Offered), NEW m \in Maps, OfRelease(m)
      PROVE  OfRelease(With(m, NewId, Offered[n]))
  <2>1. Offered[n] \in Slugs /\ Offered[n] \in STRING
    BY <1>1
  <2>2. PICK slug \in STRING : slug = Offered[n] /\ slug \in Slugs
    BY <2>1
  <2>3. PICK id \in Nat : id = NewId
    BY <1>1
  <2>4. /\ DOMAIN With(m, id, slug) = DOMAIN m \cup {id} /\ With(m, id, slug)[id] = slug
        /\ \A i \in DOMAIN m : i # id => With(m, id, slug)[i] = m[i]
    BY <1>5, <2>2, <2>3, WithIs, Zenon
  <2>5. OfRelease(With(m, id, slug))
    BY <1>5, <2>2, <2>4 DEF OfRelease
  <2>6. QED
    BY <2>2, <2>3, <2>5
<1>6. CASE UNCHANGED vars \/ Start \/ Stop \/ Buy
  BY <1>4, <1>6 DEF vars, Start, Stop, Buy
<1>7. ASSUME NEW o \in Operator, SetupStep(o) PROVE OfRelease(run'[p].map)
  <2>1. run[o] \in RunType /\ run[o].map \in Maps /\ OfRelease(run[o].map)
    BY <1>1 DEF RunType
  <2>2. ASSUME NEW r, r.map = run[o].map, Advance(o, r) PROVE OfRelease(run'[p].map)
    BY <1>3, <2>1, <2>2 DEF Advance
  <2>3. ASSUME NEW r, r.map = Idle.map, Advance(o, r) PROVE OfRelease(run'[p].map)
    BY <1>2, <1>3, <2>3 DEF Advance
  <2>4. ASSUME Ends(o) PROVE OfRelease(run'[p].map)
    BY <1>2, <1>3, <2>4 DEF Ends
  <2>5. CASE Rebuild(o)
    <3> DEFINE r == [Idle EXCEPT !.pc = "list", !.agent = file.agent]
    <3>1. r.map = Idle.map /\ Advance(o, r)
      BY <2>5 DEF Rebuild, Idle
    <3> HIDE DEF r
    <3>2. QED
      BY <2>3, <3>1
  <2>6. CASE Setup(o)
    <3> DEFINE r == [Idle EXCEPT !.pc = "setup"]
    <3>1. r.map = Idle.map /\ Advance(o, r)
      BY <2>6 DEF Setup, Idle
    <3> HIDE DEF r
    <3>2. QED
      BY <2>3, <3>1
  <2>7. CASE ListServices(o)
    <3> DEFINE r == [run[o] EXCEPT !.pc = "work", !.todo = Active(run[o].agent)]
    <3>1. r.map = run[o].map /\ Advance(o, r)
      BY <2>1, <2>7 DEF ListServices, RunType
    <3> HIDE DEF r
    <3>2. QED
      BY <2>2, <3>1
  <2>8. CASE Deactivate(o)
    <3>1. PICK i \in run[o].todo : Advance(o, [run[o] EXCEPT !.todo = @ \ {i}])
      BY <2>8 DEF Deactivate
    <3> DEFINE r == [run[o] EXCEPT !.todo = @ \ {i}]
    <3>2. r.map = run[o].map /\ Advance(o, r)
      BY <2>1, <3>1 DEF RunType
    <3> HIDE DEF r
    <3>3. QED
      BY <2>2, <3>2
  <2>9. CASE Activate(o)
    <3> DEFINE r == [run[o] EXCEPT !.pc = "work", !.id = 0]
    <3>1. r.map = run[o].map /\ Advance(o, r)
      BY <2>1, <2>9 DEF Activate, RunType
    <3> HIDE DEF r
    <3>2. QED
      BY <2>2, <3>1
  <2>10. CASE SetupAgent(o)
    <3>1. CASE Advance(o, [run[o] EXCEPT !.pc = "work", !.agent = agents + 1, !.map = With(<<>>, NewId, Offered[1])])
      <4> DEFINE m == With(<<>>, NewId, Offered[1])
      <4>1. OfRelease(m)
        <5>1. PICK e : e = <<>>
          OBVIOUS
        <5>2. e \in Maps /\ OfRelease(e) /\ 1 \in 1..Len(Offered)
          BY <1>1, <5>1, EmptyMap DEF OfRelease
        <5>3. OfRelease(With(e, NewId, Offered[1]))
          BY <1>5, <5>2
        <5>4. QED
          BY <5>1, <5>3
      <4> HIDE DEF m
      <4> DEFINE r == [run[o] EXCEPT !.pc = "work", !.agent = agents + 1, !.map = m]
      <4>2. r.map = m /\ Advance(o, r)
        BY <2>1, <3>1 DEF RunType, m
      <4> HIDE DEF r
      <4>3. QED
        BY <1>3, <4>1, <4>2 DEF Advance
    <3>2. QED
      BY <2>4, <2>10, <3>1 DEF SetupAgent
  <2>11. CASE Create(o)
    <3> DEFINE n == Cardinality(DOMAIN run[o].map) + 1
    <3>1. n \in 1..Len(Offered)
      <4>1. Cardinality(DOMAIN run[o].map) \in Nat
        BY FS_CardinalityType DEF IInv, RunOK
      <4>2. QED
        BY <1>1, <2>11, <4>1 DEF Create
    <3>2. Ends(o) \/ Advance(o, [run[o] EXCEPT !.pc = "activate", !.id = NewId, !.map = With(@, NewId, Offered[n])])
      BY <2>11 DEF Create
    <3> HIDE DEF n
    <3>3. CASE Advance(o, [run[o] EXCEPT !.pc = "activate", !.id = NewId, !.map = With(@, NewId, Offered[n])])
      <4> DEFINE r == Created(run[o], NewId, Offered[n])
      <4>1. r.map = With(run[o].map, NewId, Offered[n]) /\ Advance(o, r)
        BY <2>1, <3>3 DEF RunType, Created
      <4>2. OfRelease(With(run[o].map, NewId, Offered[n]))
        BY <1>5, <2>1, <3>1
      <4> HIDE DEF r
      <4>3. QED
        BY <1>3, <4>1, <4>2 DEF Advance
    <3>4. QED
      BY <2>4, <3>2, <3>3
  <2>12. CASE Save(o) \/ Abort(o)
    BY <2>4, <2>12 DEF Save, Abort
  <2>13. QED
    BY <1>7, <2>5, <2>6, <2>7, <2>8, <2>9, <2>10, <2>11, <2>12 DEF SetupStep
<1>8. QED
  BY <1>6, <1>7 DEF Next

LEMMA TrueStays ==
    ASSUME NEW m, NEW l \in Seq(Entry), NEW k, TrueOf(m, l), Keeps(l, k), DOMAIN m \subseteq 1..Len(l)
    PROVE  TrueOf(m, k)
BY DEF TrueOf, Keeps

\* Only a save replaces the file.
LEMMA FileStays ==
    ASSUME [Next]_vars
    PROVE  \/ \E o \in Operator : Save(o)
           \/ file' = file /\ (settled' => settled)
<1>1. CASE UNCHANGED vars \/ Start \/ Stop \/ Buy
  BY <1>1 DEF vars, Start, Stop, Buy
<1>2. ASSUME NEW o \in Operator, SetupStep(o) PROVE Save(o) \/ (file' = file /\ (settled' => settled))
  BY <1>2 DEF SetupStep, Rebuild, Setup, ListServices, Deactivate, SetupAgent, Create, Activate, Abort, Acts
<1>3. QED
  BY <1>1, <1>2 DEF Next

\* The provider changes when it starts or stops.
LEMMA ProviderStays ==
    ASSUME [Next]_vars
    PROVE  \/ provider' = provider
           \/ provider' = Off
           \/ provider'.map = Resolved(file.services) /\ file' = file
<1>1. CASE UNCHANGED vars \/ Stop \/ Buy
  BY <1>1 DEF vars, Stop, Buy
<1>2. CASE Start
  BY <1>2 DEF Start
<1>3. ASSUME NEW o \in Operator, SetupStep(o) PROVE provider' = provider
  BY <1>3 DEF SetupStep, Rebuild, Setup, ListServices, Deactivate, SetupAgent, Create, Activate, Save, Abort
<1>4. QED
  BY <1>1, <1>2, <1>3 DEF Next

LEMMA TruthfulStep == ASSUME IInv, Truthful, [Next]_vars PROVE Truthful'
<1>1. /\ listing \in Seq(Entry) /\ Keeps(listing, listing') /\ Ids = 1..Len(listing)
      /\ DOMAIN file.services \subseteq Ids /\ DOMAIN provider.map \subseteq Ids
      /\ \A o \in Operator : RunOK(run[o], listing, agents)
  BY ListingStays DEF IInv, ListingOK, Ids
<1>2. TrueOf(file.services, listing) /\ TrueOf(provider.map, listing) /\ OfRelease(provider.map)
      /\ \A o \in Operator : OfRelease(run[o].map)
  BY DEF Truthful
<1>3. \A o \in Operator : OfRelease(run'[o].map)
  BY <1>2, RunMaps
<1>4. TrueOf(file.services, listing')
  BY <1>1, <1>2, TrueStays
<1>5. TrueOf(file'.services, listing') /\ (settled' => OfRelease(file'.services))
  <2>1. CASE file' = file /\ (settled' => settled)
    BY <1>4, <2>1 DEF Truthful
  <2>2. ASSUME NEW o \in Operator, Save(o) PROVE TrueOf(file'.services, listing') /\ OfRelease(file'.services)
    <3>1. file'.services = run[o].map /\ listing' = listing
      BY <2>2 DEF Save
    <3>2. TrueOf(run[o].map, listing)
      BY <1>1 DEF RunOK, TrueOf
    <3>3. QED
      BY <1>2, <3>1, <3>2
  <2>3. QED
    BY <2>1, <2>2, FileStays
<1>6. TrueOf(provider'.map, listing') /\ OfRelease(provider'.map)
  <2>1. CASE provider' = provider
    BY <1>1, <1>2, <2>1, TrueStays
  <2>2. CASE provider' = Off
    BY <2>2, EmptyMap DEF Off, TrueOf, OfRelease
  <2>3. CASE provider'.map = Resolved(file.services)
    <3>1. TrueOf(Resolved(file.services), listing') /\ OfRelease(Resolved(file.services))
      BY <1>4 DEF Resolved, TrueOf, OfRelease
    <3>2. QED
      BY <2>3, <3>1
  <2>4. QED
    BY <2>1, <2>2, <2>3, ProviderStays
<1>7. QED
  BY <1>3, <1>5, <1>6 DEF Truthful

\* An accepted requirement without false values is answered with what is advertised.
LEMMA AnswerIs ==
    ASSUME NEW slug \in Slugs, NEW req, NEW dome, Accepts(SPECS[slug], req),
           ~ \E f \in SPECS[slug].required \intersect DOMAIN req : req[f] = "zero"
    PROVE  Outcomes(SPECS[slug].capability, Merge(SPECS[slug], req), dome) \subseteq {Advertised[slug], "error"}
<1>1. PICK spec : spec = SPECS[slug]
  OBVIOUS
<1>2. Delivers(slug, spec)
  BY <1>1, CatalogueDelivers
<1>3. \A f \in spec.required : f \in DOMAIN req /\ req[f] \notin {"empty", "null", "zero"}
  BY <1>1 DEF Accepts, Binds
<1>4. DOMAIN spec.preset \intersect Allowed(spec) = {}
  BY <1>2 DEF Delivers
<1>5. Given(spec, Merge(spec, req))
  BY <1>3, <1>4, MergeGiven
<1>6. QED
  BY <1>1, <1>2, <1>5 DEF Delivers

\* A requirement that follows the schema, with strings that say something, is accepted.
LEMMA ConformingIs ==
    ASSUME NEW slug \in Slugs, NEW req, Conforms(SPECS[slug], req), \A f \in SPECS[slug].required : req[f] = "word"
    PROVE  Accepts(SPECS[slug], req)
<1>1. PICK spec : spec = SPECS[slug]
  OBVIOUS
<1>2. Delivers(slug, spec)
  BY <1>1, CatalogueDelivers
<1>3. DOMAIN spec.preset \intersect Allowed(spec) = {}
  BY <1>2 DEF Delivers
<1>4. \A f \in spec.required : f \in DOMAIN req /\ req[f] = "word"
  BY <1>1 DEF Conforms
<1>5. Given(spec, Merge(spec, req))
  BY <1>3, <1>4, MergeGiven
<1>6. Permits(spec.capability, Merge(spec, req))
  BY <1>2, <1>5 DEF Delivers
<1>7. Binds(spec, req)
  BY <1>1, <1>3, <1>4 DEF Binds, Conforms
<1>8. QED
  BY <1>1, <1>6, <1>7 DEF Accepts

LEMMA BuyStep == ASSUME IInv, Truthful, Buy PROVE SalesOK'
<1> DEFINE Sold(id, req, result) ==
             [slug |-> listing[id].slug, result |-> result,
              conforming |-> /\ Conforms(Published(listing[id].slug), req)
                             /\ \A f \in Published(listing[id].slug).required : req[f] = "word",
              falsy |-> \E f \in Published(listing[id].slug).required \intersect DOMAIN req : req[f] = "zero",
              current |-> Current]
<1>1. PICK id \in Active(provider.agent) :
         \E req : \E result \in Answers(id, req) : sale' = Sold(id, req, result)
  BY DEF Buy
<1>2. PICK req : \E r \in Answers(id, req) : sale' = Sold(id, req, r)
  BY <1>1
<1>3. PICK result \in Answers(id, req) : sale' = Sold(id, req, result)
  BY <1>2
<1>4. /\ sale'.slug = listing[id].slug /\ sale'.result = result
      /\ sale'.conforming => /\ Conforms(Published(listing[id].slug), req)
                             /\ \A f \in Published(listing[id].slug).required : req[f] = "word"
      /\ sale'.falsy <=> \E f \in Published(listing[id].slug).required \intersect DOMAIN req : req[f] = "zero"
      /\ sale'.current => Current
  BY <1>3
<1>5. CASE id \notin DOMAIN provider.map
  <2>1. result = "unknown"
    BY <1>3, <1>5 DEF Answers
  <2>2. ~Current
    <3> SUFFICES ASSUME Current PROVE FALSE
      OBVIOUS
    <3>1. id \in Active(file.agent) /\ settled /\ provider.map = Resolved(file.services)
      BY DEF Current
    <3>2. id \in DOMAIN file.services
      BY <3>1 DEF IInv, SettledCatalogueIsWhole
    <3>3. file.services[id] \in Slugs
      BY <3>1, <3>2 DEF Truthful, OfRelease
    <3>4. id \in DOMAIN Resolved(file.services)
      BY <3>2, <3>3 DEF Resolved
    <3>5. QED
      BY <1>5, <3>1, <3>4
  <2>3. QED
    BY <1>4, <2>1, <2>2 DEF SalesOK, AnswerIsAdvertised, ConformingIsAccepted, UnknownServiceHasCause
<1>6. CASE id \in DOMAIN provider.map
  <2>1. PICK slug \in Slugs : slug = provider.map[id] /\ slug = listing[id].slug
    BY <1>6 DEF Truthful, TrueOf, OfRelease
  <2>2. PICK spec : spec = SPECS[slug] /\ spec = Published(listing[id].slug) /\ spec = SPECS[provider.map[id]]
    BY <2>1 DEF Published
  <2>3. CASE ~Accepts(spec, req)
    <3>1. result = "invalid"
      BY <1>3, <1>6, <2>2, <2>3 DEF Answers
    <3>2. ~sale'.conforming
      BY <1>4, <2>2, <2>3, ConformingIs
    <3>3. QED
      BY <1>4, <3>1, <3>2 DEF SalesOK, AnswerIsAdvertised, ConformingIsAccepted, UnknownServiceHasCause
  <2>4. CASE Accepts(spec, req)
    <3>1. result \in {"error"} \union Outcomes(spec.capability, Merge(spec, req), provider.dome)
      BY <1>3, <1>6, <2>2, <2>4 DEF Answers
    <3>2. result # "unknown" /\ result # "invalid"
      BY <3>1, NeverTurnedAway
    <3>3. sale'.falsy \/ result \in {Advertised[slug], "error"}
      <4> SUFFICES ASSUME ~sale'.falsy PROVE result \in {Advertised[slug], "error"}
        OBVIOUS
      <4>1. ~ \E f \in SPECS[slug].required \intersect DOMAIN req : req[f] = "zero"
        BY <1>4, <2>2
      <4>2. Outcomes(spec.capability, Merge(spec, req), provider.dome) \subseteq {Advertised[slug], "error"}
        BY <2>2, <2>4, <4>1, AnswerIs
      <4>3. QED
        BY <3>1, <4>2
    <3>4. QED
      BY <1>4, <2>1, <3>2, <3>3 DEF SalesOK, AnswerIsAdvertised, ConformingIsAccepted, UnknownServiceHasCause
  <2>5. QED
    BY <2>3, <2>4
<1>7. QED
  BY <1>5, <1>6

LEMMA SalesStep == ASSUME IInv, Truthful, SalesOK, [Next]_vars PROVE SalesOK'
<1>1. ASSUME sale' = sale \/ sale' = NoSale PROVE SalesOK'
  BY <1>1 DEF NoSale, SalesOK, AnswerIsAdvertised, ConformingIsAccepted, UnknownServiceHasCause
<1>2. CASE UNCHANGED vars \/ Start \/ Stop
  BY <1>1, <1>2 DEF vars, Start, Stop
<1>3. ASSUME NEW o \in Operator, SetupStep(o) PROVE SalesOK'
  BY <1>1, <1>3 DEF SetupStep, Rebuild, Setup, ListServices, Deactivate, SetupAgent, Create, Activate, Save,
                    Abort, Advance, Ends
<1>4. QED
  BY <1>2, <1>3, BuyStep DEF Next

-----------------------------------------------------------------------------
(* The theorems *)

LEMMA StepInv == IInv /\ [Next]_vars => IInv'
<1> SUFFICES ASSUME IInv, [Next]_vars PROVE IInv'
  OBVIOUS
<1>1. ASSUME NEW o \in Operator, SetupStep(o) PROVE IInv'
  BY <1>1, StartStep, ListStep, DeactivateStep, SetupAgentStep, CreateStep, ActivateStep, SaveStep, AbortStep
     DEF SetupStep
<1>2. CASE UNCHANGED vars
  <2>1. UNCHANGED <<agents, listing, file, run, runs, provider, clean, settled>>
    BY <1>2 DEF vars
  <2>2. \A o \in Operator : CleanOK(o)'
    BY <2>1 DEF IInv, CleanOK, Active, Ids
  <2>3. SettledCatalogueIsWhole'
    BY <2>1 DEF IInv, SettledCatalogueIsWhole, Active, Ids
  <2>4. QED
    BY <2>1, <2>2, <2>3 DEF IInv, Ids
<1>3. QED
  BY <1>1, <1>2, ProviderStep DEF Next

\* What is known of the catalogue holds in every reachable state: every run's map is the
\* beginning of the catalogue as listed for its agent, and a clean run has mapped, or is about
\* to deactivate, every active service of its agent (setup_cli._run_setup, _rebuild_services).
THEOREM Inductive == Spec => []IInv
<1>1. QED
  BY InitInv, StepInv, PTL DEF Spec

\* Every service a run, the file or the provider names exists at the marketplace, and a run
\* activates only a service it has mapped.
THEOREM TypeCorrect == Spec => []TypeOK
<1>1. IInv => TypeOK
  <2> SUFFICES ASSUME IInv PROVE TypeOK
    OBVIOUS
  <2>1. \A i \in Ids : /\ listing[i].agent \in 1..agents
                       /\ listing[i].status \in {"draft", "active", "inactive"}
    <3>1. listing \in Seq(Entry) /\ Ids = 1..Len(listing)
      BY DEF IInv, ListingOK, Ids
    <3>2. \A i \in 1..Len(listing) : listing[i] \in Entry
      BY <3>1, SeqElements
    <3>3. QED
      BY <3>1, <3>2 DEF IInv, ListingOK, Entry
  <2>2. \A o \in Operator :
          /\ run[o].pc \in {"idle", "list", "setup", "work", "activate"}
          /\ run[o].agent \in 0..agents
          /\ run[o].todo \subseteq Ids /\ DOMAIN run[o].map \subseteq Ids
          /\ run[o].pc = "activate" => run[o].id \in DOMAIN run[o].map
    <3>1. Ids = 1..Len(listing)
      BY DEF IInv, ListingOK, Ids
    <3>2. QED
      BY <3>1 DEF IInv, RunOK, RunType
  <2>3. QED
    BY <2>1, <2>2 DEF IInv, TypeOK
<1>2. QED
  BY <1>1, Inductive, PTL

\* SettledCatalogueIsWhole for any release, any situation to start from and any number of
\* operators: after a run that went well, every active service of the agent is in the file
\* under its slug.
THEOREM Settled == Spec => []SettledCatalogueIsWhole
<1>1. IInv => SettledCatalogueIsWhole
  BY DEF IInv
<1>2. QED
  BY <1>1, Inductive, PTL

\* FileChangesWhole for any release: only a complete catalogue is ever saved, whatever failed
\* calls and overlapping runs left behind (credentials.save is the last call of a run).
THEOREM FileWhole == Spec => FileChangesWhole
<1> DEFINE Whole == /\ \A n \in DOMAIN Offered : \E i \in DOMAIN file'.services : file'.services[i] = Offered[n]
                    /\ Cardinality(DOMAIN file'.services) = Len(Offered)
                    /\ \A i \in DOMAIN file'.services : /\ listing[i].agent = file'.agent
                                                        /\ listing[i].slug = file'.services[i]
<1>1. ASSUME IInv, [Next]_vars, file' # file PROVE Whole
  <2>1. PICK o \in Operator : Save(o)
    BY <1>1 DEF Next, vars, SetupStep, Start, Stop, Buy, Rebuild, Setup, ListServices, Deactivate,
                SetupAgent, Create, Activate, Abort
  <2>2. /\ file' = [agent |-> run[o].agent, services |-> run[o].map]
        /\ Cardinality(DOMAIN run[o].map) = Len(Offered)
    BY <2>1 DEF Save
  <2>3. RunOK(run[o], listing, agents)
    BY <1>1 DEF IInv
  <2>4. DOMAIN Offered = 1..Len(Offered)
    BY OfferedAssumption
  <2>5. QED
    BY <2>2, <2>3, <2>4 DEF RunOK
<1>2. IInv /\ [Next]_vars => [file' # file => Whole]_vars
  BY <1>1
<1>3. QED
  BY <1>2, Inductive, PTL DEF Spec, FileChangesWhole

\* The catalogue and what is sold of it, together.
THEOREM SoldAsListed == Spec => [](IInv /\ Truthful /\ SalesOK)
<1>1. IInv /\ Truthful /\ SalesOK /\ [Next]_vars => (IInv /\ Truthful /\ SalesOK)'
  BY StepInv, TruthfulStep, SalesStep
<1>2. Init => IInv /\ Truthful /\ SalesOK
  BY InitInv, InitSales
<1>3. QED
  BY <1>1, <1>2, PTL DEF Spec

\* AnswerIsAdvertised for any release and any requirement: whatever passes validate_against_binding
\* and validate_requirement takes, once merge_params has added the presets, the handler's branch
\* whose kind of result the service advertises, unless a required value is false without being a string.
THEOREM Advertising == Spec => []AnswerIsAdvertised
<1>1. SalesOK => AnswerIsAdvertised
  BY DEF SalesOK
<1>2. QED
  BY <1>1, SoldAsListed, PTL

\* ConformingIsAccepted for any release: requirement_schema_json promises no buyer more than the
\* two validations of croo_agent/services.py and validate_requirement accept.
THEOREM SchemaIsHonest == Spec => []ConformingIsAccepted
<1>1. SalesOK => ConformingIsAccepted
  BY DEF SalesOK
<1>2. QED
  BY <1>1, SoldAsListed, PTL

\* UnknownServiceHasCause for any release and any number of operators: a provider that runs with
\* the file of a clean run of setup_cli knows every active service of its agent.
THEOREM UnknownHasCause == Spec => []UnknownServiceHasCause
<1>1. SalesOK => UnknownServiceHasCause
  BY DEF SalesOK
<1>2. QED
  BY <1>1, SoldAsListed, PTL
=============================================================================
