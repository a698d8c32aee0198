--------------------------- MODULE ServicesProofs ---------------------------
(***************************************************************************)
(* Proofs about Services: what the unlocked table keeps, for any number of *)
(* workers, services and slots.                                            *)
(***************************************************************************)
EXTENDS Services, WellFoundedInduction, TLAPS

Names   == {Name[w] : w \in Workers} \cup {NoName}
Funs    == {Fun[w] : w \in Workers} \cup {Null}
Rows    == {Svrno[Name[w]] : w \in Workers} \cup {0}
SlotRec == [flags : {-1, 0}, name : Names, fun : Funs, svrid : Rows]
Steps   == {"out", "zero", "name", "fun", "number", "in", "clear", "call", "failed"}
WorkRec == [pc : Steps, pos : Slots \cup {-1}]

\* Steps at which a worker has a slot.
HasSlot == {"name", "fun", "number", "clear", "call"}

\* The types; a slot that a worker has is in use, and so is one with a name.
SvcType ==
    /\ svc \in [Slots -> SlotRec]
    /\ work \in [Workers -> WorkRec]
    /\ \A w \in Workers : work[w].pc \in HasSlot => work[w].pos \in Slots /\ svc[work[w].pos].flags = 0
    /\ \A i \in Slots : svc[i].flags = -1 => svc[i].name = NoName

\* One worker at a time writes a slot.
Solo == \A v, w \in Workers : work[v].pc \in Writing /\ work[w].pc \in Writing => v = w

\* A service that was not taken back has one slot.
Single == \A i, j \in Slots :
    svc[i].name = svc[j].name /\ svc[i].name \notin taken \cup {NoName} => i = j

Offers(i, w) == i \in Slots /\ svc[i].name = Name[w] /\ svc[i].fun = Fun[w]

\* Whoever has its slot finds its service in the table until it is taken back.
Present == \A w \in Workers : work[w].pc \in {"number", "in", "call"} /\ Name[w] \notin taken =>
    \E i \in Slots : Offers(i, w)

\* The slot that is being written: the free one that any search would end at, then an
\* empty one in use, then one with the name and no function unless the service is taken
\* back; until the name is stored no slot has it.
Aimed == \A w \in Workers :
    /\ work[w].pc = "zero" => work[w].pos = FreeSlot
    /\ work[w].pc \in {"zero", "name"} => \A i \in Slots : svc[i].name # Name[w]
    /\ work[w].pc = "name" => svc[work[w].pos].name = NoName
    /\ work[w].pc \in {"name", "fun"} /\ Name[w] \notin taken => svc[work[w].pos].fun = Null
    /\ work[w].pc = "fun" => svc[work[w].pos].name \in {NoName, Name[w]}
    /\ work[w].pc = "fun" /\ Name[w] \notin taken => svc[work[w].pos].name = Name[w]

\* The slot found for a request or to be cleared was used before, so that no other
\* service gets it.
Held == \A w \in Workers : work[w].pc \in {"clear", "call"} =>
    /\ svc[work[w].pos].name \in {NoName, Name[w]}
    /\ \A v \in Workers : work[v].pc \in Writing /\ work[v].pos = work[w].pos => Name[v] = Name[w]

Good   == Solo /\ Single /\ Present /\ Aimed /\ Held
SvcInv == SvcType /\ (rushed \/ Good)

-----------------------------------------------------------------------------
(***************************************************************************)
(* The searches.                                                           *)
(***************************************************************************)

\* A scan of the table ends at a slot of the set it looks for, or with -1 when
\* there is none.
LEMMA OrFacts ==
    ASSUME NEW S \in SUBSET Slots
    PROVE  /\ Or(S) \in S \cup {-1}
           /\ Or(S) = -1 <=> S = {}
<1>0. Slots \subseteq Nat /\ -1 \notin Slots
  BY NameAssumption DEF Slots
<1>1. CASE S = {}
  BY <1>1 DEF Or
<1>2. CASE S # {}
  <2> DEFINE Less == {ss \in Nat \X Nat : ss[1] < ss[2]}
  <2>1. S \subseteq Nat /\ -1 \notin S
    BY <1>0
  <2>2. IsWellFoundedOn(Less, Nat)
    BY NatLessThanWellFounded, Zenon DEF OpToRel
  <2>3. PICK n \in S : \A m \in S : ~ (<<m, n>> \in Less)
    <3> HIDE DEF Less
    <3> QED BY <1>2, <2>1, <2>2, WFMin, Zenon
  <2>4. \A m \in S : n <= m
    <3> TAKE m \in S
    <3>1. m \in Nat /\ n \in Nat /\ ~ (<<m, n>> \in Less)
      BY <2>1, <2>3
    <3> QED BY <3>1
  <2>5. Lowest(S) \in S
    BY <2>4 DEF Lowest
  <2> QED BY <1>2, <2>1, <2>5 DEF Or
<1> QED BY <1>1, <1>2

\* tux_find_service finds a slot with the name when there is one.
LEMMA FindFacts ==
    ASSUME NEW n
    PROVE  /\ tux_find_service(n) \in Slots \cup {-1}
           /\ tux_find_service(n) >= 0 <=> tux_find_service(n) \in Slots
           /\ tux_find_service(n) \in Slots => svc[tux_find_service(n)].name = n
           /\ tux_find_service(n) = -1 => \A j \in Slots : svc[j].name # n
<1> DEFINE S == {i \in Slots : svc[i].name = n}
<1>1. tux_find_service(n) = Or(S)
  BY DEF tux_find_service
<1>2. Or(S) \in S \cup {-1} /\ (Or(S) = -1 <=> S = {})
  BY OrFacts
<1>3. Slots \subseteq Nat /\ -1 \notin Slots
  BY NameAssumption DEF Slots
<1> DEFINE f == tux_find_service(n)
<1>4. f \in S \/ (f = -1 /\ S = {})
  BY <1>1, <1>2
<1> HIDE DEF f
<1>5. CASE f \in S
  <2>1. f \in Slots /\ svc[f].name = n
    BY <1>5
  <2>2. f \in Nat /\ f # -1
    BY <1>3, <2>1
  <2>3. f >= 0
    BY <2>2
  <2> QED BY <2>1, <2>2, <2>3 DEF f
<1>6. CASE f = -1 /\ S = {}
  BY <1>3, <1>6 DEF f
<1> QED BY <1>4, <1>5, <1>6

\* The slot a new service gets is marked free.
LEMMA FreeFacts ==
    /\ FreeSlot \in Slots \cup {-1}
    /\ FreeSlot \in Slots => svc[FreeSlot].flags = -1
<1> DEFINE S == {i \in Slots : svc[i].flags = -1}
<1>1. FreeSlot = Or(S)
  BY DEF FreeSlot
<1>2. Or(S) \in S \cup {-1}
  BY OrFacts
<1>3. -1 \notin Slots
  BY NameAssumption DEF Slots
<1> QED BY <1>1, <1>2, <1>3

\* A worker's next step.
LEMMA AtFacts ==
    ASSUME work \in [Workers -> WorkRec], NEW w \in Workers,
           NEW pc \in Steps,
           NEW pos \in Slots \cup {-1}, At(w, pc, pos)
    PROVE  /\ work' \in [Workers -> WorkRec]
           /\ work'[w].pc = pc /\ work'[w].pos = pos
           /\ \A v \in Workers : v # w => work'[v] = work[v]
<1>1. [pc |-> pc, pos |-> pos] \in WorkRec
  BY DEF WorkRec
<1> QED BY <1>1 DEF At

-----------------------------------------------------------------------------
(***************************************************************************)
(* The steps.                                                              *)
(***************************************************************************)

\* The table is free and every worker out.
LEMMA SvcStart == SvcInit => SvcInv
<1> SUFFICES ASSUME SvcInit PROVE SvcInv
  OBVIOUS
<1>1. Free \in SlotRec /\ Free.name = NoName /\ [pc |-> "out", pos |-> -1] \in WorkRec
  BY DEF Free, Blank, SlotRec, Names, Funs, Rows, WorkRec, Steps
<1>2. \A w \in Workers : work[w].pc = "out"
  BY DEF SvcInit
<1>3. \A i \in Slots : svc[i] = Free
  BY DEF SvcInit
<1>4. SvcType
  BY <1>1, <1>2, <1>3 DEF SvcInit, SvcType, HasSlot
<1> QED BY <1>1, <1>2, <1>3, <1>4 DEF SvcInv, Good, Solo, Single, Present, Aimed, Held, Writing

\* A step that leaves the table alone: the worker that takes it has found its
\* service, or a free slot, or lost interest.
LEMMA WorkStep ==
    ASSUME SvcInv, NEW w \in Workers, UNCHANGED <<svc, taken>>,
           NEW pc \in Steps \ {"name", "fun"},
           NEW pos \in Slots \cup {-1}, At(w, pc, pos),
           pc \in HasSlot => pos \in Slots /\ svc[pos].flags = 0,
           Rush \/ (pc # "zero" /\ rushed' = rushed),
           ~rushed => /\ pc \in {"number", "in", "call"} /\ Name[w] \notin taken =>
                           \E i \in Slots : Offers(i, w)
                      /\ pc = "zero" => pos = FreeSlot /\ \A i \in Slots : svc[i].name # Name[w]
                      /\ pc \in {"clear", "call"} => svc[pos].name = Name[w]
    PROVE  SvcInv'
<1>0. SvcType
  BY DEF SvcInv
<1>1. /\ work' \in [Workers -> WorkRec]
      /\ work'[w].pc = pc /\ work'[w].pos = pos
      /\ \A v \in Workers : v # w => work'[v] = work[v]
  BY <1>0, AtFacts DEF SvcType
<1>2. FreeSlot' = FreeSlot
  BY DEF FreeSlot
<1>3. SvcType'
  BY <1>0, <1>1 DEF SvcType
<1>4. \A i, v : Offers(i, v)' <=> Offers(i, v)
  BY DEF Offers
<1>5. rushed' \/ (~rushed /\ (pc = "zero" => \A v \in Workers : work[v].pc \notin Writing))
  <2>1. CASE Rush
    BY <2>1 DEF Rush
  <2>2. CASE pc # "zero" /\ rushed' = rushed
    BY <2>2
  <2> QED BY <2>1, <2>2
<1>6. CASE rushed'
  BY <1>3, <1>6 DEF SvcInv
<1>7. CASE ~rushed'
  <2>0. /\ ~rushed /\ Solo /\ Single /\ Present /\ Aimed /\ Held
        /\ pc = "zero" => \A v \in Workers : work[v].pc \notin Writing
    BY <1>5, <1>7 DEF SvcInv, Good
  <2>a. pc \in Writing => pc = "zero"
    BY DEF Writing
  <2>b. Solo'
    BY <1>1, <2>0, <2>a DEF Solo
  <2>1. Single'
    BY <2>0 DEF Single
  <2>2. Present'
    BY <1>1, <1>4, <2>0 DEF Present
  <2>3. FreeSlot \in Slots => svc[FreeSlot].name = NoName /\ svc[FreeSlot].flags = -1
    BY <1>0, FreeFacts DEF SvcType
  <2>4. Aimed'
    <3>1. ASSUME NEW v \in Workers, v # w
          PROVE  work'[v] = work[v]
      BY <1>1, <3>1
    <3>2. pc \notin {"name", "fun"}
      OBVIOUS
    <3> QED BY <1>1, <1>2, <2>0, <3>1, <3>2 DEF Aimed
  <2>6. Held'
    <3> SUFFICES ASSUME NEW v \in Workers, work'[v].pc \in {"clear", "call"}
                 PROVE  /\ svc[work'[v].pos].name \in {NoName, Name[v]}
                        /\ \A u \in Workers : work'[u].pc \in Writing /\ work'[u].pos = work'[v].pos
                                              => Name[u] = Name[v]
      BY DEF Held
    <3>1. CASE v = w
      <4>1. pc \in {"clear", "call"} /\ pos \in Slots /\ svc[pos].name = Name[w] /\ Name[w] # NoName
        BY <1>1, <2>0, <3>1, NameAssumption DEF HasSlot
      <4>2. ASSUME NEW u \in Workers, work'[u].pc \in Writing, work'[u].pos = pos
            PROVE  Name[u] = Name[w]
        <5>1. u # w /\ work[u].pc \in Writing /\ work[u].pos = pos
          BY <1>1, <4>1, <4>2 DEF Writing
        <5> QED BY <2>0, <2>3, <4>1, <5>1 DEF Aimed, Writing
      <4> QED BY <1>1, <3>1, <4>1, <4>2
    <3>2. CASE v # w
      <4>1. work[v].pc \in {"clear", "call"} /\ work'[v] = work[v] /\ work[v].pos \in Slots
        BY <1>0, <1>1, <3>2 DEF SvcType, HasSlot
      <4>2. pc = "zero" => pos # work[v].pos
        BY <1>0, <2>0, <2>3, <4>1 DEF SvcType, HasSlot
      <4> QED BY <1>1, <2>0, <2>a, <4>1, <4>2 DEF Held
    <3> QED BY <3>1, <3>2
  <2> QED BY <1>3, <2>b, <2>1, <2>2, <2>4, <2>6 DEF SvcInv, Good
<1> QED BY <1>6, <1>7

\* The searches, the call and the end of a worker.
LEMMA QuietStep ==
    ASSUME SvcInv, NEW w \in Workers,
           \/ Advertise(w) \/ Unadvertise(w) \/ FindForCall(w) \/ Call(w) \/ Restart(w)
           \/ ZeroSlot(w) /\ work[w].pos < 0
    PROVE  SvcInv'
<1> DEFINE f == tux_find_service(Name[w])
<1>0. /\ f \in Slots \cup {-1}
      /\ f >= 0 <=> f \in Slots
      /\ f \in Slots => svc[f].name = Name[w]
      /\ f = -1 => \A j \in Slots : svc[j].name # Name[w]
  BY FindFacts
<1>a. f \in Slots => svc[f].flags = 0
  BY <1>0, NameAssumption DEF SvcInv, SvcType, SlotRec
<1>1. -1 \notin Slots /\ (f < 0 <=> f = -1)
  BY <1>0, NameAssumption DEF Slots
<1>2. UNCHANGED <<svc, taken>>
  BY DEF Advertise, Unadvertise, FindForCall, Call, Restart, ZeroSlot
<1>3. ~rushed => Present
  BY DEF SvcInv, Good
<1> HIDE DEF f
<1>4. CASE Advertise(w)
  <2>1. /\ Rush
        /\ \/ f < 0 /\ At(w, "zero", FreeSlot)
           \/ f >= 0 /\ svc[f].fun = Fun[w] /\ At(w, "number", f)
           \/ At(w, "failed", -1)
    BY <1>4 DEF Advertise, f
  <2>2. CASE f < 0 /\ At(w, "zero", FreeSlot)
    <3>1. \A i \in Slots : svc[i].name # Name[w]
      BY <1>0, <1>1, <2>2
    <3>2. FreeSlot \in Slots \cup {-1}
      BY FreeFacts
    <3> QED BY <1>2, <2>1, <2>2, <3>1, <3>2, WorkStep DEF Steps, HasSlot
  <2>3. CASE f >= 0 /\ svc[f].fun = Fun[w] /\ At(w, "number", f)
    <3>1. f \in Slots /\ svc[f].flags = 0 /\ Offers(f, w)
      BY <1>0, <1>a, <2>3 DEF Offers
    <3> QED BY <1>2, <2>1, <2>3, <3>1, WorkStep DEF Steps, HasSlot
  <2>4. CASE At(w, "failed", -1)
    BY <1>2, <2>1, <2>4, WorkStep DEF Steps, HasSlot
  <2> QED BY <2>1, <2>2, <2>3, <2>4
<1>5. CASE Unadvertise(w)
  <2>1. rushed' = rushed /\ (At(w, "out", -1) \/ (~(f < 0) /\ At(w, "clear", f)))
    BY <1>5 DEF Unadvertise, f
  <2>2. CASE At(w, "out", -1)
    BY <1>2, <2>1, <2>2, WorkStep DEF Steps, HasSlot
  <2>3. CASE ~(f < 0) /\ At(w, "clear", f)
    BY <1>0, <1>a, <1>1, <1>2, <2>1, <2>3, WorkStep DEF Steps, HasSlot
  <2> QED BY <2>1, <2>2, <2>3
<1>6. CASE FindForCall(w)
  <2>1. f >= 0 /\ At(w, "call", f) /\ rushed' = rushed /\ work[w].pc = "in"
    BY <1>6 DEF FindForCall, f
  <2>2. ~rushed /\ Name[w] \notin taken => \E i \in Slots : Offers(i, w)
    BY <1>3, <2>1 DEF Present
  <2> QED BY <1>0, <1>a, <1>2, <2>1, <2>2, WorkStep DEF Steps, HasSlot
<1>7. CASE Call(w)
  <2>1. At(w, "in", -1) /\ rushed' = rushed /\ work[w].pc = "call"
    BY <1>7 DEF Call
  <2>2. ~rushed /\ Name[w] \notin taken => \E i \in Slots : Offers(i, w)
    BY <1>3, <2>1 DEF Present
  <2> QED BY <1>2, <2>1, <2>2, WorkStep DEF Steps, HasSlot
<1>8. CASE Restart(w)
  <2>1. At(w, "out", -1) /\ rushed' = rushed
    BY <1>8 DEF Restart
  <2> QED BY <1>2, <2>1, WorkStep DEF Steps, HasSlot
<1>9. CASE ZeroSlot(w) /\ work[w].pos < 0
  <2>1. At(w, "failed", -1) /\ rushed' = rushed
    BY <1>9 DEF ZeroSlot
  <2> QED BY <1>2, <2>1, WorkStep DEF Steps, HasSlot
<1> QED BY <1>4, <1>5, <1>6, <1>7, <1>8, <1>9

\* What a slot's contents say about the services in the table.
LEMMA SlotWritten ==
    ASSUME SvcType, NEW k \in Slots, NEW r \in SlotRec, svc' = [svc EXCEPT ![k] = r]
    PROVE  /\ svc' \in [Slots -> SlotRec]
           /\ svc'[k] = r
           /\ \A i \in Slots : i # k => svc'[i] = svc[i]
  BY DEF SvcType

\* The worker writes a slot and goes on, with that slot or with none.
LEMMA WriteFacts ==
    ASSUME SvcType, NEW w \in Workers, NEW k \in Slots, NEW r \in SlotRec,
           svc' = [svc EXCEPT ![k] = r], r.flags = 0,
           NEW pc \in Steps, NEW pos \in Slots \cup {-1}, At(w, pc, pos),
           pc \notin HasSlot \/ pos = k
    PROVE  /\ SvcType'
           /\ svc'[k] = r /\ \A i \in Slots : i # k => svc'[i] = svc[i]
           /\ work'[w].pc = pc /\ work'[w].pos = pos
           /\ \A v \in Workers : v # w => work'[v] = work[v]
<1>1. /\ svc' \in [Slots -> SlotRec] /\ svc'[k] = r
      /\ \A i \in Slots : i # k => svc'[i] = svc[i]
  BY SlotWritten
<1>2. /\ work' \in [Workers -> WorkRec] /\ work'[w].pc = pc /\ work'[w].pos = pos
      /\ \A v \in Workers : v # w => work'[v] = work[v]
  BY AtFacts DEF SvcType
<1>3. \A v \in Workers : work'[v].pc \in HasSlot =>
        work'[v].pos \in Slots /\ svc'[work'[v].pos].flags = 0
  BY <1>1, <1>2 DEF SvcType
<1>4. \A i \in Slots : svc'[i].flags = -1 => svc'[i].name = NoName
  BY <1>1 DEF SvcType
<1> QED BY <1>1, <1>2, <1>3, <1>4 DEF SvcType

\* The free slot is zeroed: nobody has found it, and no service is in it.
LEMMA ZeroKeeps == ASSUME SvcInv, NEW w \in Workers, ZeroSlot(w), ~(work[w].pos < 0) PROVE SvcInv'
<1> DEFINE k == work[w].pos
<1>0. SvcType /\ work[w].pc = "zero" /\ k \in Slots /\ Slots \subseteq Nat
  BY NameAssumption DEF SvcInv, SvcType, WorkRec, ZeroSlot, Slots
<1>1. Blank \in SlotRec /\ Blank.name = NoName /\ Blank.flags = 0 /\ Blank.fun = Null
  BY DEF Blank, SlotRec, Names, Funs, Rows
<1>2. svc' = [svc EXCEPT ![k] = Blank] /\ At(w, "name", k) /\ UNCHANGED <<rushed, taken>>
  BY DEF ZeroSlot
<1> HIDE DEF k
<1>3. /\ SvcType'
      /\ svc'[k] = Blank /\ \A i \in Slots : i # k => svc'[i] = svc[i]
      /\ work'[w].pc = "name" /\ work'[w].pos = k
      /\ \A v \in Workers : v # w => work'[v] = work[v]
  BY <1>0, <1>1, <1>2, WriteFacts DEF Steps
<1>4. ASSUME ~rushed PROVE Good'
  <2>0. Solo /\ Single /\ Present /\ Aimed /\ Held
    BY <1>4 DEF SvcInv, Good
  <2>1. svc[k].flags = -1 /\ svc[k].name = NoName /\ \A i \in Slots : svc[i].name # Name[w]
    <3>1. k = FreeSlot /\ \A i \in Slots : svc[i].name # Name[w]
      BY <1>0, <2>0 DEF Aimed, k
    <3> QED BY <1>0, <3>1, FreeFacts DEF SvcType
  <2>2. \A v \in Workers : v # w => work[v].pc \notin Writing /\ work'[v].pc \notin Writing
    BY <1>0, <1>3, <2>0 DEF Solo, Writing
  <2>3. Solo'
    BY <2>2 DEF Solo
  <2>4. Single'
    BY <1>1, <1>2, <1>3, <2>0 DEF Single
  <2>5. Present'
    <3> SUFFICES ASSUME NEW v \in Workers, work'[v].pc \in {"number", "in", "call"},
                        Name[v] \notin taken
                 PROVE  \E i \in Slots : svc'[i].name = Name[v] /\ svc'[i].fun = Fun[v]
      BY <1>2 DEF Present, Offers
    <3>1. PICK i \in Slots : svc[i].name = Name[v] /\ svc[i].fun = Fun[v]
      BY <1>3, <2>0 DEF Present, Offers
    <3>2. i # k
      BY <2>1, <3>1, NameAssumption
    <3> QED BY <1>3, <3>1, <3>2
  <2>6. Aimed'
    <3>1. \A i \in Slots : svc'[i].name # Name[w]
      BY <1>1, <1>3, <2>1, NameAssumption
    <3>2. \A v \in Workers : v # w => work'[v].pc \notin {"zero", "name", "fun"}
      BY <2>2 DEF Writing
    <3> QED BY <1>1, <1>3, <3>1, <3>2 DEF Aimed
  <2>7. Held'
    <3> SUFFICES ASSUME NEW v \in Workers, work'[v].pc \in {"clear", "call"}
                 PROVE  /\ svc'[work'[v].pos].name \in {NoName, Name[v]}
                        /\ \A u \in Workers : work'[u].pc \in Writing /\ work'[u].pos = work'[v].pos
                                              => Name[u] = Name[v]
      BY DEF Held
    <3>1. v # w /\ work'[v] = work[v] /\ work[v].pos \in Slots
      BY <1>0, <1>3 DEF SvcType, HasSlot
    <3>2. work[v].pos # k
      BY <1>0, <2>1, <3>1 DEF SvcType, HasSlot
    <3> QED BY <1>3, <2>0, <2>2, <3>1, <3>2 DEF Held
  <2> QED BY <2>3, <2>4, <2>5, <2>6, <2>7 DEF Good
<1> QED BY <1>2, <1>3, <1>4 DEF SvcInv

\* The name is stored: no other slot has it.
LEMMA NameKeeps == ASSUME SvcInv, NEW w \in Workers, StoreName(w) PROVE SvcInv'
<1> DEFINE k == work[w].pos
           r == [svc[k] EXCEPT !.name = Name[w]]
<1>0. /\ SvcType /\ work[w].pc = "name" /\ k \in Slots
      /\ svc[k] \in SlotRec /\ svc[k].flags = 0
  BY DEF SvcInv, SvcType, StoreName, HasSlot
<1>1. r \in SlotRec /\ r.name = Name[w] /\ r.fun = svc[k].fun /\ r.flags = 0
  BY <1>0 DEF SlotRec, Names
<1>2. svc' = [svc EXCEPT ![k] = r] /\ At(w, "fun", k) /\ UNCHANGED <<rushed, taken>>
  BY DEF StoreName
<1> HIDE DEF k, r
<1>3. /\ SvcType'
      /\ svc'[k] = r /\ \A i \in Slots : i # k => svc'[i] = svc[i]
      /\ work'[w].pc = "fun" /\ work'[w].pos = k
      /\ \A v \in Workers : v # w => work'[v] = work[v]
  <2>1. "fun" \in Steps /\ k \in Slots \cup {-1} /\ At(w, "fun", k)
    BY <1>0, <1>2 DEF Steps, HasSlot
  <2>2. svc' = [svc EXCEPT ![k] = r] /\ r \in SlotRec /\ r.flags = 0 /\ k \in Slots /\ SvcType
    BY <1>0, <1>1, <1>2
  <2> QED BY <2>1, <2>2, WriteFacts
<1>4. ASSUME ~rushed PROVE Good'
  <2>0. Solo /\ Single /\ Present /\ Aimed /\ Held
    BY <1>4 DEF SvcInv, Good
  <2>1. /\ svc[k].name = NoName /\ \A i \in Slots : svc[i].name # Name[w]
        /\ Name[w] \notin taken => svc[k].fun = Null
    BY <1>0, <2>0 DEF Aimed, k
  <2>2. \A v \in Workers : v # w => work[v].pc \notin Writing /\ work'[v].pc \notin Writing
    BY <1>0, <1>3, <2>0 DEF Solo, Writing
  <2>3. Solo'
    BY <2>2 DEF Solo
  <2>4. Single'
    BY <1>1, <1>2, <1>3, <2>0, <2>1 DEF Single
  <2>5. Present'
    <3> SUFFICES ASSUME NEW v \in Workers, work'[v].pc \in {"number", "in", "call"},
                        Name[v] \notin taken
                 PROVE  \E i \in Slots : svc'[i].name = Name[v] /\ svc'[i].fun = Fun[v]
      BY <1>2 DEF Present, Offers
    <3>1. PICK i \in Slots : svc[i].name = Name[v] /\ svc[i].fun = Fun[v]
      BY <1>3, <2>0 DEF Present, Offers
    <3>2. i # k
      BY <2>1, <3>1, NameAssumption
    <3> QED BY <1>3, <3>1, <3>2
  <2>6. Aimed'
    <3>1. \A v \in Workers : v # w => work'[v].pc \notin {"zero", "name", "fun"}
      BY <2>2 DEF Writing
    <3> QED BY <1>1, <1>2, <1>3, <2>1, <3>1 DEF Aimed
  <2>7. Held'
    <3> SUFFICES ASSUME NEW v \in Workers, work'[v].pc \in {"clear", "call"}
                 PROVE  /\ svc'[work'[v].pos].name \in {NoName, Name[v]}
                        /\ \A u \in Workers : work'[u].pc \in Writing /\ work'[u].pos = work'[v].pos
                                              => Name[u] = Name[v]
      BY DEF Held
    <3>1. v # w /\ work'[v] = work[v] /\ work[v].pos \in Slots
      BY <1>0, <1>3 DEF SvcType, HasSlot
    <3>2. work[v].pos = k => Name[w] = Name[v]
      BY <1>0, <2>0, <3>1 DEF Held, Writing, k
    <3> QED BY <1>1, <1>3, <2>0, <2>2, <3>1, <3>2 DEF Held
  <2> QED BY <2>3, <2>4, <2>5, <2>6, <2>7 DEF Good
<1> QED BY <1>2, <1>3, <1>4 DEF SvcInv

\* The function is stored: until then nobody was in with this service.
LEMMA FunKeeps == ASSUME SvcInv, NEW w \in Workers, StoreFun(w) PROVE SvcInv'
<1> DEFINE k == work[w].pos
           r == [svc[k] EXCEPT !.fun = Fun[w]]
<1>0. /\ SvcType /\ work[w].pc = "fun" /\ k \in Slots
      /\ svc[k] \in SlotRec /\ svc[k].flags = 0
  BY DEF SvcInv, SvcType, StoreFun, HasSlot
<1>1. r \in SlotRec /\ r.name = svc[k].name /\ r.fun = Fun[w] /\ r.flags = 0
  BY <1>0 DEF SlotRec, Funs
<1>2. svc' = [svc EXCEPT ![k] = r] /\ At(w, "number", k) /\ UNCHANGED <<rushed, taken>>
  BY DEF StoreFun
<1> HIDE DEF k, r
<1>3. /\ SvcType'
      /\ svc'[k] = r /\ \A i \in Slots : i # k => svc'[i] = svc[i]
      /\ work'[w].pc = "number" /\ work'[w].pos = k
      /\ \A v \in Workers : v # w => work'[v] = work[v]
  <2>1. "number" \in Steps /\ k \in Slots \cup {-1} /\ At(w, "number", k)
    BY <1>0, <1>2 DEF Steps, HasSlot
  <2>2. svc' = [svc EXCEPT ![k] = r] /\ r \in SlotRec /\ r.flags = 0 /\ k \in Slots /\ SvcType
    BY <1>0, <1>1, <1>2
  <2> QED BY <2>1, <2>2, WriteFacts
<1>4. ASSUME ~rushed PROVE Good'
  <2>0. Solo /\ Single /\ Present /\ Aimed /\ Held
    BY <1>4 DEF SvcInv, Good
  <2>1. Name[w] \notin taken => svc[k].fun = Null /\ svc[k].name = Name[w]
    BY <1>0, <2>0 DEF Aimed, k
  <2>a. svc[k].name \in {NoName, Name[w]} /\ \A i \in Slots : svc'[i].name = svc[i].name
    BY <1>0, <1>1, <1>3, <2>0 DEF Aimed, k
  <2>2. \A v \in Workers : v # w => work[v].pc \notin Writing /\ work'[v].pc \notin Writing
    BY <1>0, <1>3, <2>0 DEF Solo, Writing
  <2>b. work'[w].pc \notin Writing
    BY <1>3 DEF Writing
  <2>3. Solo'
    BY <2>2, <2>b DEF Solo
  <2>4. Single'
    BY <1>2, <2>0, <2>a DEF Single
  <2>5. Present'
    <3> SUFFICES ASSUME NEW v \in Workers, work'[v].pc \in {"number", "in", "call"},
                        Name[v] \notin taken
                 PROVE  \E i \in Slots : svc'[i].name = Name[v] /\ svc'[i].fun = Fun[v]
      BY <1>2 DEF Present, Offers
    <3>1. CASE v = w
      BY <1>0, <1>1, <1>3, <2>1, <3>1
    <3>2. CASE v # w
      <4>1. PICK i \in Slots : svc[i].name = Name[v] /\ svc[i].fun = Fun[v]
        BY <1>3, <2>0, <3>2 DEF Present, Offers
      <4>2. i # k
        <5>1. CASE Name[v] = Name[w]
          BY <2>1, <4>1, <5>1, NameAssumption
        <5>2. CASE Name[v] # Name[w]
          BY <2>a, <4>1, <5>2, NameAssumption
        <5> QED BY <5>1, <5>2
      <4> QED BY <1>3, <4>1, <4>2
    <3> QED BY <3>1, <3>2
  <2>6. Aimed'
    <3>1. \A v \in Workers : work'[v].pc \notin {"zero", "name", "fun"}
      BY <2>2, <2>b DEF Writing
    <3> QED BY <3>1 DEF Aimed
  <2>7. Held'
    <3>1. \A v \in Workers : work'[v].pc \in {"clear", "call"} => work'[v] = work[v] /\ work[v].pos \in Slots
      BY <1>0, <1>3 DEF SvcType, HasSlot
    <3> QED BY <2>0, <2>2, <2>a, <2>b, <3>1 DEF Held
  <2> QED BY <2>3, <2>4, <2>5, <2>6, <2>7 DEF Good
<1> QED BY <1>2, <1>3, <1>4 DEF SvcInv

\* The server's number is stored: names, functions and flags stay.
LEMMA NumberKeeps == ASSUME SvcInv, NEW w \in Workers, Number(w) PROVE SvcInv'
<1> DEFINE k == work[w].pos
           r == [svc[k] EXCEPT !.svrid = Svrno[Name[w]]]
<1>0. /\ SvcType /\ k \in Slots /\ work[w].pc = "number"
      /\ svc[k] \in SlotRec /\ svc[k].flags = 0
  BY DEF SvcInv, SvcType, Number, HasSlot
<1>1. r \in SlotRec /\ r.name = svc[k].name /\ r.fun = svc[k].fun /\ r.flags = 0
  BY <1>0 DEF SlotRec, Rows
<1>2. svc' = [svc EXCEPT ![k] = r] /\ At(w, "in", -1) /\ UNCHANGED <<rushed, taken>>
  BY DEF Number
<1> HIDE DEF k, r
<1>3. /\ SvcType'
      /\ svc'[k] = r /\ \A i \in Slots : i # k => svc'[i] = svc[i]
      /\ work'[w].pc = "in"
      /\ \A v \in Workers : v # w => work'[v] = work[v]
  <2>1. "in" \in Steps /\ "in" \notin HasSlot /\ -1 \in Slots \cup {-1} /\ At(w, "in", -1)
    BY <1>0, <1>2 DEF Steps, HasSlot
  <2>2. svc' = [svc EXCEPT ![k] = r] /\ r \in SlotRec /\ r.flags = 0 /\ k \in Slots /\ SvcType
    BY <1>0, <1>1, <1>2
  <2>3. ASSUME NEW pos \in Slots \cup {-1}, At(w, "in", pos)
        PROVE  /\ SvcType'
               /\ svc'[k] = r /\ \A i \in Slots : i # k => svc'[i] = svc[i]
               /\ work'[w].pc = "in" /\ work'[w].pos = pos
               /\ \A v \in Workers : v # w => work'[v] = work[v]
    BY <2>1, <2>2, <2>3, WriteFacts
  <2> QED BY <2>1, <2>3
<1>4. \A i \in Slots : /\ svc'[i].name = svc[i].name /\ svc'[i].fun = svc[i].fun
                       /\ svc'[i].flags = svc[i].flags
  BY <1>0, <1>1, <1>3
<1>5. FreeSlot' = FreeSlot
  <2>1. {i \in Slots : svc'[i].flags = -1} = {i \in Slots : svc[i].flags = -1}
    BY <1>4
  <2> QED BY <2>1 DEF FreeSlot
<1>6. ASSUME ~rushed PROVE Good'
  <2>0. Solo /\ Single /\ Present /\ Aimed /\ Held
    BY <1>6 DEF SvcInv, Good
  <2>1. \A v \in Workers : /\ work'[v].pc \in {"zero", "name", "fun", "clear", "call"} => work'[v] = work[v]
                           /\ work'[v].pc \in HasSlot => work'[v].pos \in Slots
    BY <1>3 DEF SvcType
  <2>2. Solo' /\ Single'
    BY <1>2, <1>4, <2>0, <2>1 DEF Solo, Single, Writing
  <2>3. Present'
    BY <1>0, <1>2, <1>3, <1>4, <2>0 DEF Present, Offers
  <2>4. Aimed'
    BY <1>2, <1>4, <1>5, <2>0, <2>1 DEF Aimed, HasSlot
  <2>5. Held'
    BY <1>4, <2>0, <2>1 DEF Held, HasSlot, Writing
  <2> QED BY <2>2, <2>3, <2>4, <2>5 DEF Good
<1> QED BY <1>2, <1>3, <1>6 DEF SvcInv

\* A service is taken back: the slot held it or nothing, and stays in use.
LEMMA DelKeeps == ASSUME SvcInv, NEW w \in Workers, DelService(w) PROVE SvcInv'
<1> DEFINE k == work[w].pos
<1>0. SvcType /\ k \in Slots /\ svc[k].flags = 0 /\ work[w].pc = "clear"
  BY DEF SvcInv, SvcType, DelService, HasSlot
<1>1. Blank \in SlotRec /\ Blank.name = NoName /\ Blank.flags = 0 /\ Blank.fun = Null
  BY DEF Blank, SlotRec, Names, Funs, Rows
<1>2. /\ svc' = [svc EXCEPT ![k] = Blank] /\ At(w, "out", -1) /\ rushed' = rushed
      /\ taken' = taken \cup {Name[w]}
  BY DEF DelService
<1>3. /\ SvcType'
      /\ svc'[k] = Blank /\ \A i \in Slots : i # k => svc'[i] = svc[i]
      /\ work'[w].pc = "out"
      /\ \A v \in Workers : v # w => work'[v] = work[v]
  <2> HIDE DEF k
  <2>1. "out" \in Steps /\ "out" \notin HasSlot /\ -1 \in Slots \cup {-1} /\ At(w, "out", -1)
    BY <1>2 DEF Steps, HasSlot
  <2>2. svc' = [svc EXCEPT ![k] = Blank] /\ Blank \in SlotRec /\ Blank.flags = 0 /\ k \in Slots /\ SvcType
    BY <1>0, <1>1, <1>2
  <2>3. ASSUME NEW pos \in Slots \cup {-1}, At(w, "out", pos)
        PROVE  /\ SvcType'
               /\ svc'[k] = Blank /\ \A i \in Slots : i # k => svc'[i] = svc[i]
               /\ work'[w].pc = "out" /\ work'[w].pos = pos
               /\ \A v \in Workers : v # w => work'[v] = work[v]
    BY <2>1, <2>2, <2>3, WriteFacts
  <2> QED BY <2>1, <2>3
<1>4. FreeSlot' = FreeSlot
  <2>1. {i \in Slots : svc'[i].flags = -1} = {i \in Slots : svc[i].flags = -1}
    BY <1>0, <1>1, <1>3
  <2> QED BY <2>1 DEF FreeSlot
<1>5. ASSUME ~rushed PROVE Good'
  <2>0. /\ Solo /\ Single /\ Present /\ Aimed /\ Held
        /\ svc[k].name \in {NoName, Name[w]}
        /\ \A v \in Workers : work[v].pc \in Writing /\ work[v].pos = k => Name[v] = Name[w]
    BY <1>0, <1>5 DEF SvcInv, Good, Held
  <2> HIDE DEF k
  <2>1. \A v \in Workers : /\ work'[v].pc \in {"zero", "name", "fun", "clear", "call"} => work'[v] = work[v]
                           /\ work'[v].pc \in HasSlot => work'[v].pos \in Slots
    BY <1>3 DEF SvcType
  <2>2. Solo'
    BY <2>0, <2>1 DEF Solo, Writing
  <2>3. Single'
    BY <1>1, <1>2, <1>3, <2>0 DEF Single
  <2>4. Present'
    <3> SUFFICES ASSUME NEW v \in Workers, work'[v].pc \in {"number", "in", "call"},
                        Name[v] \notin taken'
                 PROVE  \E i \in Slots : svc'[i].name = Name[v] /\ svc'[i].fun = Fun[v]
      BY DEF Present, Offers
    <3>1. PICK i \in Slots : svc[i].name = Name[v] /\ svc[i].fun = Fun[v]
      BY <1>2, <1>3, <2>0 DEF Present, Offers
    <3>2. i # k
      BY <1>2, <2>0, <3>1, NameAssumption
    <3> QED BY <1>3, <3>1, <3>2
  <2>5. Aimed'
    <3>1. \A i \in Slots : svc'[i].name = svc[i].name \/ svc'[i].name = NoName
      BY <1>1, <1>3
    <3>2. ASSUME NEW v \in Workers, work'[v].pc \in {"zero", "name"}
          PROVE  \A i \in Slots : svc'[i].name # Name[v]
      BY <2>0, <2>1, <3>1, <3>2, NameAssumption DEF Aimed
    <3>3. ASSUME NEW v \in Workers, work'[v].pc \in {"name", "fun"}
          PROVE  /\ work'[v] = work[v] /\ work[v].pos \in Slots
                 /\ work[v].pos = k => Name[v] \in taken'
      BY <1>2, <2>0, <2>1, <3>3 DEF HasSlot, Writing
    <3>4. ASSUME NEW v \in Workers
          PROVE  /\ work'[v].pc = "name" => svc'[work'[v].pos].name = NoName
                 /\ work'[v].pc \in {"name", "fun"} /\ Name[v] \notin taken' => svc'[work'[v].pos].fun = Null
                 /\ work'[v].pc = "fun" => svc'[work'[v].pos].name \in {NoName, Name[v]}
                 /\ work'[v].pc = "fun" /\ Name[v] \notin taken' => svc'[work'[v].pos].name = Name[v]
      BY <1>1, <1>2, <1>3, <2>0, <3>3 DEF Aimed
    <3>5. \A v \in Workers : work'[v].pc = "zero" => work'[v].pos = FreeSlot'
      BY <1>4, <2>0, <2>1 DEF Aimed
    <3> QED BY <3>2, <3>4, <3>5 DEF Aimed
  <2>6. Held'
    BY <1>1, <1>3, <2>0, <2>1 DEF Held, HasSlot, Writing
  <2> QED BY <2>2, <2>3, <2>4, <2>5, <2>6 DEF Good
<1> QED BY <1>2, <1>3, <1>5 DEF SvcInv

\* The invariant is inductive.
LEMMA SvcStep == SvcInv /\ [SvcNext]_svcVars => SvcInv'
<1> SUFFICES ASSUME SvcInv, [SvcNext]_svcVars PROVE SvcInv'
  OBVIOUS
<1>1. CASE SvcNext
  <2>1. PICK w \in Workers : \/ Advertise(w) \/ ZeroSlot(w) \/ StoreName(w) \/ StoreFun(w)
                             \/ Number(w) \/ Unadvertise(w) \/ DelService(w)
                             \/ FindForCall(w) \/ Call(w) \/ Restart(w)
    BY <1>1 DEF SvcNext
  <2> QED BY <2>1, QuietStep, ZeroKeeps, NameKeeps, FunKeeps, NumberKeeps, DelKeeps
<1>2. CASE UNCHANGED svcVars
  <2>1. UNCHANGED <<svc, work, rushed, taken>> /\ FreeSlot' = FreeSlot
    BY <1>2 DEF svcVars, FreeSlot
  <2>2. SvcType' = SvcType /\ Solo' = Solo /\ Single' = Single
    BY <2>1 DEF SvcType, Solo, Single
  <2>3. (Present => Present') /\ (Aimed => Aimed') /\ (Held => Held')
    BY <2>1 DEF Present, Aimed, Held, Offers
  <2> QED BY <2>1, <2>2, <2>3 DEF SvcInv, Good
<1> QED BY <1>1, <1>2

\* For any number of workers, services and slots, and although no lock is taken: unless
\* a worker searched while another was still writing its slot, a service keeps its slot
\* and its function until it is taken back, and a request is never passed to another
\* service, whoever withdraws, looks up or ends meanwhile.
THEOREM ServicesStay == SvcSpec => []ServicesKept
<1>1. SvcInv => ServicesKept
  <2> SUFFICES ASSUME SvcInv, ~rushed PROVE ServicesKept
    BY DEF ServicesKept
  <2>0. SvcType /\ Single /\ Present /\ Held
    BY DEF SvcInv, Good
  <2>1. ASSUME NEW w \in Workers, work[w].pc \in {"in", "call"}, Name[w] \notin taken
        PROVE  tux_find_service(Name[w]) >= 0 /\ svc[tux_find_service(Name[w])].fun = Fun[w]
    <3> DEFINE f == tux_find_service(Name[w])
    <3>1. /\ f \in Slots \cup {-1}
          /\ f >= 0 <=> f \in Slots
          /\ f \in Slots => svc[f].name = Name[w]
          /\ f = -1 => \A j \in Slots : svc[j].name # Name[w]
      BY FindFacts
    <3> HIDE DEF f
    <3>2. PICK i \in Slots : svc[i].name = Name[w] /\ svc[i].fun = Fun[w]
      BY <2>0, <2>1 DEF Present, Offers
    <3>3. f \in Slots /\ f >= 0 /\ svc[f].name = Name[w]
      BY <3>1, <3>2
    <3>4. f = i
      BY <2>0, <2>1, <3>2, <3>3, NameAssumption DEF Single
    <3> QED BY <3>2, <3>3, <3>4 DEF f
  <2>2. \A i, j \in Slots : svc[i].name = svc[j].name => svc[i].name \in taken \cup {NoName} \/ i = j
    BY <2>0 DEF Single
  <2>3. \A w \in Workers : work[w].pc = "call" => svc[work[w].pos].name \in {Name[w], NoName}
    BY <2>0 DEF Held
  <2> QED BY <2>1, <2>2, <2>3 DEF ServicesKept
<1> QED BY <1>1, SvcStart, SvcStep, PTL DEF SvcSpec
=============================================================================
