------------------------- MODULE ClientPartsProofs -------------------------
(***************************************************************************)
(* Proofs about three parts of the client that share no state: the target  *)
(* cursor, the pointers of the mouse and the queue of property lists, for  *)
(* any number of cursors, any macros and delays, any addresses and gumps,  *)
(* any serials, batches and packets under way.                             *)
(***************************************************************************)
EXTENDS Targeting, MousePointers, PropertyQueue, SequenceTheorems, TLAPS

-----------------------------------------------------------------------------
(* The target cursor.                                                      *)
(*                                                                         *)
(* What each step that answers relies on is that the packet in m_Data is   *)
(* younger than every packet sent before (CursorFresh).  It is not to be   *)
(* seen from Targeting alone: the designer's tool leaves the packet of the *)
(* server's cursor in m_Data while Targeting stays TRUE.                   *)

Ascending(s, last) ==
  /\ s \in Seq(Nat)
  /\ \A i \in 1..Len(s) : s[i] \in 1..last
  /\ \A i, j \in 1..Len(s) : i < j => s[i] < s[j]

CursorFresh ==
  Targeting /\ Type # 2 =>
    /\ m_Data = CursorID /\ m_Data \in 1..shown /\ m_Data \notin withdrawn
    /\ \A i \in 1..Len(sent) : sent[i] < m_Data

TInv ==
  /\ shown \in Nat /\ withdrawn \subseteq 1..shown
  /\ Targeting \in BOOLEAN
  /\ Ascending(sent, shown)
  /\ CursorFresh

(* What a click, a key, a macro or the designer may do to the cursor.      *)
CursorStep ==
  \/ ResetTarget
  \/ Answer
  \/ SendLastTarget
  \/ RequestFromCustomHouse
  \/ Type # 2 /\ SetLastTargetObject
  \/ UNCHANGED cursor

-----------------------------------------------------------------------------
(* Lemmas *)

(* A later id keeps the answers in order.                                  *)
LEMMA AppendAscending ==
  ASSUME NEW s, NEW last \in Nat, NEW upTo \in Nat, last <= upTo, Ascending(s, last),
         NEW id \in 1..upTo, \A i \in 1..Len(s) : s[i] < id
  PROVE  Ascending(Append(s, id), upTo)
<1>1. s \in Seq(Nat) /\ id \in Nat
  BY DEF Ascending
<1>2. /\ Append(s, id) \in Seq(Nat) /\ Len(Append(s, id)) = Len(s) + 1
      /\ \A i \in 1..Len(s) : Append(s, id)[i] = s[i]
      /\ Append(s, id)[Len(s) + 1] = id
  BY <1>1, AppendProperties
<1>3. Len(s) \in Nat /\ \A i \in 1..Len(s) : s[i] \in 1..last
  BY <1>1 DEF Ascending
<1>4. ASSUME NEW i \in 1..Len(s) + 1 PROVE Append(s, id)[i] \in 1..upTo
  <2>1. CASE i = Len(s) + 1
    BY <1>2, <2>1
  <2>2. CASE i # Len(s) + 1
    <3>1. i \in 1..Len(s)
      BY <1>3, <2>2
    <3> QED BY <1>2, <1>3, <3>1
  <2> QED BY <2>1, <2>2
<1>5. ASSUME NEW i \in 1..Len(s) + 1, NEW j \in 1..Len(s) + 1, i < j
      PROVE  Append(s, id)[i] < Append(s, id)[j]
  <2>1. i \in 1..Len(s)
    BY <1>3, <1>5
  <2>2. CASE j = Len(s) + 1
    BY <1>2, <2>1, <2>2
  <2>3. CASE j # Len(s) + 1
    <3>1. j \in 1..Len(s)
      BY <1>3, <2>3
    <3> QED BY <1>2, <1>5, <2>1, <3>1 DEF Ascending
  <2> QED BY <2>2, <2>3
<1> QED BY <1>2, <1>4, <1>5 DEF Ascending

(* The client's own steps.                                                 *)
LEMMA CursorStepTInv ==
  ASSUME TInv, CursorStep, UNCHANGED server
  PROVE  TInv'
<1>1. UNCHANGED <<shown, withdrawn>> /\ shown \in Nat /\ shown <= shown
  BY DEF server, TInv
<1>2. ASSUME NEW id, Targeting, SendTarget(id), Type # 2 => id = m_Data
      PROVE  TInv'
  <2>1. Targeting' = FALSE
    BY <1>2 DEF SendTarget
  <2>2. Ascending(sent', shown)
    <3>1. CASE Type = 2
      BY <1>2, <3>1 DEF SendTarget, TInv
    <3>2. CASE Type # 2
      <4>1. id \in 1..shown /\ \A i \in 1..Len(sent) : sent[i] < id
        BY <1>2, <3>2 DEF TInv, CursorFresh
      <4>2. sent' = Append(sent, id)
        BY <1>2, <3>2 DEF SendTarget
      <4> QED BY <1>1, <4>1, <4>2, AppendAscending DEF TInv
    <3> QED BY <3>1, <3>2
  <2> QED BY <1>1, <2>1, <2>2 DEF TInv, CursorFresh
<1>3. CASE UNCHANGED cursor
  BY <1>1, <1>3 DEF cursor, TInv, CursorFresh
<1>4. CASE ResetTarget
  BY <1>1, <1>4 DEF ResetTarget, TInv, CursorFresh
<1>5. CASE Answer
  BY <1>2, <1>3, <1>5 DEF Answer
<1>6. CASE SendLastTarget
  BY <1>2, <1>3, <1>6 DEF SendLastTarget, TInv, CursorFresh
<1>7. CASE RequestFromCustomHouse
  BY <1>1, <1>7 DEF RequestFromCustomHouse, TInv, CursorFresh
<1>8. CASE Type # 2 /\ SetLastTargetObject
  BY <1>1, <1>8 DEF SetLastTargetObject, TInv, CursorFresh
<1> QED BY <1>3, <1>4, <1>5, <1>6, <1>7, <1>8 DEF CursorStep

(* A macro does to the cursor what the player may do.                      *)
LEMMA MacroCursorStep ==
  ASSUME ProcessMacro
  PROVE  CursorStep /\ UNCHANGED server
<1> SUFFICES CursorStep
  BY DEF ProcessMacro
<1>1. CASE m_NextTimer > 0
  BY <1>1 DEF ProcessMacro, CursorStep
<1>2. CASE ~(m_NextTimer > 0)
  <2>1. CASE Head(todo) = "bandageSelf"
    <3>1. Bandage(Answer)
      BY <1>2, <2>1 DEF ProcessMacro
    <3> QED BY <3>1 DEF Bandage, AwaitTarget, Goes, CursorStep
  <2>2. CASE Head(todo) = "bandageTarget"
    <3>1. Bandage(IF newTarget THEN Answer ELSE UNCHANGED cursor)
      BY <1>2, <2>2 DEF ProcessMacro
    <3> QED BY <3>1 DEF Bandage, AwaitTarget, Goes, CursorStep
  <2>3. CASE Head(todo) \notin {"bandageSelf", "bandageTarget"}
    <3>1. Perform(Head(todo))
      BY <1>2, <2>3 DEF ProcessMacro
    <3>2. CASE Head(todo) \in {"wait", "last", "self", "current"}
      BY <3>1, <3>2 DEF Perform, AwaitTarget, Goes, CursorStep
    <3>3. CASE Head(todo) \notin {"wait", "last", "self", "current"}
      BY <3>1, <3>3 DEF Perform, Goes, CursorStep
    <3> QED BY <3>2, <3>3
  <2> QED BY <2>1, <2>2, <2>3
<1> QED BY <1>1, <1>2

(* A new cursor is younger than all answers; the healing button's target   *)
(* answers it on the spot.                                                 *)
LEMMA TargetTInv ==
  ASSUME TInv, Target
  PROVE  TInv'
<1>1. /\ shown \in Nat /\ shown' = shown + 1 /\ NextId = shown + 1
      /\ Ascending(sent, shown)
  BY DEF Target, NextId, TInv
<1>2. PICK type \in {0, 1}, takesBack \in BOOLEAN :
        /\ withdrawn' = IF takesBack THEN withdrawn \cup 1..NextId ELSE withdrawn
        /\ Type' = type /\ CursorID' = NextId
        /\ IF helper > 0 /\ ~takesBack
           THEN Targeting' = FALSE /\ m_Data' = 0 /\ sent' = Append(sent, NextId)
           ELSE Targeting' = ~takesBack /\ m_Data' = NextId /\ UNCHANGED sent
  BY DEF Target
<1>3. withdrawn' \subseteq 1..shown' /\ (~takesBack => NextId \notin withdrawn')
  BY <1>1, <1>2 DEF TInv
<1>4. \A i \in 1..Len(sent) : sent[i] < NextId
  BY <1>1 DEF Ascending
<1>5. Ascending(sent', shown')
  <2>1. shown' \in Nat /\ shown <= shown' /\ NextId \in 1..shown'
    BY <1>1
  <2>2. Ascending(Append(sent, NextId), shown')
    BY <1>1, <1>4, <2>1, AppendAscending
  <2>3. Ascending(sent, shown')
    BY <1>1 DEF Ascending
  <2> QED BY <1>2, <2>2, <2>3
<1>6. CursorFresh'
  <2>1. CASE helper > 0 /\ ~takesBack
    BY <1>2, <2>1 DEF CursorFresh
  <2>2. CASE ~(helper > 0 /\ ~takesBack)
    <3>1. /\ Targeting' = ~takesBack /\ m_Data' = NextId /\ CursorID' = NextId
          /\ sent' = sent
      BY <1>2, <2>2
    <3>2. NextId \in 1..shown'
      BY <1>1
    <3>3. ~takesBack => NextId \notin withdrawn'
      BY <1>3
    <3> QED BY <1>4, <3>1, <3>2, <3>3 DEF CursorFresh
  <2> QED BY <2>1, <2>2
<1>7. Targeting' \in BOOLEAN
  BY <1>2
<1> QED BY <1>1, <1>3, <1>5, <1>6, <1>7 DEF TInv

LEMMA MultiPlacementTInv ==
  ASSUME TInv, MultiPlacement
  PROVE  TInv'
<1>1. /\ shown \in Nat /\ shown' = shown + 1 /\ NextId = shown + 1
      /\ Type' = 1 /\ CursorID' = NextId /\ Targeting' = TRUE /\ m_Data' = NextId
      /\ UNCHANGED <<sent, withdrawn>>
  BY DEF MultiPlacement, NextId, TInv
<1>2. Ascending(sent', shown') /\ \A i \in 1..Len(sent) : sent[i] < NextId
  BY <1>1 DEF TInv, Ascending
<1> QED BY <1>1, <1>2 DEF TInv, CursorFresh

(* The end of the world answers for the designer, if it has the server's   *)
(* cursor, and forgets the cursor.                                         *)
LEMMA EndWorldTInv ==
  ASSUME TInv, EndWorld
  PROVE  TInv'
<1>1. /\ UNCHANGED <<shown, withdrawn>> /\ Targeting' = FALSE /\ shown \in Nat
      /\ sent' = IF house /\ Targeting /\ Type # 2 THEN Append(sent, m_Data) ELSE sent
  BY DEF EndWorld, server, TInv
<1>2. Ascending(sent', shown)
  <2>1. CASE house /\ Targeting /\ Type # 2
    <3>1. m_Data \in 1..shown /\ \A i \in 1..Len(sent) : sent[i] < m_Data
      BY <2>1 DEF TInv, CursorFresh
    <3> QED BY <1>1, <2>1, <3>1, AppendAscending DEF TInv
  <2>2. CASE ~(house /\ Targeting /\ Type # 2)
    BY <1>1, <2>2 DEF TInv
  <2> QED BY <2>1, <2>2
<1> QED BY <1>1, <1>2 DEF TInv, CursorFresh

LEMMA NextTInv ==
  ASSUME TInv, [TargetNext]_targetVars
  PROVE  TInv'
<1>1. CASE Target
  BY <1>1, TargetTInv
<1>2. CASE MultiPlacement
  BY <1>2, MultiPlacementTInv
<1>3. CASE EndWorld
  BY <1>3, EndWorldTInv
<1>4. CASE Die \/ ClickTarget \/ Escape \/ HouseTool \/ CloseHouse \/ PluginLastTarget
  <2>1. CursorStep /\ UNCHANGED server
    BY <1>4 DEF Die, ClickTarget, Escape, HouseTool, CloseHouse, PluginLastTarget, CursorStep
  <2> QED BY <2>1, CursorStepTInv
<1>5. CASE SelectNewTarget \/ OpenHouse \/ HealButton \/ StartMacro \/ Execute \/ Tick
           \/ UNCHANGED targetVars
  <2>1. CursorStep /\ UNCHANGED server
    BY <1>5 DEF SelectNewTarget, OpenHouse, HealButton, StartMacro, Execute, Tick,
                targetVars, CursorStep
  <2> QED BY <2>1, CursorStepTInv
<1>6. CASE ProcessMacro
  BY <1>6, MacroCursorStep, CursorStepTInv
<1> QED BY <1>1, <1>2, <1>3, <1>4, <1>5, <1>6 DEF TargetNext

-----------------------------------------------------------------------------
(* Every cursor of the server is answered at most once, under its own id,  *)
(* in the order of the cursors, and never after it was taken back.         *)
THEOREM CursorsAnsweredOnce == TargetSpec => []AnsweredOnce
<1>1. TargetInit => TInv
  <2> SUFFICES ASSUME TargetInit PROVE TInv
    OBVIOUS
  <2>1. sent = <<>> /\ <<>> \in Seq(Nat) /\ Len(<<>>) = 0
    BY DEF TargetInit
  <2>2. Ascending(sent, 0)
    BY <2>1 DEF Ascending
  <2> QED BY <2>2 DEF TargetInit, TInv, CursorFresh
<1>2. TInv /\ [TargetNext]_targetVars => TInv'
  BY NextTInv
<1>3. TInv => AnsweredOnce
  BY DEF TInv, Ascending, CursorFresh, AnsweredOnce
<1> QED BY <1>1, <1>2, <1>3, PTL DEF TargetSpec

-----------------------------------------------------------------------------
(* The pointers of the mouse.                                              *)
(*                                                                         *)
(* PointersLive is not inductive: what Render of a blocked game puts aside *)
(* must be of a modal gump, or it would be put back after its elements were*)
(* built anew (PressedInModal); and only an open gump has elements and     *)
(* wants an update.                                                        *)

Pointers == [object : Addresses \cup {NoObject}, gump : Gumps \cup {NoObject}]
Owners   == Gumps \cup {InWorld, Free}

\* q is not stale when the addresses are owned as in own and the gumps op open.
Sound(q, own, op) ==
  /\ q \in Pointers
  /\ q.gump # NoObject => q.gump \in op
  /\ q.object # NoObject =>
       own[q.object] = (IF q.gump = NoObject THEN InWorld ELSE q.gump)

AllSound(p, own, op) ==
  /\ p \in [Slots -> Pointers]
  /\ \A s \in Slots : Sound(p[s], own, op)

Typed ==
  /\ owner \in [Addresses -> Owners]
  /\ opened \subseteq Gumps
  /\ wants \subseteq opened
  /\ blocked \in BOOLEAN

ElementsOpen == \A a \in Addresses : owner[a] \in Gumps => owner[a] \in opened

\* The pressed pointers p are of modal gumps, or of none.
PressedModal(p) == \A b \in Buttons : p[b].gump \in Modal \cup {NoObject}

PressedInModal == blocked => PressedModal(points)

MInv == Typed /\ ElementsOpen /\ AllSound(points, owner, opened) /\ PressedInModal

-----------------------------------------------------------------------------
(* Pointers *)

\* Null is sound whatever there is.
LEMMA NullSound ==
  ASSUME NEW own, NEW op
  PROVE  Sound(Null, own, op)
BY DEF Sound, Null, Pointer, Pointers

(* The destructors leave no pointer to what is deleted: the others stay    *)
(* sound while what they point to keeps its owner.                         *)
LEMMA FreedSound ==
  ASSUME NEW p, NEW own, NEW op, NEW own2, NEW S \in SUBSET Addresses,
         AllSound(p, own, op), op \subseteq Gumps,
         \A a \in Addresses \ S : own[a] # Free => own2[a] = own[a]
  PROVE  AllSound(Freed(p, S), own2, op)
<1> DEFINE f == Freed(p, S)
<1>1. ASSUME NEW s \in Slots PROVE Sound(f[s], own2, op)
  <2>0. Sound(p[s], own, op) /\ p[s] \in Pointers
    BY DEF AllSound
  <2>1. CASE p[s].object \notin S
    <3>1. f[s] = p[s]
      BY <2>1 DEF Freed
    <3>2. ASSUME p[s].object # NoObject
          PROVE  own2[p[s].object] = own[p[s].object]
      <4>1. p[s].object \in Addresses \ S
        BY <2>0, <2>1, <3>2 DEF Pointers
      <4>2. own[p[s].object] # Free
        BY <2>0, <3>2, DistinctAssumption DEF Sound, Pointers
      <4> QED BY <4>1, <4>2
    <3> QED BY <2>0, <3>1, <3>2 DEF Sound
  <2>2. CASE p[s].object \in S /\ s \in Buttons
    <3>1. f[s] = Pointer(NoObject, p[s].gump)
      BY <2>2 DEF Freed
    <3> QED BY <2>0, <3>1 DEF Sound, Pointer, Pointers
  <2>3. CASE p[s].object \in S /\ s \notin Buttons
    <3>1. f[s] = Null
      BY <2>3 DEF Freed
    <3> QED BY <3>1, NullSound
  <2> QED BY <2>1, <2>2, <2>3
<1>2. f \in [Slots -> Pointers]
  <2>1. f = [s \in Slots |-> f[s]]
    BY DEF Freed
  <2> QED BY <1>1, <2>1 DEF Sound
<1> QED BY <1>1, <1>2 DEF AllSound

(* The destructors leave a pressed pointer its gump, or none. *)
LEMMA FreedModal ==
  ASSUME NEW p, NEW S, PressedModal(p)
  PROVE  PressedModal(Freed(p, S))
BY DEF PressedModal, Freed, Pointer, Null, Slots, Buttons

\* A function of pointers with one of them replaced by a sound one.
LEMMA ExceptSound ==
  ASSUME NEW p, NEW own, NEW op, NEW t \in Slots, NEW q,
         AllSound(p, own, op), Sound(q, own, op)
  PROVE  AllSound([p EXCEPT ![t] = q], own, op)
BY DEF AllSound, Sound

-----------------------------------------------------------------------------
(* UpdateContent and SelectObject *)

(* What is deleted and built anew by an update of open gumps: only their   *)
(* elements, at their own addresses and at free ones.                      *)
LEMMA UpdateKeeps ==
  ASSUME Typed, ElementsOpen, NEW R \in SUBSET opened, UpdateContent(R),
         opened' = opened, blocked' \in BOOLEAN
  PROVE  /\ Typed' /\ ElementsOpen'
         /\ \A a \in Addresses \ Elements(R) : owner[a] # Free => owner'[a] = owner[a]
         /\ Elements(R) \in SUBSET Addresses
<1>1. owner' \in [Addresses -> Owners]
  BY DEF UpdateContent, Owners
<1>2. wants' \subseteq opened'
  BY DEF Typed, UpdateContent
<1>3. ASSUME NEW a \in Addresses PROVE owner'[a] \in Gumps => owner'[a] \in opened'
  <2>1. owner'[a] \in R \cup {Free} \/ owner'[a] = owner[a]
    BY DEF UpdateContent
  <2> QED BY <2>1, DistinctAssumption DEF ElementsOpen
<1>4. \A a \in Addresses \ Elements(R) : owner[a] # Free => owner'[a] = owner[a]
  BY DEF UpdateContent, Elements
<1> QED BY <1>1, <1>2, <1>3, <1>4 DEF Typed, ElementsOpen, Elements

(* Whatever is hit is sound, and in a blocked game of a modal gump. *)
LEMMA HitsSound ==
  ASSUME Typed', ElementsOpen', opened' = opened, NEW hit \in Hits
  PROVE  /\ Sound(hit, owner', opened')
         /\ blocked => hit.gump \in Modal \cup {NoObject}
<1>1. CASE hit = Null
  BY <1>1, NullSound DEF Null, Pointer
<1>2. CASE \E a \in Addresses : owner'[a] \in Level /\ hit = Pointer(a, owner'[a])
  <2>1. PICK a \in Addresses : owner'[a] \in Level /\ hit = Pointer(a, owner'[a])
    BY <1>2
  <2>2. Level \subseteq Gumps /\ (blocked => Level = Modal)
    BY ModalAssumption DEF Level
  <2>3. owner'[a] \in opened' /\ owner'[a] # NoObject /\ owner'[a] \in Gumps
    BY <2>1, <2>2, DistinctAssumption DEF ElementsOpen
  <2>4. hit.object = a /\ hit.gump = owner'[a] /\ hit \in Pointers
    BY <2>1, <2>3 DEF Pointer, Pointers
  <2> QED BY <2>1, <2>2, <2>3, <2>4 DEF Sound
<1>3. CASE \E a \in Addresses :
             owner'[a] = InWorld /\ ~blocked /\ hit = Pointer(a, NoObject)
  BY <1>3 DEF Sound, Pointer, Pointers
<1> QED BY <1>1, <1>2, <1>3 DEF Hits

(* SelectObject leaves pointers sound, and the pressed ones in their       *)
(* gumps: own is the ownership that p is sound of, which the update of the *)
(* gumps R may have changed at their elements only.                        *)
LEMMA SelectedSound ==
  ASSUME Typed, Typed', ElementsOpen', opened' = opened,
         NEW p, NEW own, AllSound(p, own, opened), NEW R,
         \A a \in Addresses \ Elements(R) : own[a] # Free => owner'[a] = own[a],
         NEW hit \in Hits
  PROVE  /\ AllSound(Selected(p, R, hit), owner', opened')
         /\ PressedModal(p) => PressedModal(Selected(p, R, hit))
         /\ Sound(hit, owner', opened')
         /\ blocked => hit.gump \in Modal \cup {NoObject}
<1> DEFINE q == [p EXCEPT !["selected"] = Null]
           f == Freed(q, Elements(R))
<1>1. Elements(R) \in SUBSET Addresses
  BY DEF Elements
<1>2. /\ Sound(hit, owner', opened')
      /\ blocked => hit.gump \in Modal \cup {NoObject}
  BY HitsSound
<1>3. AllSound(q, own, opened)
  BY NullSound, ExceptSound DEF Slots
<1>4. AllSound(f, owner', opened')
  <2>1. opened \subseteq Gumps
    BY DEF Typed
  <2>2. AllSound(f, owner', opened)
    BY <1>1, <1>3, <2>1, FreedSound
  <2> QED BY <2>2
<1>5. Selected(p, R, hit) = [[f EXCEPT !["selected"] = hit] EXCEPT !["last"] = hit]
  BY DEF Selected
<1>6. AllSound(Selected(p, R, hit), owner', opened')
  <2> DEFINE g == [f EXCEPT !["selected"] = hit]
  <2>1. AllSound(g, owner', opened')
    BY <1>2, <1>4, ExceptSound DEF Slots
  <2> HIDE DEF g, f
  <2>2. AllSound([g EXCEPT !["last"] = hit], owner', opened')
    BY <1>2, <2>1, ExceptSound DEF Slots
  <2> QED BY <1>5, <2>2 DEF g
<1>7. ASSUME PressedModal(p) PROVE PressedModal(Selected(p, R, hit))
  <2>1. PressedModal(q)
    BY <1>7 DEF PressedModal, Buttons, AllSound
  <2>2. PressedModal(f)
    BY <2>1, FreedModal
  <2>3. f \in [Slots -> Pointers]
    BY <1>4 DEF AllSound
  <2> QED BY <1>5, <2>2, <2>3 DEF PressedModal, Buttons, Slots
<1> QED BY <1>2, <1>6, <1>7

(* A handler that selects first: of what it starts from, what the steps    *)
(* below need.                                                             *)
LEMMA Selecting ==
  ASSUME MInv, NEW R \in Displayed, UpdateContent(R), UNCHANGED <<opened, blocked>>,
         NEW hit \in Hits
  PROVE  /\ Typed' /\ ElementsOpen'
         /\ AllSound(Selected(points, R, hit), owner', opened')
         /\ blocked' => PressedModal(Selected(points, R, hit))
         /\ Sound(hit, owner', opened')
         /\ blocked' => hit.gump \in Modal \cup {NoObject}
<1>1. R \in SUBSET opened
  BY DEF Displayed
<1>2. blocked' \in BOOLEAN
  BY DEF MInv, Typed
<1>3. /\ Typed' /\ ElementsOpen'
      /\ \A a \in Addresses \ Elements(R) : owner[a] # Free => owner'[a] = owner[a]
  BY <1>1, <1>2, UpdateKeeps DEF MInv
<1>4. /\ AllSound(Selected(points, R, hit), owner', opened')
      /\ PressedModal(points) => PressedModal(Selected(points, R, hit))
      /\ Sound(hit, owner', opened')
      /\ blocked => hit.gump \in Modal \cup {NoObject}
  BY <1>3, SelectedSound DEF MInv
<1> QED BY <1>3, <1>4 DEF MInv, PressedInModal

\* Pointers of which one is replaced by one that is of a modal gump or none.
LEMMA ExceptModal ==
  ASSUME NEW p \in [Slots -> Pointers], PressedModal(p), NEW t \in Slots, NEW q,
         q.gump \in Modal \cup {NoObject}
  PROVE  PressedModal([p EXCEPT ![t] = q])
BY DEF PressedModal, Slots

\* A pointer that is cleared: the others stay as they are.
LEMMA ClearKeeps ==
  ASSUME NEW p, NEW own, NEW op, NEW t \in Slots, AllSound(p, own, op)
  PROVE  /\ AllSound([p EXCEPT ![t] = Null], own, op)
         /\ PressedModal(p) => PressedModal([p EXCEPT ![t] = Null])
<1>1. AllSound([p EXCEPT ![t] = Null], own, op)
  BY NullSound, ExceptSound
<1>2. Null.gump = NoObject
  BY DEF Null, Pointer
<1>3. p \in [Slots -> Pointers]
  BY DEF AllSound
<1> QED BY <1>1, <1>2, <1>3, ExceptModal

-----------------------------------------------------------------------------
(* The player *)

LEMMA DownKeeps ==
  ASSUME MInv, NEW b \in Buttons, MouseButtonDown(b)
  PROVE  MInv'
<1>1. PICK R \in Displayed : /\ UpdateContent(R)
                             /\ \E hit \in Hits :
                                  points' = [Selected(points, R, hit) EXCEPT ![b] = hit]
  BY DEF MouseButtonDown
<1>2. PICK hit \in Hits : points' = [Selected(points, R, hit) EXCEPT ![b] = hit]
  BY <1>1
<1> DEFINE p == Selected(points, R, hit)
<1>3. UNCHANGED <<opened, blocked>> /\ b \in Slots
  BY DEF MouseButtonDown, Slots
<1>4. /\ Typed' /\ ElementsOpen' /\ AllSound(p, owner', opened')
      /\ blocked' => PressedModal(p)
      /\ Sound(hit, owner', opened')
      /\ blocked' => hit.gump \in Modal \cup {NoObject}
  BY <1>1, <1>3, Selecting
<1> HIDE DEF p
<1>5. AllSound(points', owner', opened')
  BY <1>2, <1>3, <1>4, ExceptSound DEF p
<1>6. p \in [Slots -> Pointers]
  BY <1>4 DEF AllSound
<1>7. blocked' => PressedModal(points')
  BY <1>2, <1>3, <1>4, <1>6, ExceptModal DEF p
<1> QED BY <1>4, <1>5, <1>7 DEF MInv, PressedInModal

LEMMA UpKeeps ==
  ASSUME MInv, NEW b \in Buttons, MouseButtonUp(b)
  PROVE  MInv'
<1>1. PICK R \in Displayed, hit \in Hits :
        /\ UpdateContent(R)
        /\ LET p == Selected(points, R, hit)
           IN \/ points' = [p EXCEPT ![b] = Null]
              \/ /\ ~blocked
                 /\ \/ points' = [p EXCEPT !["left"] = Null, !["click"] = p["left"]]
                    \/ \E a \in Addresses :
                         /\ owner'[a] = InWorld
                         /\ points' = [p EXCEPT !["left"] = Null,
                                                !["click"] = Pointer(a, NoObject)]
  BY DEF MouseButtonUp
<1> DEFINE p == Selected(points, R, hit)
           q == [p EXCEPT !["left"] = Null]
<1>2. UNCHANGED <<opened, blocked>> /\ b \in Slots
  BY DEF MouseButtonUp, Slots
<1>3. /\ Typed' /\ ElementsOpen' /\ AllSound(p, owner', opened')
      /\ blocked' => PressedModal(p)
  BY <1>1, <1>2, Selecting
<1>p. \/ points' = [p EXCEPT ![b] = Null]
      \/ /\ ~blocked
         /\ \/ points' = [q EXCEPT !["click"] = p["left"]]
            \/ \E a \in Addresses :
                 /\ owner'[a] = InWorld
                 /\ points' = [q EXCEPT !["click"] = Pointer(a, NoObject)]
  BY <1>1
<1> HIDE DEF p
<1>4. CASE points' = [p EXCEPT ![b] = Null]
  <2>1. /\ AllSound(points', owner', opened')
        /\ blocked' => PressedModal(points')
    BY <1>2, <1>3, <1>4, ClearKeeps
  <2> QED BY <1>3, <2>1 DEF MInv, PressedInModal
<1>5. AllSound(q, owner', opened')
  BY <1>3, ClearKeeps DEF Slots, Buttons
<1> HIDE DEF q
<1>6. CASE ~blocked /\ points' = [q EXCEPT !["click"] = p["left"]]
  <2>1. Sound(p["left"], owner', opened')
    BY <1>3 DEF AllSound, Slots, Buttons
  <2>2. AllSound(points', owner', opened')
    BY <1>5, <1>6, <2>1, ExceptSound DEF Slots
  <2> QED BY <1>2, <1>3, <1>6, <2>2 DEF MInv, PressedInModal
<1>7. CASE /\ ~blocked
           /\ \E a \in Addresses :
                /\ owner'[a] = InWorld
                /\ points' = [q EXCEPT !["click"] = Pointer(a, NoObject)]
  <2>1. PICK a \in Addresses : /\ owner'[a] = InWorld
                               /\ points' = [q EXCEPT !["click"] = Pointer(a, NoObject)]
    BY <1>7
  <2>2. Sound(Pointer(a, NoObject), owner', opened')
    BY <2>1 DEF Sound, Pointer, Pointers
  <2>3. AllSound(points', owner', opened')
    BY <1>5, <2>1, <2>2, ExceptSound DEF Slots
  <2> QED BY <1>2, <1>3, <1>7, <2>3 DEF MInv, PressedInModal
<1> QED BY <1>p, <1>4, <1>6, <1>7

LEMMA DoubleClickKeeps ==
  ASSUME MInv, NEW b \in Buttons, DoubleClick(b)
  PROVE  MInv'
<1>1. PICK R \in Displayed, hit \in Hits :
        /\ UpdateContent(R)
        /\ points' = [s \in Slots |-> IF s = b \/ (s = "click" /\ b = "left") THEN Null
                                      ELSE Selected(points, R, hit)[s]]
  BY DEF DoubleClick
<1> DEFINE p == Selected(points, R, hit)
<1>2. UNCHANGED <<opened, blocked>>
  BY DEF DoubleClick
<1>3. /\ Typed' /\ ElementsOpen' /\ AllSound(p, owner', opened')
      /\ blocked' => PressedModal(p)
  BY <1>1, <1>2, Selecting
<1>p. points' = [s \in Slots |-> IF s = b \/ (s = "click" /\ b = "left") THEN Null ELSE p[s]]
  BY <1>1
<1> HIDE DEF p
<1>4. AllSound(points', owner', opened')
  BY <1>3, <1>p, NullSound DEF AllSound, Sound
<1>5. blocked' => PressedModal(points')
  BY <1>3, <1>p DEF PressedModal, Null, Pointer, Slots
<1> QED BY <1>3, <1>4, <1>5 DEF MInv, PressedInModal

(* DragItem and ProcessDelayedClicks: a pointer is cleared, nothing else.  *)
LEMMA ClearedKeeps ==
  ASSUME MInv, DragItem \/ ProcessDelayedClicks
  PROVE  MInv'
<1>1. UNCHANGED <<owner, opened, wants, blocked>>
  BY DEF DragItem, ProcessDelayedClicks
<1>2. PICK t \in {"left", "click"} : points' = [points EXCEPT ![t] = Null]
  BY DEF DragItem, ProcessDelayedClicks
<1>3. /\ AllSound(points', owner, opened)
      /\ PressedModal(points) => PressedModal(points')
  BY <1>2, ClearKeeps DEF MInv, Slots, Buttons
<1> QED BY <1>1, <1>3 DEF MInv, Typed, ElementsOpen, PressedInModal

-----------------------------------------------------------------------------
(* Frames *)

LEMMA FrameSelectKeeps ==
  ASSUME MInv, FrameSelect
  PROVE  MInv'
<1>1. PICK R \in Displayed, hit \in Hits :
        UpdateContent(R) /\ points' = Selected(points, R, hit)
  BY DEF FrameSelect
<1>2. UNCHANGED <<opened, blocked>>
  BY DEF FrameSelect
<1>3. /\ Typed' /\ ElementsOpen' /\ AllSound(points', owner', opened')
      /\ blocked' => PressedModal(points')
  BY <1>1, <1>2, Selecting
<1> QED BY <1>3 DEF MInv, PressedInModal

LEMMA RenderKeeps ==
  ASSUME MInv, Render
  PROVE  MInv'
<1>1. PICK R \in Displayed : UpdateContent(R) /\ points' = Freed(points, Elements(R))
  BY DEF Render
<1>2. UNCHANGED <<opened, blocked>> /\ ~blocked
  BY DEF Render
<1>3. R \in SUBSET opened /\ blocked' \in BOOLEAN
  BY <1>1, <1>2 DEF Displayed, MInv, Typed
<1>4. /\ Typed' /\ ElementsOpen'
      /\ \A a \in Addresses \ Elements(R) : owner[a] # Free => owner'[a] = owner[a]
      /\ Elements(R) \in SUBSET Addresses
  BY <1>1, <1>2, <1>3, UpdateKeeps DEF MInv
<1>5. AllSound(points', owner', opened)
  <2>1. AllSound(points, owner, opened) /\ opened \subseteq Gumps
    BY DEF MInv, Typed
  <2> QED BY <1>1, <1>4, <2>1, FreedSound
<1> QED BY <1>2, <1>4, <1>5 DEF MInv, PressedInModal

(* A blocked game: between is who owns the addresses after the game was    *)
(* drawn and before the blocked screen selects.  What was pressed is of a  *)
(* modal gump, so it is as sound when it is put back as it was.            *)
LEMMA RenderBlockedKeeps ==
  ASSUME MInv, RenderBlocked
  PROVE  MInv'
<1> DEFINE aside == [s \in Slots |-> IF s \in Buttons \cup {"selected"} THEN Null
                                     ELSE points[s]]
           drawn(R) == Freed(aside, Elements(R \ Modal))
           back(R) == [s \in Slots |-> IF s \in Buttons THEN points[s] ELSE drawn(R)[s]]
<1>1. PICK R \in SUBSET (wants \cap opened), hit \in Hits :
        UpdateContent(R) /\ points' = Selected(back(R), R \cap Modal, hit)
  BY DEF RenderBlocked
<1> DEFINE between == [a \in Addresses |-> IF a \in Elements(R \ Modal) THEN Free
                                           ELSE owner[a]]
<1>2. UNCHANGED <<opened, blocked>> /\ blocked
  BY DEF RenderBlocked
<1>3. R \in SUBSET opened /\ blocked' \in BOOLEAN
  BY <1>1, <1>2 DEF MInv, Typed
<1>4. Typed' /\ ElementsOpen'
  BY <1>1, <1>2, <1>3, UpdateKeeps DEF MInv
<1>5. \A a \in Addresses \ Elements(R \cap Modal) :
        between[a] # Free => owner'[a] = between[a]
  <2> SUFFICES ASSUME NEW a \in Addresses \ Elements(R \cap Modal), between[a] # Free
               PROVE  owner'[a] = between[a]
    OBVIOUS
  <2>1. a \notin Elements(R \ Modal) /\ between[a] = owner[a] /\ owner[a] # Free
    OBVIOUS
  <2>2. owner[a] \notin R \cup {Free}
    BY <2>1 DEF Elements
  <2> QED BY <1>1, <2>1, <2>2 DEF UpdateContent
<1>6. AllSound(aside, owner, opened)
  BY NullSound DEF MInv, AllSound, Sound
<1>7. AllSound(drawn(R), between, opened)
  <2>1. Elements(R \ Modal) \in SUBSET Addresses /\ opened \subseteq Gumps
    BY DEF Elements, MInv, Typed
  <2>2. \A a \in Addresses \ Elements(R \ Modal) : owner[a] # Free => between[a] = owner[a]
    OBVIOUS
  <2> HIDE DEF aside, between
  <2> QED BY <1>6, <2>1, <2>2, FreedSound
<1>8. ASSUME NEW b \in Buttons PROVE Sound(points[b], between, opened)
  <2>1. Sound(points[b], owner, opened) /\ points[b] \in Pointers
    BY DEF MInv, AllSound, Slots
  <2>2. points[b].gump \in Modal \cup {NoObject}
    BY <1>2 DEF MInv, PressedInModal, PressedModal
  <2>3. ASSUME points[b].object # NoObject
        PROVE  between[points[b].object] = owner[points[b].object]
    <3>1. points[b].object \in Addresses
      BY <2>1, <2>3 DEF Pointers
    <3>2. owner[points[b].object] \in Modal \cup {InWorld}
      BY <2>1, <2>2, <2>3 DEF Sound
    <3>3. owner[points[b].object] \notin R \ Modal
      BY <1>3, <3>2, DistinctAssumption DEF MInv, Typed
    <3>4. points[b].object \notin Elements(R \ Modal)
      BY <3>3 DEF Elements
    <3> QED BY <3>1, <3>4
  <2> HIDE DEF between
  <2> QED BY <2>1, <2>3 DEF Sound
<1> HIDE DEF aside, drawn, between
<1>9. AllSound(back(R), between, opened)
  BY <1>7, <1>8 DEF AllSound, Sound
<1>10. PressedModal(back(R))
  BY <1>2 DEF MInv, PressedInModal, PressedModal, Slots
<1> HIDE DEF back
<1>11. /\ AllSound(points', owner', opened')
       /\ PressedModal(points')
  BY <1>1, <1>2, <1>4, <1>5, <1>9, <1>10, SelectedSound DEF MInv
<1> QED BY <1>4, <1>11 DEF MInv, PressedInModal

-----------------------------------------------------------------------------
(* Packets *)

\* What InitScreen leaves is sound, and nothing is pressed.
LEMMA InitScreenSound ==
  ASSUME NEW p, NEW own, NEW op, AllSound(p, own, op)
  PROVE  AllSound(InitScreen(p), own, op) /\ PressedModal(InitScreen(p))
<1>1. Sound(Null, own, op)
  BY NullSound
<1>2. AllSound(InitScreen(p), own, op)
  BY <1>1 DEF InitScreen, AllSound, Sound
<1>3. PressedModal(InitScreen(p))
  BY DEF InitScreen, PressedModal, Null, Pointer, Buttons, Slots
<1> QED BY <1>2, <1>3

LEMMA CreateKeeps ==
  ASSUME MInv, CreateObject
  PROVE  MInv'
<1>1. PICK a \in Addresses : owner[a] = Free /\ owner' = [owner EXCEPT ![a] = InWorld]
  BY DEF CreateObject
<1>2. UNCHANGED <<opened, wants, blocked, points>>
  BY DEF CreateObject
<1>3. Typed' /\ ElementsOpen'
  BY <1>1, <1>2, DistinctAssumption DEF MInv, Typed, Owners, ElementsOpen
<1>4. ASSUME NEW s \in Slots PROVE Sound(points[s], owner', opened)
  <2>1. Sound(points[s], owner, opened)
    BY DEF MInv, AllSound
  <2>2. points[s].object # NoObject => points[s].object # a
    BY <1>1, <2>1, DistinctAssumption DEF Sound, Pointers
  <2> QED BY <1>1, <2>1, <2>2 DEF Sound, Pointers, MInv, Typed
<1> QED BY <1>2, <1>3, <1>4 DEF MInv, AllSound, PressedInModal

LEMMA DeleteKeeps ==
  ASSUME MInv, DeleteObjects
  PROVE  MInv'
<1>1. PICK S \in SUBSET Elements({InWorld}) :
        /\ owner' = [a \in Addresses |-> IF a \in S THEN Free ELSE owner[a]]
        /\ points' = Freed(points, S)
  BY DEF DeleteObjects
<1>2. UNCHANGED <<opened, wants, blocked>>
  BY DEF DeleteObjects
<1>3. Typed' /\ ElementsOpen'
  BY <1>1, <1>2, DistinctAssumption DEF MInv, Typed, Owners, ElementsOpen
<1>4. AllSound(points', owner', opened)
  <2>1. S \in SUBSET Addresses /\ opened \subseteq Gumps /\ AllSound(points, owner, opened)
    BY DEF Elements, MInv, Typed
  <2>2. \A a \in Addresses \ S : owner[a] # Free => owner'[a] = owner[a]
    BY <1>1
  <2> QED BY <1>1, <2>1, <2>2, FreedSound
<1>5. PressedInModal'
  BY <1>1, <1>2, FreedModal DEF MInv, PressedInModal
<1> QED BY <1>2, <1>3, <1>4, <1>5 DEF MInv

LEMMA OpenKeeps ==
  ASSUME MInv, NEW g \in Gumps, OpenGump(g)
  PROVE  MInv'
<1>1. /\ opened' = opened \cup {g} /\ wants' = wants \cup {g} /\ owner' = owner
      /\ \/ blocked' = TRUE /\ points' = InitScreen(points)
         \/ UNCHANGED <<blocked, points>>
  BY DEF OpenGump
<1>2. Typed' /\ ElementsOpen'
  BY <1>1 DEF MInv, Typed, ElementsOpen
<1>3. AllSound(points, owner', opened')
  BY <1>1 DEF MInv, AllSound, Sound
<1>4. CASE blocked' = TRUE /\ points' = InitScreen(points)
  BY <1>2, <1>3, <1>4, InitScreenSound DEF MInv, PressedInModal
<1>5. CASE UNCHANGED <<blocked, points>>
  BY <1>2, <1>3, <1>5 DEF MInv, PressedInModal
<1> QED BY <1>1, <1>4, <1>5

LEMMA CloseKeeps ==
  ASSUME MInv, NEW g \in Gumps, CloseGump(g)
  PROVE  MInv'
<1> DEFINE p == Forget(points, g)
<1>1. /\ opened' = opened \ {g} /\ wants' = wants \ {g}
      /\ owner' = [a \in Addresses |-> IF owner[a] = g THEN Free ELSE owner[a]]
      /\ points' = Freed(p, Elements({g}))
      /\ blocked' => blocked
      /\ blocked' \in BOOLEAN
  BY DEF CloseGump, MInv, Typed
<1>2. Typed'
  BY <1>1 DEF MInv, Typed, Owners
<1>3. ElementsOpen'
  BY <1>1, DistinctAssumption DEF MInv, Typed, ElementsOpen
<1>4. AllSound(p, owner, opened')
  <2>1. ASSUME NEW s \in Slots PROVE Sound(p[s], owner, opened')
    <3>1. CASE points[s].gump = g
      <4>1. p[s] = Null
        BY <3>1 DEF Forget
      <4> QED BY <4>1, NullSound
    <3>2. CASE points[s].gump # g
      <4>1. p[s] = points[s] /\ Sound(points[s], owner, opened)
        BY <3>2 DEF Forget, MInv, AllSound
      <4> QED BY <1>1, <3>2, <4>1 DEF Sound
    <3> QED BY <3>1, <3>2
  <2>2. p = [s \in Slots |-> p[s]]
    BY DEF Forget
  <2> QED BY <2>1, <2>2 DEF AllSound, Sound
<1>5. blocked' => PressedModal(p)
  BY <1>1 DEF MInv, PressedInModal, PressedModal, Forget, Null, Pointer, Buttons, Slots
<1> HIDE DEF p
<1>6. AllSound(points', owner', opened')
  <2>1. opened' \subseteq Gumps /\ Elements({g}) \in SUBSET Addresses
    BY <1>1 DEF Elements, MInv, Typed
  <2>2. \A a \in Addresses \ Elements({g}) : owner[a] # Free => owner'[a] = owner[a]
    BY <1>1 DEF Elements
  <2> QED BY <1>1, <1>4, <2>1, <2>2, FreedSound
<1>7. PressedInModal'
  BY <1>1, <1>5, FreedModal DEF PressedInModal
<1> QED BY <1>2, <1>3, <1>6, <1>7 DEF MInv

-----------------------------------------------------------------------------
(* MouseInit establishes the invariant, every step keeps it. *)
LEMMA Initially == MouseInit => MInv
<1> SUFFICES ASSUME MouseInit PROVE MInv
  OBVIOUS
<1>1. Typed /\ ElementsOpen
  BY DistinctAssumption DEF MouseInit, Typed, Owners, ElementsOpen
<1>2. AllSound(points, owner, opened)
  BY NullSound DEF MouseInit, AllSound, Sound
<1>3. PressedInModal
  BY DEF MouseInit, PressedInModal
<1> QED BY <1>1, <1>2, <1>3 DEF MInv

LEMMA StepKeeps == MInv /\ [MouseNext]_mouseVars => MInv'
<1> SUFFICES ASSUME MInv, [MouseNext]_mouseVars PROVE MInv'
  OBVIOUS
<1>1. CASE \E b \in Buttons : MouseButtonDown(b) \/ MouseButtonUp(b) \/ DoubleClick(b)
  BY <1>1, DownKeeps, UpKeeps, DoubleClickKeeps
<1>2. CASE DragItem \/ ProcessDelayedClicks
  BY <1>2, ClearedKeeps
<1>3. CASE FrameSelect
  BY <1>3, FrameSelectKeeps
<1>4. CASE Render
  BY <1>4, RenderKeeps
<1>5. CASE RenderBlocked
  BY <1>5, RenderBlockedKeeps
<1>6. CASE CreateObject
  BY <1>6, CreateKeeps
<1>7. CASE DeleteObjects
  BY <1>7, DeleteKeeps
<1>8. CASE LoginComplete
  <2>1. UNCHANGED <<owner, opened, wants>> /\ ~blocked' /\ points' = InitScreen(points)
    BY <1>8 DEF LoginComplete
  <2>2. AllSound(points', owner', opened') /\ blocked' \in BOOLEAN
    BY <1>8, <2>1, InitScreenSound DEF MInv, LoginComplete
  <2> QED BY <2>1, <2>2 DEF MInv, Typed, ElementsOpen, PressedInModal
<1>9. CASE \E g \in Gumps : OpenGump(g) \/ CloseGump(g)
  BY <1>9, OpenKeeps, CloseKeeps
<1>10. CASE \E g \in Gumps : WantUpdateContent(g)
  <2>1. PICK g \in Gumps : g \in opened /\ wants' = wants \cup {g}
    BY <1>10 DEF WantUpdateContent
  <2>2. UNCHANGED <<owner, opened, blocked, points>>
    BY <1>10 DEF WantUpdateContent
  <2> QED BY <2>1, <2>2 DEF MInv, Typed, ElementsOpen, PressedInModal
<1>11. CASE UNCHANGED mouseVars
  BY <1>11 DEF mouseVars, MInv, Typed, ElementsOpen, PressedInModal
<1> QED BY <1>1, <1>2, <1>3, <1>4, <1>5, <1>6, <1>7, <1>8, <1>9, <1>10, <1>11 DEF MouseNext

(* No pointer the mouse leaves behind is stale: its gump is open, and its  *)
(* object is where the pointer says, whatever packets delete and frames    *)
(* build anew between two uses of the mouse.                               *)
THEOREM NoPointerStale == MouseSpec => []PointersLive
<1>1. MInv => PointersLive
  BY DEF MInv, AllSound, Sound, PointersLive
<1> QED BY <1>1, Initially, StepKeeps, PTL DEF MouseSpec

-----------------------------------------------------------------------------
(* The queue of property lists.                                            *)
(*                                                                         *)
(* That something is on its way (Pending) is not enough to go by: an old   *)
(* announcement that is taken off the stream must not be the last one.     *)
(* CarriesOn says that what is on its way will do, and Ordered that the    *)
(* revisions of a serial never fall on their way to the client, so that a  *)
(* list never replaces a newer one.                                        *)

Known    == Nat \cup {Unknown}
Messages == [type : {"info", "list"}, serial : Serials, revision : Nat]

QueueTyped ==
  /\ m_MegaClilocRequests \in Seq(Serials)
  /\ m_Map \in [Serials -> Known] /\ announced \in [Serials -> Known]
  /\ revision \in [Serials -> Nat]
  /\ toServer \in Seq(Seq(Serials)) /\ toClient \in Seq(Messages)
  /\ tooltips \in BOOLEAN /\ receiving \in BOOLEAN /\ connected \in BOOLEAN

QueueKept ==
  /\ IsInjective(m_MegaClilocRequests)
  /\ m_MegaClilocRequests = <<>> \/ (receiving /\ tooltips)

UpTo(k, n) == k = Unknown \/ k <= n

Ordered ==
  /\ \A s \in Serials : UpTo(m_Map[s], revision[s]) /\ UpTo(announced[s], revision[s])
  /\ \A i \in 1..Len(toClient) :
       /\ UpTo(m_Map[toClient[i].serial], toClient[i].revision)
       /\ toClient[i].revision <= revision[toClient[i].serial]
  /\ \A i, j \in 1..Len(toClient) :
       i < j /\ toClient[i].serial = toClient[j].serial =>
         toClient[i].revision <= toClient[j].revision

Offline ==
  ~connected => toServer = <<>> /\ toClient = <<>> /\ \A s \in Serials : announced[s] = Unknown

(* What the client has, or will have, of s is not older than n.            *)
Has(s, n)      == m_Map[s] # Unknown /\ m_Map[s] >= n
Arriving(s, n) == \E i \in 1..Len(toClient) :
                    toClient[i].serial = s /\ toClient[i].revision >= n
Asked(s)       == \E i \in 1..Len(toServer) : Contains(toServer[i], s)
Queued(s)      == Contains(m_MegaClilocRequests, s)

CarriesOn ==
  \A s \in Serials :
    connected /\ tooltips /\ announced[s] # Unknown =>
      Has(s, announced[s]) \/ Arriving(s, announced[s]) \/ Asked(s) \/ Queued(s)

PInv == QueueTyped /\ QueueKept /\ Ordered /\ Offline /\ CarriesOn

USE BatchAssumption, PropertyBounds

-----------------------------------------------------------------------------
(* Lemmas about batches and messages *)

(* The k-th of n serials has its place in a batch.                         *)
LEMMA BatchOf ==
  ASSUME NEW n \in Nat, NEW k \in 1..n
  PROVE  LET i == ((k - 1) \div BatchSize) + 1
         IN /\ i \in 1..((n + BatchSize - 1) \div BatchSize)
            /\ (i - 1) * BatchSize + 1 <= k /\ k <= i * BatchSize
<1> DEFINE q == (k - 1) \div BatchSize
           r == (n + BatchSize - 1) \div BatchSize
<1>1. BatchSize \in Nat /\ BatchSize > 0 /\ k - 1 \in Nat /\ n + BatchSize - 1 \in Nat
  OBVIOUS
<1>2. ASSUME NEW a \in Nat, NEW b \in Nat, b > 0
      PROVE  a \div b \in Nat /\ (a \div b) * b <= a /\ a < (a \div b) * b + b
  BY <1>2
<1>3. q \in Nat /\ q * BatchSize <= k - 1 /\ k - 1 < q * BatchSize + BatchSize
  BY <1>1, <1>2
<1>4. r \in Nat /\ n + BatchSize - 1 < r * BatchSize + BatchSize
  BY <1>1, <1>2
<1> HIDE DEF q, r
<1>5. q * BatchSize < r * BatchSize
  <2> DEFINE x == q * BatchSize
             y == r * BatchSize
  <2>1. x \in Nat /\ y \in Nat
    BY <1>1, <1>3, <1>4
  <2>2. x <= k - 1 /\ n + BatchSize - 1 < y + BatchSize /\ k <= n
    BY <1>3, <1>4
  <2> HIDE DEF x, y
  <2>3. x < y
    BY <1>1, <2>1, <2>2
  <2> QED BY <2>3 DEF x, y
<1>6. q < r
  BY <1>1, <1>3, <1>4, <1>5
<1>7. (q + 1) * BatchSize = q * BatchSize + BatchSize
  BY <1>1, <1>3
<1> QED BY <1>1, <1>3, <1>4, <1>6, <1>7 DEF q, r

(* The batches hold every serial of the queue.                             *)
LEMMA BatchesHold ==
  ASSUME NEW queue \in Seq(Serials)
  PROVE  /\ Batches(queue) \in Seq(Seq(Serials))
         /\ \A s : Contains(queue, s) =>
              \E i \in 1..Len(Batches(queue)) : Contains(Batches(queue)[i], s)
<1> DEFINE n == Len(queue)
           count == (n + BatchSize - 1) \div BatchSize
           from(i) == (i - 1) * BatchSize + 1
           last(i) == IF i * BatchSize < n THEN i * BatchSize ELSE n
<1>1. n \in Nat /\ BatchSize \in Nat /\ BatchSize > 0
  OBVIOUS
<1>2. count \in Nat
  BY <1>1
<1>3. ASSUME NEW i \in 1..count
      PROVE  from(i) \in Nat \ {0} /\ last(i) \in Nat /\ last(i) <= n
  <2>1. i \in Nat /\ i - 1 \in Nat
    BY <1>2
  <2>2. i * BatchSize \in Nat /\ (i - 1) * BatchSize \in Nat
    BY <1>1, <2>1
  <2> QED BY <1>1, <2>2
<1>4. Batches(queue) = [i \in 1..count |-> SubSeq(queue, from(i), last(i))]
  BY DEF Batches
<1> HIDE DEF count, from, last
<1>5. ASSUME NEW i \in 1..count
      PROVE  /\ SubSeq(queue, from(i), last(i)) \in Seq(Serials)
             /\ Len(SubSeq(queue, from(i), last(i))) =
                  IF from(i) <= last(i) THEN last(i) - from(i) + 1 ELSE 0
             /\ \A j \in 1..last(i) - from(i) + 1 :
                  SubSeq(queue, from(i), last(i))[j] = queue[from(i) + j - 1]
  <2>1. from(i) \in Int /\ last(i) \in Int
    BY <1>3
  <2>2. \A x \in from(i)..last(i) : queue[x] \in Serials
    BY <1>1, <1>3
  <2> QED BY <2>1, <2>2, SubSeqProperties
<1>6. Batches(queue) \in Seq(Seq(Serials)) /\ Len(Batches(queue)) = count
  BY <1>2, <1>4, <1>5
<1>7. ASSUME NEW s, NEW k \in 1..n, queue[k] = s
      PROVE  \E i \in 1..Len(Batches(queue)) : Contains(Batches(queue)[i], s)
  <2> DEFINE i == ((k - 1) \div BatchSize) + 1
  <2>1. i \in 1..count /\ from(i) <= k /\ k <= i * BatchSize
    BY <1>1, BatchOf DEF count, from
  <2> HIDE DEF i
  <2>2. k <= last(i)
    BY <2>1 DEF last
  <2>3. from(i) \in Nat \ {0} /\ last(i) \in Nat
    BY <1>3, <2>1
  <2> DEFINE j == k - from(i) + 1
  <2>4. /\ j \in 1..last(i) - from(i) + 1 /\ from(i) <= last(i)
        /\ from(i) + j - 1 = k
    BY <2>1, <2>2, <2>3
  <2> HIDE DEF j
  <2>5. /\ Batches(queue)[i] = SubSeq(queue, from(i), last(i))
        /\ j \in 1..Len(Batches(queue)[i]) /\ Batches(queue)[i][j] = s
    BY <1>4, <1>5, <1>7, <2>1, <2>4
  <2> QED BY <1>6, <2>1, <2>5 DEF Contains
<1> QED BY <1>6, <1>7 DEF Contains

(* Messages that carry the server's revisions may follow those under way.  *)
LEMMA ExtendStream ==
  ASSUME QueueTyped, Ordered, NEW t \in Seq(Messages), toClient' = toClient \o t,
         \A i \in 1..Len(t) : t[i].revision = revision[t[i].serial],
         UNCHANGED <<m_Map, revision>>,
         \A s \in Serials : UpTo(announced'[s], revision[s])
  PROVE  /\ toClient' \in Seq(Messages) /\ Ordered'
         /\ \A s, n : Arriving(s, n) => Arriving(s, n)'
         /\ \A i \in 1..Len(t) :
              \A n \in Nat : n <= t[i].revision => Arriving(t[i].serial, n)'
<1>1. toClient \in Seq(Messages) /\ m_Map \in [Serials -> Known] /\ revision \in [Serials -> Nat]
  BY DEF QueueTyped
<1>2. /\ toClient' \in Seq(Messages) /\ Len(toClient') = Len(toClient) + Len(t)
      /\ \A i \in 1..Len(toClient) + Len(t) :
           toClient'[i] = IF i <= Len(toClient) THEN toClient[i] ELSE t[i - Len(toClient)]
  BY <1>1, ConcatProperties
<1>3. Len(toClient) \in Nat /\ Len(t) \in Nat
  BY <1>1
<1>4. ASSUME NEW i \in 1..Len(toClient')
      PROVE  \/ i \in 1..Len(toClient) /\ toClient'[i] = toClient[i]
             \/ /\ i - Len(toClient) \in 1..Len(t) /\ i > Len(toClient)
                /\ toClient'[i] = t[i - Len(toClient)]
                /\ toClient'[i].revision = revision[toClient'[i].serial]
  <2>1. CASE i <= Len(toClient)
    BY <1>2, <1>3, <2>1
  <2>2. CASE i > Len(toClient)
    <3>1. i - Len(toClient) \in 1..Len(t)
      BY <1>2, <1>3, <2>2
    <3> QED BY <1>2, <1>3, <2>2, <3>1
  <2> QED BY <1>3, <2>1, <2>2
<1>5. ASSUME NEW i \in 1..Len(toClient')
      PROVE  /\ toClient'[i].serial \in Serials /\ toClient'[i].revision \in Nat
             /\ UpTo(m_Map[toClient'[i].serial], toClient'[i].revision)
             /\ toClient'[i].revision <= revision[toClient'[i].serial]
  <2>1. toClient'[i] \in Messages
    BY <1>2
  <2>2. toClient'[i].serial \in Serials /\ toClient'[i].revision \in Nat
    BY <2>1 DEF Messages
  <2>3. CASE i \in 1..Len(toClient) /\ toClient'[i] = toClient[i]
    BY <2>2, <2>3 DEF Ordered
  <2>4. CASE toClient'[i].revision = revision[toClient'[i].serial]
    BY <2>2, <2>4 DEF Ordered
  <2> QED BY <1>4, <2>2, <2>3, <2>4
<1>6. ASSUME NEW i \in 1..Len(toClient'), NEW j \in 1..Len(toClient'), i < j,
             toClient'[i].serial = toClient'[j].serial
      PROVE  toClient'[i].revision <= toClient'[j].revision
  <2>1. CASE j \in 1..Len(toClient) /\ toClient'[j] = toClient[j]
    <3>1. i \in 1..Len(toClient) /\ toClient'[i] = toClient[i]
      BY <1>2, <1>3, <1>6, <2>1
    <3> QED BY <1>6, <2>1, <3>1 DEF Ordered
  <2>2. CASE toClient'[j].revision = revision[toClient'[j].serial]
    BY <1>5, <1>6, <2>2
  <2> QED BY <1>4, <2>1, <2>2
<1>7. Ordered'
  BY <1>5, <1>6 DEF Ordered, UpTo
<1>8. ASSUME NEW s, NEW n, Arriving(s, n) PROVE Arriving(s, n)'
  <2>1. PICK i \in 1..Len(toClient) : toClient[i].serial = s /\ toClient[i].revision >= n
    BY <1>8 DEF Arriving
  <2>2. i \in 1..Len(toClient') /\ toClient'[i] = toClient[i]
    BY <1>2, <1>3
  <2> QED BY <2>1, <2>2 DEF Arriving
<1>9. ASSUME NEW i \in 1..Len(t), NEW n \in Nat, n <= t[i].revision
      PROVE  Arriving(t[i].serial, n)'
  <2>1. i + Len(toClient) \in 1..Len(toClient') /\ toClient'[i + Len(toClient)] = t[i]
    BY <1>2, <1>3
  <2>2. t[i].revision \in Nat
    <3>1. t[i] \in Messages
      OBVIOUS
    <3> QED BY <3>1 DEF Messages
  <2> QED BY <1>9, <2>1, <2>2 DEF Arriving
<1> QED BY <1>2, <1>7, <1>8, <1>9

(* The first message is read, its list is kept or it is forgotten.         *)
LEMMA ReadStream ==
  ASSUME QueueTyped, Ordered, toClient # <<>>, toClient' = Tail(toClient),
         UNCHANGED <<revision, announced>>,
         \/ UNCHANGED m_Map
         \/ m_Map' = [m_Map EXCEPT ![Head(toClient).serial] = Head(toClient).revision]
  PROVE  /\ toClient' \in Seq(Messages) /\ m_Map' \in [Serials -> Known] /\ Ordered'
         /\ Head(toClient) \in Messages
         /\ UpTo(m_Map[Head(toClient).serial], Head(toClient).revision)
         /\ \A s, n : Arriving(s, n) =>
              \/ Arriving(s, n)'
              \/ Head(toClient).serial = s /\ Head(toClient).revision >= n
<1> DEFINE m == Head(toClient)
<1>1. /\ toClient \in Seq(Messages) /\ m_Map \in [Serials -> Known]
      /\ revision \in [Serials -> Nat]
  BY DEF QueueTyped
<1>2. /\ toClient' \in Seq(Messages) /\ m \in Messages /\ m = toClient[1]
      /\ Len(toClient) \in Nat \ {0} /\ Len(toClient') = Len(toClient) - 1
      /\ \A i \in 1..Len(toClient') : toClient'[i] = toClient[i + 1]
  BY <1>1, HeadTailProperties, EmptySeq
<1> HIDE DEF m
<1>3. m.serial \in Serials /\ m.revision \in Nat
  BY <1>2 DEF Messages
<1>4. m_Map' \in [Serials -> Known]
  BY <1>1, <1>3 DEF Known, m
<1>5. ASSUME NEW i \in 1..Len(toClient')
      PROVE  i + 1 \in 1..Len(toClient) /\ toClient'[i] = toClient[i + 1] /\ 1 < i + 1
  BY <1>2
<1>6. UpTo(m_Map[m.serial], m.revision) /\ m.revision <= revision[m.serial]
  BY <1>2 DEF Ordered
<1>7. ASSUME NEW s \in Serials PROVE UpTo(m_Map'[s], revision[s])
  <2>1. CASE m_Map'[s] = m_Map[s]
    BY <2>1 DEF Ordered
  <2>2. CASE m_Map'[s] # m_Map[s]
    <3>1. s = m.serial /\ m_Map'[s] = m.revision
      BY <1>1, <1>3, <2>2 DEF m
    <3> QED BY <1>6, <3>1 DEF UpTo
  <2> QED BY <2>1, <2>2
<1>8. ASSUME NEW i \in 1..Len(toClient')
      PROVE  UpTo(m_Map'[toClient'[i].serial], toClient'[i].revision)
  <2> DEFINE s == toClient'[i].serial
  <2>1. CASE m_Map'[s] = m_Map[s]
    BY <1>5, <2>1 DEF Ordered
  <2>2. CASE m_Map'[s] # m_Map[s]
    <3>1. s \in Serials
      <4>1. toClient'[i] \in Messages
        BY <1>2
      <4> QED BY <4>1 DEF Messages
    <3>2. s = m.serial /\ m_Map'[s] = m.revision
      BY <1>1, <1>3, <2>2, <3>1 DEF m
    <3>3. m.revision <= toClient[i + 1].revision
      BY <1>2, <1>5, <3>2 DEF Ordered
    <3> QED BY <1>5, <3>2, <3>3 DEF UpTo
  <2> QED BY <2>1, <2>2
<1>9. Ordered'
  <2>1. \A i \in 1..Len(toClient') : toClient'[i].revision <= revision[toClient'[i].serial]
    BY <1>5 DEF Ordered
  <2>2. ASSUME NEW i \in 1..Len(toClient'), NEW j \in 1..Len(toClient'), i < j,
               toClient'[i].serial = toClient'[j].serial
        PROVE  toClient'[i].revision <= toClient'[j].revision
    BY <1>5, <2>2 DEF Ordered
  <2>3. \A s \in Serials : UpTo(announced'[s], revision'[s]) /\ UpTo(m_Map'[s], revision'[s])
    BY <1>7 DEF Ordered
  <2> QED BY <1>8, <2>1, <2>2, <2>3 DEF Ordered, UpTo
<1>10. ASSUME NEW s, NEW n, Arriving(s, n), ~(m.serial = s /\ m.revision >= n)
       PROVE  Arriving(s, n)'
  <2>1. PICK i \in 1..Len(toClient) : toClient[i].serial = s /\ toClient[i].revision >= n
    BY <1>10 DEF Arriving
  <2>2. i # 1
    BY <1>2, <1>10, <2>1
  <2>3. i - 1 \in 1..Len(toClient') /\ toClient'[i - 1] = toClient[i]
    BY <1>2, <2>2
  <2> QED BY <2>1, <2>3 DEF Arriving
<1> QED BY <1>2, <1>4, <1>6, <1>9, <1>10 DEF m

(* A serial added to the queue is in it once, as those that were there.    *)
LEMMA AddRequest ==
  ASSUME NEW s \in Serials, m_MegaClilocRequests \in Seq(Serials),
         IsInjective(m_MegaClilocRequests), AddMegaClilocRequest(s)
  PROVE  /\ m_MegaClilocRequests' \in Seq(Serials) /\ IsInjective(m_MegaClilocRequests')
         /\ Queued(s)' /\ \A u : Queued(u) => Queued(u)'
<1> DEFINE queue == m_MegaClilocRequests
<1>1. CASE Contains(queue, s)
  <2>1. queue' = queue
    BY <1>1 DEF AddMegaClilocRequest
  <2> QED BY <1>1, <2>1 DEF Queued, Contains
<1>2. CASE ~Contains(queue, s)
  <2>1. queue' = Append(queue, s)
    BY <1>2 DEF AddMegaClilocRequest
  <2>2. /\ queue' \in Seq(Serials) /\ Len(queue') = Len(queue) + 1
        /\ \A i \in 1..Len(queue) : queue'[i] = queue[i]
        /\ queue'[Len(queue) + 1] = s
    BY <2>1, AppendProperties
  <2>3. Len(queue) \in Nat /\ DOMAIN queue = 1..Len(queue) /\ DOMAIN queue' = 1..Len(queue')
    BY <2>2
  <2>4. \A i \in 1..Len(queue) : queue[i] # s
    BY <1>2 DEF Contains
  <2>5. IsInjective(queue')
    <3> SUFFICES ASSUME NEW i \in 1..Len(queue) + 1, NEW j \in 1..Len(queue) + 1,
                        queue'[i] = queue'[j]
                 PROVE  i = j
      BY <2>2, <2>3 DEF IsInjective
    <3>1. i \in 1..Len(queue) \/ i = Len(queue) + 1
      BY <2>3
    <3>2. j \in 1..Len(queue) \/ j = Len(queue) + 1
      BY <2>3
    <3> QED BY <2>2, <2>3, <2>4, <3>1, <3>2 DEF IsInjective
  <2>6. Queued(s)' /\ \A u : Queued(u) => Queued(u)'
    <3>1. Len(queue) + 1 \in 1..Len(queue')
      BY <2>2, <2>3
    <3>2. \A i \in 1..Len(queue) : i \in 1..Len(queue')
      BY <2>2, <2>3
    <3> QED BY <2>2, <3>1, <3>2 DEF Queued, Contains
  <2> QED BY <2>2, <2>5, <2>6
<1> QED BY <1>1, <1>2

-----------------------------------------------------------------------------
(* The inductive invariant: one lemma for each kind of step *)

LEMMA InitPInv == PropertyInit => PInv
<1> SUFFICES ASSUME PropertyInit PROVE PInv
  OBVIOUS
<1>1. /\ m_MegaClilocRequests = <<>> /\ toServer = <<>> /\ toClient = <<>>
      /\ Len(<<>>) = 0 /\ DOMAIN <<>> = {}
  BY DEF PropertyInit
<1>2. QueueTyped
  <2>1. <<>> \in Seq(Serials) /\ <<>> \in Seq(Seq(Serials)) /\ <<>> \in Seq(Messages)
    BY EmptySeq
  <2> QED BY <1>1, <2>1 DEF PropertyInit, QueueTyped, Known
<1>3. QueueKept
  BY <1>1 DEF QueueKept, IsInjective
<1>4. Ordered
  BY <1>1 DEF PropertyInit, Ordered, UpTo
<1>5. Offline /\ CarriesOn
  BY <1>1 DEF PropertyInit, Offline, CarriesOn
<1> QED BY <1>2, <1>3, <1>4, <1>5 DEF PInv

(* An announcement is dropped only if the client has the list, and is put  *)
(* in the queue otherwise.                                                 *)
LEMMA OPLInfoPInv ==
  ASSUME PInv, OPLInfo
  PROVE  PInv'
<1> USE DEF PInv
<1>0. PICK m : m = Head(toClient)
  OBVIOUS
<1>1. /\ receiving /\ toClient # <<>> /\ toClient' = Tail(toClient)
      /\ UNCHANGED <<revision, announced, toServer, connected, tooltips, receiving, m_Map>>
      /\ IF tooltips /\ m_Map[m.serial] # m.revision
         THEN AddMegaClilocRequest(m.serial) ELSE UNCHANGED m_MegaClilocRequests
  BY <1>0 DEF OPLInfo, Arrives, RevisionCheck, propertyServer
<1>2. /\ toClient' \in Seq(Messages) /\ Ordered' /\ m \in Messages
      /\ \A s, n : Arriving(s, n) =>
           Arriving(s, n)' \/ (m.serial = s /\ m.revision >= n)
  BY <1>0, <1>1, ReadStream
<1>3. m.serial \in Serials /\ m.revision \in Nat
  BY <1>2 DEF Messages
<1>4. /\ m_MegaClilocRequests' \in Seq(Serials) /\ IsInjective(m_MegaClilocRequests')
      /\ \A u : Queued(u) => Queued(u)'
      /\ tooltips /\ m_Map[m.serial] # m.revision => Queued(m.serial)'
  <2>1. CASE tooltips /\ m_Map[m.serial] # m.revision
    BY <1>1, <1>3, <2>1, AddRequest DEF QueueTyped, QueueKept
  <2>2. CASE ~(tooltips /\ m_Map[m.serial] # m.revision)
    BY <1>1, <2>2 DEF QueueTyped, QueueKept, Queued
  <2> QED BY <2>1, <2>2
<1>5. QueueTyped'
  BY <1>1, <1>2, <1>4 DEF QueueTyped
<1>6. QueueKept'
  BY <1>1, <1>4 DEF QueueKept
<1>7. Offline'
  BY <1>1 DEF Offline
<1>8. CarriesOn'
  <2> SUFFICES ASSUME NEW s \in Serials, connected, tooltips, announced[s] # Unknown
               PROVE  \/ Has(s, announced[s])' \/ Arriving(s, announced[s])'
                      \/ Asked(s)' \/ Queued(s)'
    BY <1>1 DEF CarriesOn
  <2>1. \A n : Has(s, n) => Has(s, n)'
    BY <1>1 DEF Has
  <2>2. Asked(s) => Asked(s)'
    BY <1>1 DEF Asked
  <2>3. PICK n : n = announced[s] /\ n = announced'[s]
    BY <1>1
  <2>4. Has(s, n)' \/ Arriving(s, n)' \/ Asked(s)' \/ Queued(s)'
    <3>1. CASE Arriving(s, n) /\ ~Arriving(s, n)'
      <4>1. m.serial = s /\ m.revision >= n
        BY <1>2, <3>1
      <4>2. m_Map[s] = m.revision => Has(s, n)'
        BY <1>1, <1>3, <4>1 DEF Has
      <4> QED BY <1>4, <4>1, <4>2
    <3>2. CASE Has(s, n) \/ Asked(s) \/ Queued(s)
      BY <1>4, <2>1, <2>2, <3>2
    <3> QED BY <2>3, <3>1, <3>2 DEF CarriesOn
  <2> QED BY <2>3, <2>4 DEF Has, Arriving
<1> QED BY <1>2, <1>5, <1>6, <1>7, <1>8

(* A list never replaces a newer one, and is what it is waited for.        *)
LEMMA MegaClilocPInv ==
  ASSUME PInv, MegaCliloc
  PROVE  PInv'
<1> USE DEF PInv
<1>0. PICK m : m = Head(toClient)
  OBVIOUS
<1>1. /\ toClient # <<>> /\ toClient' = Tail(toClient)
      /\ UNCHANGED <<revision, announced, toServer, connected, tooltips, receiving,
                     m_MegaClilocRequests>>
      /\ m_Map' = [m_Map EXCEPT ![m.serial] = m.revision]
  BY <1>0 DEF MegaCliloc, Arrives, propertyServer
<1>2. /\ toClient' \in Seq(Messages) /\ Ordered' /\ m \in Messages
      /\ m_Map' \in [Serials -> Known]
      /\ UpTo(m_Map[m.serial], m.revision)
      /\ \A s, n : Arriving(s, n) =>
           Arriving(s, n)' \/ (m.serial = s /\ m.revision >= n)
  BY <1>0, <1>1, ReadStream
<1>3. m.serial \in Serials /\ m.revision \in Nat /\ m.revision # Unknown
  BY <1>2 DEF Messages
<1>4. QueueTyped' /\ QueueKept' /\ Offline'
  BY <1>1, <1>2 DEF QueueTyped, QueueKept, Offline
<1>5. CarriesOn'
  <2> SUFFICES ASSUME NEW s \in Serials, connected, tooltips, announced[s] # Unknown
               PROVE  \/ Has(s, announced[s])' \/ Arriving(s, announced[s])'
                      \/ Asked(s)' \/ Queued(s)'
    BY <1>1 DEF CarriesOn
  <2>1. PICK n \in Nat : n = announced[s] /\ n = announced'[s]
    BY <1>1 DEF QueueTyped, Known
  <2>2. CASE Asked(s) \/ Queued(s)
    BY <1>1, <2>2 DEF Asked, Queued
  <2>3. m_Map \in [Serials -> Known] /\ m_Map'[m.serial] = m.revision
        /\ (s # m.serial => m_Map'[s] = m_Map[s])
    BY <1>1, <1>3 DEF QueueTyped
  <2>4. CASE Has(s, n)
    <3>1. CASE s = m.serial
      <4>1. m_Map[s] <= m.revision /\ m_Map[s] \in Nat /\ m_Map[s] >= n
        BY <1>2, <2>3, <2>4, <3>1 DEF UpTo, Has, Known
      <4> QED BY <1>3, <2>1, <2>3, <3>1, <4>1 DEF Has
    <3>2. CASE s # m.serial
      BY <2>1, <2>3, <2>4, <3>2 DEF Has
    <3> QED BY <3>1, <3>2
  <2>5. CASE Arriving(s, n)
    <3>1. CASE Arriving(s, n)'
      BY <2>1, <3>1 DEF Arriving
    <3>2. CASE m.serial = s /\ m.revision >= n
      BY <1>3, <2>1, <2>3, <3>2 DEF Has
    <3> QED BY <1>2, <2>5, <3>1, <3>2
  <2> QED BY <2>1, <2>2, <2>4, <2>5 DEF CarriesOn
<1> QED BY <1>2, <1>4, <1>5

(* The requests leave in batches, all of them.                             *)
LEMMA SendRequestsPInv ==
  ASSUME PInv, SendMegaClilocRequests
  PROVE  PInv'
<1> USE DEF PInv
<1> DEFINE queue == m_MegaClilocRequests
           batches == Batches(queue)
<1>1. /\ receiving' = FALSE
      /\ UNCHANGED <<m_Map, tooltips, revision, announced, toClient, connected>>
      /\ IF tooltips
         THEN /\ queue' = <<>>
              /\ toServer' = IF connected THEN toServer \o batches ELSE toServer
         ELSE UNCHANGED <<queue, toServer>>
  BY DEF SendMegaClilocRequests, propertyServer
<1>2. /\ queue \in Seq(Serials) /\ toServer \in Seq(Seq(Serials))
      /\ batches \in Seq(Seq(Serials))
      /\ \A s : Contains(queue, s) => \E i \in 1..Len(batches) : Contains(batches[i], s)
  BY BatchesHold DEF QueueTyped
<1> HIDE DEF batches
<1>3. /\ toServer \o batches \in Seq(Seq(Serials))
      /\ Len(toServer \o batches) = Len(toServer) + Len(batches)
      /\ \A i \in 1..Len(toServer) + Len(batches) :
           (toServer \o batches)[i] =
              IF i <= Len(toServer) THEN toServer[i] ELSE batches[i - Len(toServer)]
  BY <1>2, ConcatProperties
<1>4. Len(toServer) \in Nat /\ Len(batches) \in Nat
  BY <1>2
<1>5. queue' = <<>>
  BY <1>1 DEF QueueKept
<1>6. QueueTyped'
  <2>1. <<>> \in Seq(Serials)
    BY EmptySeq
  <2> QED BY <1>1, <1>3, <1>5, <2>1 DEF QueueTyped
<1>7. QueueKept'
  <2>1. DOMAIN <<>> = {}
    OBVIOUS
  <2> QED BY <1>5, <2>1 DEF QueueKept, IsInjective
<1>8. Ordered' /\ Offline'
  BY <1>1 DEF Ordered, UpTo, Offline
<1>9. CarriesOn'
  <2> SUFFICES ASSUME NEW s \in Serials, connected, tooltips, announced[s] # Unknown
               PROVE  Has(s, announced[s])' \/ Arriving(s, announced[s])' \/ Asked(s)'
    BY <1>1 DEF CarriesOn
  <2>1. toServer' = toServer \o batches
    BY <1>1
  <2>2. ASSUME Asked(s) PROVE Asked(s)'
    <3>1. PICK i \in 1..Len(toServer) : Contains(toServer[i], s)
      BY <2>2 DEF Asked
    <3>2. i \in 1..Len(toServer') /\ toServer'[i] = toServer[i]
      BY <1>3, <1>4, <2>1
    <3>3. Contains(toServer'[i], s)
      BY <3>1, <3>2
    <3> QED BY <3>2, <3>3 DEF Asked, Contains
  <2>3. ASSUME Queued(s) PROVE Asked(s)'
    <3>1. PICK i \in 1..Len(batches) : Contains(batches[i], s)
      BY <1>2, <2>3 DEF Queued
    <3>2. i + Len(toServer) \in 1..Len(toServer') /\ toServer'[i + Len(toServer)] = batches[i]
      BY <1>3, <1>4, <2>1
    <3>3. Contains(toServer'[i + Len(toServer)], s)
      BY <3>1, <3>2
    <3> QED BY <3>2, <3>3 DEF Asked, Contains
  <2>4. CASE Has(s, announced[s]) \/ Arriving(s, announced[s])
    BY <1>1, <2>4 DEF Has, Arriving
  <2> QED BY <2>2, <2>3, <2>4 DEF CarriesOn
<1> QED BY <1>6, <1>7, <1>8, <1>9

(* What the server announces arrives with the revision announced.          *)
LEMMA AnnouncePInv ==
  ASSUME PInv, NEW s \in Serials, Announce(s)
  PROVE  PInv'
<1> USE DEF PInv
<1>1. /\ connected /\ announced' = [announced EXCEPT ![s] = revision[s]]
      /\ toClient' = Append(toClient, Info(s, revision[s]))
      /\ UNCHANGED <<m_MegaClilocRequests, m_Map, tooltips, receiving, revision, toServer,
                     connected>>
  BY DEF Announce, propertyClient
<1>2. PICK t : t = <<Info(s, revision[s])>>
  OBVIOUS
<1>3. /\ revision[s] \in Nat /\ toClient \in Seq(Messages)
      /\ announced \in [Serials -> Known] /\ m_Map \in [Serials -> Known]
  BY DEF QueueTyped
<1>4. Info(s, revision[s]) \in Messages
  BY <1>3 DEF Info, Messages
<1>5. /\ t \in Seq(Messages) /\ Len(t) = 1 /\ t[1] = Info(s, revision[s])
      /\ toClient' = toClient \o t
  BY <1>1, <1>2, <1>3, <1>4, AppendIsConcat
<1>6. t[1].serial = s /\ t[1].revision = revision[s]
  BY <1>5 DEF Info
<1>7. \A u \in Serials : UpTo(announced'[u], revision[u])
  BY <1>1, <1>3 DEF Ordered, UpTo
<1>8. /\ toClient' \in Seq(Messages) /\ Ordered'
      /\ \A u, n : Arriving(u, n) => Arriving(u, n)'
      /\ \A i \in 1..Len(t) :
           \A n \in Nat : n <= t[i].revision => Arriving(t[i].serial, n)'
  <2>1. \A i \in 1..Len(t) : t[i].revision = revision[t[i].serial]
    BY <1>5, <1>6
  <2> QED BY <1>1, <1>5, <1>7, <2>1, ExtendStream
<1>9. announced' \in [Serials -> Known] /\ announced'[s] = revision[s]
      /\ \A u \in Serials \ {s} : announced'[u] = announced[u]
  BY <1>1, <1>3 DEF Known
<1>10. QueueTyped' /\ QueueKept' /\ Offline'
  BY <1>1, <1>8, <1>9 DEF QueueTyped, QueueKept, Offline
<1>11. CarriesOn'
  <2> SUFFICES ASSUME NEW u \in Serials, tooltips, announced'[u] # Unknown
               PROVE  \/ Has(u, announced[u])' \/ Arriving(u, announced[u])'
                      \/ Asked(u)' \/ Queued(u)'
    BY <1>1 DEF CarriesOn
  <2>1. PICK n : n = announced'[u]
    OBVIOUS
  <2>2. CASE u = s
    <3>1. Arriving(u, n)'
      BY <1>3, <1>5, <1>6, <1>8, <1>9, <2>1, <2>2
    <3> QED BY <2>1, <3>1 DEF Arriving
  <2>3. CASE u # s
    <3>1. announced[u] = n
      BY <1>9, <2>1, <2>3
    <3>2. CASE Arriving(u, n)
      BY <1>8, <2>1, <3>2 DEF Arriving
    <3>3. CASE Has(u, n) \/ Asked(u) \/ Queued(u)
      BY <1>1, <2>1, <3>3 DEF Has, Asked, Queued
    <3> QED BY <1>1, <2>1, <3>1, <3>2, <3>3 DEF CarriesOn
  <2> QED BY <2>2, <2>3
<1> QED BY <1>8, <1>10, <1>11

(* An answer carries revisions that are not older than those announced.    *)
LEMMA AnswerRequestPInv ==
  ASSUME PInv, AnswerRequest
  PROVE  PInv'
<1> USE DEF PInv
<1>1. PICK batch : batch = Head(toServer)
  OBVIOUS
<1>2. PICK t : t = [i \in 1..Len(batch) |-> List(batch[i], revision[batch[i]])]
  OBVIOUS
<1>3. /\ toServer # <<>> /\ toServer' = Tail(toServer) /\ toClient' = toClient \o t
      /\ UNCHANGED <<m_MegaClilocRequests, m_Map, tooltips, receiving, revision, announced,
                     connected>>
  BY <1>1, <1>2 DEF AnswerRequest, propertyClient, propertyServer
<1>4. /\ toServer \in Seq(Seq(Serials)) /\ revision \in [Serials -> Nat]
      /\ announced \in [Serials -> Known]
  BY DEF QueueTyped
<1>5. /\ batch \in Seq(Serials) /\ batch = toServer[1]
      /\ toServer' \in Seq(Seq(Serials)) /\ Len(toServer) \in Nat \ {0}
      /\ Len(toServer') = Len(toServer) - 1
      /\ \A i \in 1..Len(toServer') : toServer'[i] = toServer[i + 1]
  BY <1>1, <1>3, <1>4, HeadTailProperties, EmptySeq
<1>6. Len(batch) \in Nat /\ \A i \in 1..Len(batch) : batch[i] \in Serials
  BY <1>5
<1>7. ASSUME NEW i \in 1..Len(batch)
      PROVE  /\ t[i] \in Messages /\ t[i].serial = batch[i]
             /\ t[i].revision = revision[batch[i]]
  BY <1>2, <1>4, <1>6 DEF List, Messages
<1>8. t \in Seq(Messages) /\ Len(t) = Len(batch)
  BY <1>2, <1>6, <1>7
<1>9. /\ toClient' \in Seq(Messages) /\ Ordered'
      /\ \A s, n : Arriving(s, n) => Arriving(s, n)'
      /\ \A i \in 1..Len(t) :
           \A n \in Nat : n <= t[i].revision => Arriving(t[i].serial, n)'
  <2>1. \A i \in 1..Len(t) : t[i].revision = revision[t[i].serial]
    BY <1>7, <1>8
  <2>2. \A s \in Serials : UpTo(announced'[s], revision[s])
    BY <1>3 DEF Ordered
  <2> QED BY <1>3, <1>8, <2>1, <2>2, ExtendStream
<1>10. QueueTyped' /\ QueueKept'
  BY <1>3, <1>5, <1>9 DEF QueueTyped, QueueKept
<1>11. Offline'
  BY <1>3 DEF Offline
<1>12. CarriesOn'
  <2> SUFFICES ASSUME NEW s \in Serials, connected, tooltips, announced[s] # Unknown
               PROVE  \/ Has(s, announced[s])' \/ Arriving(s, announced[s])'
                      \/ Asked(s)' \/ Queued(s)'
    BY <1>3 DEF CarriesOn
  <2>1. PICK n \in Nat : n = announced[s] /\ n = announced'[s]
    BY <1>3, <1>4 DEF Known
  <2>2. CASE Has(s, n) \/ Queued(s)
    BY <1>3, <2>1, <2>2 DEF Has, Queued
  <2>3. CASE Arriving(s, n)
    <3>1. Arriving(s, n)'
      BY <1>9, <2>3
    <3>2. \E i \in 1..Len(toClient') : toClient'[i].serial = s /\ toClient'[i].revision >= n
      BY <3>1 DEF Arriving
    <3>3. Arriving(s, announced[s])'
      BY <2>1, <3>2 DEF Arriving
    <3> QED BY <3>3
  <2>4. CASE Asked(s)
    <3>1. PICK i \in 1..Len(toServer) : Contains(toServer[i], s)
      BY <2>4 DEF Asked
    <3>2. CASE i = 1
      <4>1. PICK k \in 1..Len(batch) : batch[k] = s
        BY <1>5, <3>1, <3>2 DEF Contains
      <4>2. k \in 1..Len(t) /\ t[k].serial = s /\ t[k].revision = revision[s]
        BY <1>7, <1>8, <4>1
      <4>3. n <= revision[s]
        BY <2>1 DEF Ordered, UpTo
      <4>4. Arriving(s, n)'
        BY <1>9, <4>2, <4>3
      <4> QED BY <2>1, <4>4 DEF Arriving
    <3>3. CASE i # 1
      <4>1. i - 1 \in 1..Len(toServer') /\ toServer'[i - 1] = toServer[i]
        BY <1>5, <3>3
      <4>2. Contains(toServer'[i - 1], s)
        BY <3>1, <4>1
      <4> QED BY <4>1, <4>2 DEF Asked, Contains
    <3> QED BY <3>2, <3>3
  <2> QED BY <2>1, <2>2, <2>3, <2>4 DEF CarriesOn
<1> QED BY <1>9, <1>10, <1>11, <1>12

(* The connection ends and begins with nothing announced; the queue        *)
(* outlives it, but not the frame, so tooltips change on an empty queue.   *)
LEMMA ConnectionPInv ==
  ASSUME PInv, Disconnect \/ Login
  PROVE  PInv'
<1> USE DEF PInv
<1>1. <<>> \in Seq(Messages) /\ <<>> \in Seq(Seq(Serials)) /\ Len(<<>>) = 0
  BY EmptySeq
<1>2. CASE Disconnect
  <2>1. /\ connected' = FALSE /\ toServer' = <<>> /\ toClient' = <<>>
        /\ announced' = [s \in Serials |-> Unknown]
        /\ UNCHANGED <<m_MegaClilocRequests, m_Map, tooltips, receiving, revision>>
    BY <1>2 DEF Disconnect
  <2>2. QueueTyped' /\ QueueKept'
    BY <1>1, <2>1 DEF QueueTyped, Known, QueueKept
  <2>3. Ordered'
    BY <1>1, <2>1 DEF Ordered, UpTo
  <2>4. Offline' /\ CarriesOn'
    BY <2>1 DEF Offline, CarriesOn
  <2> QED BY <2>2, <2>3, <2>4
<1>3. CASE Login
  <2>1. /\ ~connected /\ ~receiving /\ connected' = TRUE /\ tooltips' \in BOOLEAN
        /\ UNCHANGED <<m_MegaClilocRequests, m_Map, receiving, revision, announced,
                       toServer, toClient>>
    BY <1>3 DEF Login, propertyServer
  <2>2. QueueTyped' /\ QueueKept'
    BY <2>1 DEF QueueTyped, QueueKept
  <2>3. Ordered'
    BY <2>1 DEF Ordered, UpTo
  <2>4. Offline' /\ CarriesOn'
    BY <2>1 DEF Offline, CarriesOn
  <2> QED BY <2>2, <2>3, <2>4
<1> QED BY <1>2, <1>3

LEMMA ChangePInv ==
  ASSUME PInv, NEW s \in Serials, Change(s)
  PROVE  PInv'
<1> USE DEF PInv
<1>1. /\ revision' = [revision EXCEPT ![s] = @ + 1]
      /\ UNCHANGED <<m_MegaClilocRequests, m_Map, tooltips, receiving, announced, toServer,
                     toClient, connected>>
  BY DEF Change, propertyClient
<1>2. /\ revision \in [Serials -> Nat] /\ revision' \in [Serials -> Nat]
      /\ \A u \in Serials : revision[u] \in Nat /\ revision[u] <= revision'[u]
  BY <1>1 DEF QueueTyped
<1>3. QueueTyped' /\ QueueKept' /\ Offline'
  BY <1>1, <1>2 DEF QueueTyped, QueueKept, Offline
<1>4. Ordered'
  <2>1. ASSUME NEW u \in Serials
        PROVE  UpTo(m_Map[u], revision'[u]) /\ UpTo(announced[u], revision'[u])
    <3>1. m_Map[u] \in Known /\ announced[u] \in Known
      BY DEF QueueTyped
    <3> QED BY <1>2, <3>1 DEF Ordered, UpTo, Known
  <2>2. ASSUME NEW i \in 1..Len(toClient)
        PROVE  toClient[i].revision <= revision'[toClient[i].serial]
    <3>1. toClient[i] \in Messages
      BY DEF QueueTyped
    <3>2. toClient[i].serial \in Serials /\ toClient[i].revision \in Nat
      BY <3>1 DEF Messages
    <3> QED BY <1>2, <3>2 DEF Ordered
  <2> QED BY <1>1, <2>1, <2>2 DEF Ordered, UpTo
<1>5. CarriesOn'
  BY <1>1 DEF CarriesOn, Has, Arriving, Asked, Queued
<1> QED BY <1>3, <1>4, <1>5

LEMMA NextPInv ==
  ASSUME PInv, [PropertyNext]_propertyVars
  PROVE  PInv'
<1>1. CASE BeginFrame \/ UNCHANGED propertyVars
  <2>1. /\ UNCHANGED <<m_MegaClilocRequests, m_Map, tooltips, revision, announced, toServer,
                       toClient, connected>>
        /\ receiving' = TRUE \/ receiving' = receiving
    BY <1>1 DEF BeginFrame, propertyVars, propertyClient, propertyServer
  <2>2. QueueTyped' /\ QueueKept' /\ Offline'
    BY <2>1 DEF PInv, QueueTyped, QueueKept, Offline
  <2>3. Ordered'
    BY <2>1 DEF PInv, Ordered, UpTo
  <2>4. CarriesOn'
    BY <2>1 DEF PInv, CarriesOn, Has, Arriving, Asked, Queued
  <2> QED BY <2>2, <2>3, <2>4 DEF PInv
<1>2. CASE OPLInfo
  BY <1>2, OPLInfoPInv
<1>3. CASE MegaCliloc
  BY <1>3, MegaClilocPInv
<1>4. CASE SendMegaClilocRequests
  BY <1>4, SendRequestsPInv
<1>5. CASE Disconnect \/ Login
  BY <1>5, ConnectionPInv
<1>6. CASE \E s \in Serials : Announce(s) \/ Change(s)
  BY <1>6, AnnouncePInv, ChangePInv
<1>7. CASE AnswerRequest
  BY <1>7, AnswerRequestPInv
<1> QED BY <1>1, <1>2, <1>3, <1>4, <1>5, <1>6, <1>7 DEF PropertyNext

-----------------------------------------------------------------------------
(* If the client lacks what the server has announced, the announcement, a  *)
(* request or the answer is still on its way; no serial is queued twice,   *)
(* and nothing is queued between frames.                                   *)
THEOREM NoListForgotten == PropertySpec => []NothingForgotten
<1>1. PropertyInit => PInv
  BY InitPInv
<1>2. PInv /\ [PropertyNext]_propertyVars => PInv'
  BY NextPInv
<1>3. PInv => NothingForgotten
  <2> SUFFICES ASSUME PInv PROVE NothingForgotten
    OBVIOUS
  <2>1. ASSUME NEW s \in Serials, connected, tooltips, announced[s] # Unknown
        PROVE  Pending(s) \/ (m_Map[s] # Unknown /\ m_Map[s] >= announced[s])
    BY <2>1 DEF PInv, CarriesOn, Has, Arriving, Asked, Queued, Pending
  <2> QED BY <2>1 DEF PInv, QueueKept, NothingForgotten
<1> QED BY <1>1, <1>2, <1>3, PTL DEF PropertySpec

=============================================================================
