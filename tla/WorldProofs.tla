---------------------------- MODULE WorldProofs ----------------------------
(***************************************************************************)
(* Proofs about module World, for every set of characters and items and    *)
(* every heap large enough for them.                                       *)
(*                                                                         *)
(* A heap is Sound when its links, m_Map and the Containers agree and no   *)
(* list and no containment runs in a circle.  Each method of CGameWorld and*)
(* CGameObject is described by a relation between the heap before and the  *)
(* heap after, which says what became of every object that stays, and does *)
(* not mention links: Unlinked, Joined, Moved, Reordered, Pruned, Grown.   *)
(* The packet handlers are chains of methods, and only these relations are *)
(* needed to follow them.                                                  *)
(***************************************************************************)
EXTENDS World, FiniteSetTheorems, SequenceTheorems, WellFoundedInduction, TLAPS

USE SerialsAssumption, CellsAssumption

-----------------------------------------------------------------------------
(* What a sound heap is.                                                   *)

Alive(w) == {c \in Cells : w.obj[c].live}
Keepers(w) == Alive(w) \cup {Ground}

(* In no list: DenyMoveItem has left it on the ground. *)
Loose(w, c) == w.obj[c].prev = Null /\ w.first[Home(w, c)] # c

Buried(w) == \A c \in Cells \ Alive(w) : w.obj[c] = NoObject /\ w.first[c] = Null

Mapped(w) ==
  /\ \A c \in Alive(w) : /\ w.obj[c].serial \in Serials
                         /\ w.map[w.obj[c].serial] = c
  /\ \A s \in Serials : w.map[s] # Null => /\ w.map[s] \in Alive(w)
                                           /\ w.obj[w.map[s]].serial = s

Housed(w) == \A c \in Alive(w) : Home(w, c) \in Keepers(w)

FirstsSound(w) ==
  \A k \in Keepers(w) : w.first[k] # Null =>
    /\ w.first[k] \in Alive(w)
    /\ w.obj[w.first[k]].prev = Null
    /\ Home(w, w.first[k]) = k

NextsSound(w) ==
  \A c \in Alive(w) : w.obj[c].next # Null =>
    /\ w.obj[c].next \in Alive(w)
    /\ w.obj[w.obj[c].next].prev = c
    /\ w.obj[w.obj[c].next].cont = w.obj[c].cont

PrevsSound(w) ==
  \A c \in Alive(w) : w.obj[c].prev # Null =>
    /\ w.obj[c].prev \in Alive(w)
    /\ w.obj[w.obj[c].prev].next = c

LooseSound(w) ==
  \A c \in Alive(w) : Loose(w, c) => w.obj[c].next = Null /\ w.obj[c].cont = NoSerial

(* No list runs in a circle. *)
ListsEnd(w) ==
  \A S \in SUBSET Alive(w) : S # {} => \E c \in S : w.obj[c].prev \notin S

(* No object lies in itself. *)
HomesEnd(w) ==
  \A S \in SUBSET Alive(w) : S # {} => \E c \in S : Home(w, c) \notin S

Sound(w) ==
  /\ w \in Heaps
  /\ Buried(w)
  /\ Mapped(w)
  /\ Housed(w)
  /\ FirstsSound(w)
  /\ NextsSound(w)
  /\ PrevsSound(w)
  /\ LooseSound(w)
  /\ ListsEnd(w)
  /\ HomesEnd(w)

-----------------------------------------------------------------------------
(* The fields of a heap.                                                   *)

LEMMA HeapFields ==
  ASSUME NEW w \in Heaps
  PROVE  /\ \A c \in Cells : /\ w.obj[c].live \in BOOLEAN
                             /\ w.obj[c].serial \in Owners
                             /\ w.obj[c].cont \in Owners
                             /\ w.obj[c].next \in Pointers
                             /\ w.obj[c].prev \in Pointers
                             /\ w.obj[c].layer \in Layers
         /\ \A k \in Cells \cup {Ground} : w.first[k] \in Pointers
         /\ \A s \in Serials : w.map[s] \in Pointers
         /\ \A s : Find(w, s) \in Pointers
         /\ \A c \in Cells : Home(w, c) \in Pointers \cup {Ground}
BY DEF Heaps, Object, Find, Home, Pointers, Owners, NoSerial

-----------------------------------------------------------------------------
(* What the methods write, field by field.                                 *)

(* Only links and Containers are written. *)
Relinked(w, v) ==
  /\ v \in Heaps
  /\ v.map = w.map
  /\ \A x \in Cells : /\ v.obj[x].live = w.obj[x].live
                      /\ v.obj[x].serial = w.obj[x].serial
                      /\ v.obj[x].layer = w.obj[x].layer

SameConts(w, v) == \A x \in Cells : v.obj[x].cont = w.obj[x].cont

LEMMA WrittenPrev ==
  ASSUME NEW o \in Object, NEW q \in Pointers, NEW r, r = [o EXCEPT !.prev = q]
  PROVE  /\ r \in Object /\ r.prev = q
         /\ r.live = o.live /\ r.serial = o.serial /\ r.layer = o.layer
         /\ r.next = o.next /\ r.cont = o.cont
BY DEF Object

LEMMA WrittenNext ==
  ASSUME NEW o \in Object, NEW p \in Pointers, NEW r, r = [o EXCEPT !.next = p]
  PROVE  /\ r \in Object /\ r.next = p
         /\ r.live = o.live /\ r.serial = o.serial /\ r.layer = o.layer
         /\ r.prev = o.prev /\ r.cont = o.cont
BY DEF Object

LEMMA WrittenCont ==
  ASSUME NEW o \in Object, NEW k \in Owners, NEW r, r = [o EXCEPT !.cont = k]
  PROVE  /\ r \in Object /\ r.cont = k
         /\ r.live = o.live /\ r.serial = o.serial /\ r.layer = o.layer
         /\ r.prev = o.prev /\ r.next = o.next
BY DEF Object

PrevSet(obj, n, q) == IF n = Null THEN obj ELSE [obj EXCEPT ![n].prev = q]
NextSet(obj, p, n) == IF p = Null THEN obj ELSE [obj EXCEPT ![p].next = n]
ObjectSet(w, c, o) == [w EXCEPT !.obj = [w.obj EXCEPT ![c] = o]]

(* One object is replaced. *)
LEMMA ObjectWritten ==
  ASSUME NEW w \in Heaps, NEW c \in Cells, NEW o \in Object,
         NEW v, v = ObjectSet(w, c, o)
  PROVE  /\ v \in Heaps /\ v.map = w.map /\ v.first = w.first
         /\ \A x \in Cells : v.obj[x] = IF x = c THEN o ELSE w.obj[x]
<1>1. [w.obj EXCEPT ![c] = o] \in [Cells -> Object]
  BY DEF Heaps
<1> QED BY <1>1 DEF Heaps, ObjectSet

LEMMA DetachShape ==
  ASSUME NEW w \in Heaps, NEW c \in Cells, NEW v, v = Detach(w, c)
  PROVE  /\ Relinked(w, v)
         /\ v.first = w.first
         /\ \A x \in Cells :
              /\ v.obj[x].next = IF x = c THEN Null ELSE w.obj[x].next
              /\ v.obj[x].prev = IF x = c THEN Null ELSE w.obj[x].prev
              /\ v.obj[x].cont = IF x = c THEN NoSerial ELSE w.obj[x].cont
<1> DEFINE o == [w.obj[c] EXCEPT !.next = Null, !.prev = Null, !.cont = NoSerial]
<1>1. w.obj[c] \in Object /\ Null \in Pointers /\ NoSerial \in Owners
  BY DEF Heaps, Pointers, Owners, NoSerial
<1>2. o \in Object
  BY <1>1 DEF Object
<1>3. v = ObjectSet(w, c, o)
  BY DEF Detach, ObjectSet
<1>4. /\ o.live = w.obj[c].live /\ o.serial = w.obj[c].serial /\ o.layer = w.obj[c].layer
      /\ o.next = Null /\ o.prev = Null /\ o.cont = NoSerial
  BY <1>1 DEF Object
<1> HIDE DEF o
<1>5. /\ v \in Heaps /\ v.map = w.map /\ v.first = w.first
      /\ \A x \in Cells : v.obj[x] = IF x = c THEN o ELSE w.obj[x]
  BY <1>2, <1>3, ObjectWritten
<1> QED BY <1>4, <1>5 DEF Relinked

(* An object, or none where the address is Null, has its prev written. *)
LEMMA PrevWritten ==
  ASSUME NEW obj \in [Cells -> Object], NEW n \in Pointers, NEW q \in Pointers,
         NEW new, new = PrevSet(obj, n, q)
  PROVE  /\ new \in [Cells -> Object]
         /\ \A x \in Cells :
              /\ new[x].live = obj[x].live /\ new[x].serial = obj[x].serial
              /\ new[x].layer = obj[x].layer /\ new[x].cont = obj[x].cont
              /\ new[x].next = obj[x].next
              /\ new[x].prev = IF x = n THEN q ELSE obj[x].prev
<1>1. CASE n = Null
  BY <1>1 DEF PrevSet
<1>2. CASE n # Null
  <2> DEFINE r == [obj[n] EXCEPT !.prev = q]
  <2>1. n \in Cells /\ obj[n] \in Object
    BY <1>2 DEF Pointers
  <2>2. new = [obj EXCEPT ![n] = r]
    BY <1>2 DEF PrevSet
  <2>3. r \in Object /\ r.prev = q /\ r.next = obj[n].next /\ r.cont = obj[n].cont
        /\ r.live = obj[n].live /\ r.serial = obj[n].serial /\ r.layer = obj[n].layer
    BY <2>1, WrittenPrev
  <2> HIDE DEF r
  <2> QED BY <2>1, <2>2, <2>3
<1> QED BY <1>1, <1>2

LEMMA NextWritten ==
  ASSUME NEW obj \in [Cells -> Object], NEW p \in Pointers, NEW n \in Pointers,
         NEW new, new = NextSet(obj, p, n)
  PROVE  /\ new \in [Cells -> Object]
         /\ \A x \in Cells :
              /\ new[x].live = obj[x].live /\ new[x].serial = obj[x].serial
              /\ new[x].layer = obj[x].layer /\ new[x].cont = obj[x].cont
              /\ new[x].prev = obj[x].prev
              /\ new[x].next = IF x = p THEN n ELSE obj[x].next
<1>1. CASE p = Null
  BY <1>1 DEF NextSet
<1>2. CASE p # Null
  <2> DEFINE r == [obj[p] EXCEPT !.next = n]
  <2>1. p \in Cells /\ obj[p] \in Object
    BY <1>2 DEF Pointers
  <2>2. new = [obj EXCEPT ![p] = r]
    BY <1>2 DEF NextSet
  <2>3. r \in Object /\ r.next = n /\ r.prev = obj[p].prev /\ r.cont = obj[p].cont
        /\ r.live = obj[p].live /\ r.serial = obj[p].serial /\ r.layer = obj[p].layer
    BY <2>1, WrittenNext
  <2> HIDE DEF r
  <2> QED BY <2>1, <2>2, <2>3
<1> QED BY <1>1, <1>2

LEMMA PopShape ==
  ASSUME NEW w \in Heaps, NEW k \in Cells \cup {Ground}, NEW n \in Pointers,
         NEW v, v = PopFirst(w, k, n)
  PROVE  /\ Relinked(w, v)
         /\ SameConts(w, v)
         /\ \A j \in Cells \cup {Ground} : v.first[j] = IF j = k THEN n ELSE w.first[j]
         /\ \A x \in Cells :
              /\ v.obj[x].next = w.obj[x].next
              /\ v.obj[x].prev = IF x = n THEN Null ELSE w.obj[x].prev
<1> DEFINE f == [w.first EXCEPT ![k] = n]
           obj == IF n = Null THEN w.obj ELSE [w.obj EXCEPT ![n].prev = Null]
<1>0. w.obj \in [Cells -> Object] /\ Null \in Pointers
  BY DEF Heaps, Pointers
<1>1. f \in [Cells \cup {Ground} -> Pointers]
  BY DEF Heaps, Pointers
<1>2. \A j \in Cells \cup {Ground} : f[j] = IF j = k THEN n ELSE w.first[j]
  BY DEF Heaps
<1>3. v = [[w EXCEPT !.first = f] EXCEPT !.obj = obj]
  BY DEF PopFirst
<1>4. obj = PrevSet(w.obj, n, Null)
  BY DEF PrevSet
<1> HIDE DEF f, obj
<1>5. /\ obj \in [Cells -> Object]
      /\ \A x \in Cells :
           /\ obj[x].live = w.obj[x].live /\ obj[x].serial = w.obj[x].serial
           /\ obj[x].layer = w.obj[x].layer /\ obj[x].cont = w.obj[x].cont
           /\ obj[x].next = w.obj[x].next
           /\ obj[x].prev = IF x = n THEN Null ELSE w.obj[x].prev
  BY <1>0, <1>4, PrevWritten
<1>6. v \in Heaps /\ v.map = w.map /\ v.first = f /\ v.obj = obj
  BY <1>1, <1>3, <1>5 DEF Heaps
<1> QED BY <1>2, <1>5, <1>6 DEF Relinked, SameConts

LEMMA BypassShape ==
  ASSUME NEW w \in Heaps, NEW c \in Cells, NEW v, v = Bypass(w, c)
  PROVE  /\ Relinked(w, v)
         /\ SameConts(w, v)
         /\ v.first = w.first
         /\ \A x \in Cells :
              /\ v.obj[x].next = IF x = w.obj[c].prev THEN w.obj[c].next ELSE w.obj[x].next
              /\ v.obj[x].prev = IF x = w.obj[c].next THEN w.obj[c].prev ELSE w.obj[x].prev
<1> DEFINE n == w.obj[c].next
           p == w.obj[c].prev
           forward == IF p = Null THEN w.obj ELSE [w.obj EXCEPT ![p].next = n]
           obj == IF n = Null THEN forward ELSE [forward EXCEPT ![n].prev = p]
<1>1. n \in Pointers /\ p \in Pointers /\ w.obj \in [Cells -> Object]
  BY DEF Heaps, Object
<1>2. v = [w EXCEPT !.obj = obj]
  BY DEF Bypass
<1>3. forward = NextSet(w.obj, p, n)
  BY DEF NextSet
<1>4. obj = PrevSet(forward, n, p)
  BY DEF PrevSet
<1> HIDE DEF forward, obj
<1> SUFFICES /\ Relinked(w, v)
             /\ SameConts(w, v)
             /\ v.first = w.first
             /\ \A x \in Cells :
                  /\ v.obj[x].next = IF x = p THEN n ELSE w.obj[x].next
                  /\ v.obj[x].prev = IF x = n THEN p ELSE w.obj[x].prev
  OBVIOUS
<1> HIDE DEF n, p
<1>5. /\ forward \in [Cells -> Object]
      /\ \A x \in Cells :
           /\ forward[x].live = w.obj[x].live /\ forward[x].serial = w.obj[x].serial
           /\ forward[x].layer = w.obj[x].layer /\ forward[x].cont = w.obj[x].cont
           /\ forward[x].prev = w.obj[x].prev
           /\ forward[x].next = IF x = p THEN n ELSE w.obj[x].next
  BY <1>1, <1>3, NextWritten
<1>6. /\ obj \in [Cells -> Object]
      /\ \A x \in Cells :
           /\ obj[x].live = forward[x].live /\ obj[x].serial = forward[x].serial
           /\ obj[x].layer = forward[x].layer /\ obj[x].cont = forward[x].cont
           /\ obj[x].next = forward[x].next
           /\ obj[x].prev = IF x = n THEN p ELSE forward[x].prev
  BY <1>1, <1>4, <1>5, PrevWritten
<1>7. v \in Heaps /\ v.map = w.map /\ v.first = w.first /\ v.obj = obj
  BY <1>1, <1>2, <1>6 DEF Heaps
<1> QED BY <1>5, <1>6, <1>7 DEF Relinked, SameConts
LEMMA LinkShape ==
  ASSUME NEW w \in Heaps, NEW last \in Cells, NEW c \in Cells, last # c,
         NEW v, v = Link(w, last, c)
  PROVE  /\ Relinked(w, v)
         /\ SameConts(w, v)
         /\ v.first = w.first
         /\ \A x \in Cells :
              /\ v.obj[x].next = IF x = c THEN Null ELSE IF x = last THEN c ELSE w.obj[x].next
              /\ v.obj[x].prev = IF x = c THEN last ELSE w.obj[x].prev
<1> DEFINE q == [w.obj[last] EXCEPT !.next = c]
           u == ObjectSet(w, last, q)
           o == [w.obj[c] EXCEPT !.prev = last, !.next = Null]
<1>1. /\ w.obj[last] \in Object /\ w.obj[c] \in Object
      /\ Null \in Pointers /\ last \in Pointers /\ c \in Pointers
  BY DEF Heaps, Pointers
<1>2. /\ q \in Object /\ q.next = c /\ q.prev = w.obj[last].prev /\ q.cont = w.obj[last].cont
      /\ q.live = w.obj[last].live /\ q.serial = w.obj[last].serial
      /\ q.layer = w.obj[last].layer
  BY <1>1, WrittenNext
<1>3. /\ o \in Object /\ o.next = Null /\ o.prev = last /\ o.cont = w.obj[c].cont
      /\ o.live = w.obj[c].live /\ o.serial = w.obj[c].serial /\ o.layer = w.obj[c].layer
  BY <1>1 DEF Object
<1>4. v = ObjectSet(u, c, o)
  <2>1. w.obj \in [Cells -> Object] /\ w = [obj |-> w.obj, first |-> w.first, map |-> w.map]
    BY DEF Heaps
  <2> QED BY <2>1 DEF Link, ObjectSet
<1> HIDE DEF o, q
<1>5. /\ u \in Heaps /\ u.map = w.map /\ u.first = w.first
      /\ \A x \in Cells : u.obj[x] = IF x = last THEN q ELSE w.obj[x]
  BY <1>2, ObjectWritten
<1> HIDE DEF u
<1>6. /\ v \in Heaps /\ v.map = u.map /\ v.first = u.first
      /\ \A x \in Cells : v.obj[x] = IF x = c THEN o ELSE u.obj[x]
  BY <1>3, <1>4, <1>5, ObjectWritten
<1> QED BY <1>2, <1>3, <1>5, <1>6 DEF Relinked, SameConts

-----------------------------------------------------------------------------
(* RemoveFromContainer.                                                    *)

LEMMA HomeOfAlive ==
  ASSUME NEW w, Sound(w), NEW c \in Alive(w)
  PROVE  /\ Home(w, c) \in Keepers(w)
         /\ Home(w, c) # Null
         /\ Home(w, c) \in Cells \cup {Ground}
         /\ (Home(w, c) = Ground) <=> (w.obj[c].cont = NoSerial)
         /\ Home(w, c) # Ground => w.obj[Home(w, c)].serial = w.obj[c].cont
<1>1. c \in Cells /\ w.obj[c].cont \in Owners
  BY HeapFields DEF Sound, Alive
<1>2. Home(w, c) \in Keepers(w)
  BY DEF Sound, Housed
<1>3. Home(w, c) # Null /\ Home(w, c) \in Cells \cup {Ground}
  BY <1>2 DEF Keepers, Alive
<1>4. CASE w.obj[c].cont = NoSerial
  BY <1>2, <1>3, <1>4 DEF Home
<1>5. CASE w.obj[c].cont # NoSerial
  <2>1. w.obj[c].cont \in Serials /\ Home(w, c) = w.map[w.obj[c].cont]
    BY <1>1, <1>5 DEF Owners, NoSerial, Home, Find
  <2>2. Home(w, c) \in Alive(w) /\ w.obj[Home(w, c)].serial = w.obj[c].cont
    BY <1>3, <2>1 DEF Sound, Mapped
  <2> QED BY <1>2, <1>3, <1>5, <2>2 DEF Alive
<1> QED BY <1>2, <1>3, <1>4, <1>5

(* Who has a neighbour is in a list that has a first object. *)
LEMMA FirstExists ==
  ASSUME NEW w, Sound(w), NEW c \in Alive(w),
         w.obj[c].prev # Null \/ w.obj[c].next # Null
  PROVE  w.first[Home(w, c)] # Null
<1> DEFINE Near == {x \in Alive(w) : /\ w.obj[x].cont = w.obj[c].cont
                                     /\ w.obj[x].prev # Null \/ w.obj[x].next # Null}
<1>1. PICK x \in Near : w.obj[x].prev \notin Near
  BY DEF Sound, ListsEnd
<1>2. CASE w.obj[x].prev # Null
  <2>1. w.obj[x].prev \in Alive(w) /\ w.obj[w.obj[x].prev].next = x /\ x # Null
    BY <1>2 DEF Sound, PrevsSound, Alive
  <2>2. w.obj[w.obj[x].prev].cont = w.obj[c].cont
    BY <2>1 DEF Sound, NextsSound
  <2> QED BY <1>1, <2>1, <2>2
<1>3. CASE w.obj[x].prev = Null
  <2>1. w.obj[x].next # Null
    BY <1>3
  <2>2. w.first[Home(w, x)] = x
    BY <1>3, <2>1 DEF Sound, LooseSound, Loose
  <2>3. Home(w, x) = Home(w, c)
    BY DEF Home
  <2> QED BY <2>2, <2>3 DEF Alive
<1> QED BY <1>2, <1>3

(* c has been taken out of its list. *)
Unlinked(w, c, v) ==
  /\ Relinked(w, v)
  /\ \A k \in Cells \cup {Ground} :
       v.first[k] = IF w.first[k] = c THEN w.obj[c].next ELSE w.first[k]
  /\ \A x \in Cells :
       /\ v.obj[x].next = IF x = c THEN Null
                          ELSE IF w.obj[x].next = c THEN w.obj[c].next ELSE w.obj[x].next
       /\ v.obj[x].prev = IF x = c THEN Null
                          ELSE IF w.obj[x].prev = c THEN w.obj[c].prev ELSE w.obj[x].prev
       /\ v.obj[x].cont = IF x = c THEN NoSerial ELSE w.obj[x].cont

(* In a sound heap, the neighbours of c are those that name it. *)
LEMMA Neighbours ==
  ASSUME NEW w, Sound(w), NEW c \in Alive(w)
  PROVE  /\ \A x \in Cells : (w.obj[x].next = c) <=> (x = w.obj[c].prev)
         /\ \A x \in Cells : (w.obj[x].prev = c) <=> (x = w.obj[c].next)
         /\ \A k \in Cells \cup {Ground} : w.first[k] = c => k = Home(w, c)
<1>1. c \in Cells /\ c # Null
  BY DEF Alive
<1>2. \A x \in Cells : x \in Alive(w) \/ (w.obj[x].next = Null /\ w.obj[x].prev = Null /\ w.first[x] = Null)
  BY DEF Sound, Buried, NoObject
<1>3. \A x \in Cells : (w.obj[x].next = c) <=> (x = w.obj[c].prev)
  BY <1>1, <1>2 DEF Sound, NextsSound, PrevsSound, Alive
<1>4. \A x \in Cells : (w.obj[x].prev = c) <=> (x = w.obj[c].next)
  BY <1>1, <1>2 DEF Sound, NextsSound, PrevsSound, Alive
<1>5. \A k \in Cells \cup {Ground} : w.first[k] = c => k = Home(w, c)
  BY <1>1, <1>2 DEF Sound, FirstsSound, Keepers
<1> QED BY <1>3, <1>4, <1>5

LEMMA RemoveShape ==
  ASSUME NEW w, Sound(w), NEW c \in Alive(w), NEW v, v = RemoveFromContainer(w, c)
  PROVE  Unlinked(w, c, v)
<1> DEFINE k == Home(w, c)
           n == w.obj[c].next
           p == w.obj[c].prev
<1>1. /\ c \in Cells /\ c # Null /\ w \in Heaps /\ n \in Pointers /\ p \in Pointers
      /\ k \in Keepers(w) /\ k # Null /\ k \in Cells \cup {Ground}
  BY HomeOfAlive, HeapFields DEF Sound, Alive
<1>2. /\ \A x \in Cells : (w.obj[x].next = c) <=> (x = p)
      /\ \A x \in Cells : (w.obj[x].prev = c) <=> (x = n)
      /\ \A j \in Cells \cup {Ground} : w.first[j] = c => j = k
  BY Neighbours
<1>3. p # c /\ n # c
  <2>1. \E x \in {c} : w.obj[x].prev \notin {c}
    BY DEF Sound, ListsEnd
  <2> QED BY <1>1, <1>2, <2>1
<1>4. CASE w.first[k] = Null
  <2>1. p = Null /\ n = Null
    BY <1>4, FirstExists
  <2>2. v = Detach(w, c)
    BY <1>1, <1>4 DEF RemoveFromContainer
  <2> HIDE DEF k
  <2>3. /\ Relinked(w, v) /\ v.first = w.first
        /\ \A x \in Cells :
             /\ v.obj[x].next = IF x = c THEN Null ELSE w.obj[x].next
             /\ v.obj[x].prev = IF x = c THEN Null ELSE w.obj[x].prev
             /\ v.obj[x].cont = IF x = c THEN NoSerial ELSE w.obj[x].cont
    BY <1>1, <2>2, DetachShape
  <2>4. \A j \in Cells \cup {Ground} : w.first[j] # c
    BY <1>1, <1>2, <1>4
  <2> HIDE DEF n, p
  <2>5. \A x \in Cells : w.obj[x].next # c /\ w.obj[x].prev # c
    BY <1>1, <1>2, <2>1
  <2> QED BY <2>3, <2>4, <2>5 DEF Unlinked
<1>5. CASE w.first[k] = c
  <2>1. IsFirst(w, k, c)
    BY <1>5 DEF IsFirst
  <2>2. p = Null
    BY <1>1, <1>5 DEF Sound, FirstsSound
  <2> DEFINE u == PopFirst(w, k, n)
  <2>3. v = Detach(u, c)
    BY <1>1, <1>5, <2>1 DEF RemoveFromContainer
  <2> HIDE DEF k
  <2>4. /\ Relinked(w, u) /\ SameConts(w, u)
        /\ \A j \in Cells \cup {Ground} : u.first[j] = IF j = k THEN n ELSE w.first[j]
        /\ \A x \in Cells :
             /\ u.obj[x].next = w.obj[x].next
             /\ u.obj[x].prev = IF x = n THEN Null ELSE w.obj[x].prev
    BY <1>1, PopShape
  <2> HIDE DEF u
  <2>5. /\ Relinked(u, v) /\ v.first = u.first
        /\ \A x \in Cells :
             /\ v.obj[x].next = IF x = c THEN Null ELSE u.obj[x].next
             /\ v.obj[x].prev = IF x = c THEN Null ELSE u.obj[x].prev
             /\ v.obj[x].cont = IF x = c THEN NoSerial ELSE u.obj[x].cont
    <3>1. u \in Heaps
      BY <2>4 DEF Relinked
    <3> QED BY <1>1, <2>3, <3>1, DetachShape
  <2>6. Relinked(w, v)
    BY <2>4, <2>5 DEF Relinked
  <2>7. \A j \in Cells \cup {Ground} :
          v.first[j] = IF w.first[j] = c THEN n ELSE w.first[j]
    BY <1>2, <1>5, <2>4, <2>5
  <2>8. \A x \in Cells :
          /\ v.obj[x].next = IF x = c THEN Null ELSE IF w.obj[x].next = c THEN n ELSE w.obj[x].next
          /\ v.obj[x].prev = IF x = c THEN Null ELSE IF w.obj[x].prev = c THEN p ELSE w.obj[x].prev
          /\ v.obj[x].cont = IF x = c THEN NoSerial ELSE w.obj[x].cont
    <3> HIDE DEF n, p
    <3> QED BY <1>1, <1>2, <2>2, <2>4, <2>5 DEF SameConts
  <2> QED BY <2>6, <2>7, <2>8 DEF Unlinked
<1>6. CASE w.first[k] # Null /\ w.first[k] # c
  <2>1. ~IsFirst(w, k, c)
    BY <1>1, <1>6 DEF IsFirst, Sound, FirstsSound, Mapped
  <2> DEFINE u == Bypass(w, c)
  <2>2. v = Detach(u, c)
    BY <1>1, <1>6, <2>1 DEF RemoveFromContainer
  <2>3. /\ Relinked(w, u) /\ SameConts(w, u) /\ u.first = w.first
        /\ \A x \in Cells :
             /\ u.obj[x].next = IF x = p THEN n ELSE w.obj[x].next
             /\ u.obj[x].prev = IF x = n THEN p ELSE w.obj[x].prev
    BY <1>1, BypassShape
  <2> HIDE DEF u
  <2>4. /\ Relinked(u, v) /\ v.first = u.first
        /\ \A x \in Cells :
             /\ v.obj[x].next = IF x = c THEN Null ELSE u.obj[x].next
             /\ v.obj[x].prev = IF x = c THEN Null ELSE u.obj[x].prev
             /\ v.obj[x].cont = IF x = c THEN NoSerial ELSE u.obj[x].cont
    <3>1. u \in Heaps
      BY <2>3 DEF Relinked
    <3> QED BY <1>1, <2>2, <3>1, DetachShape
  <2>5. Relinked(w, v)
    BY <2>3, <2>4 DEF Relinked
  <2>6. \A j \in Cells \cup {Ground} :
          v.first[j] = IF w.first[j] = c THEN n ELSE w.first[j]
    BY <1>2, <1>6, <2>3, <2>4
  <2>7. \A x \in Cells :
          /\ v.obj[x].next = IF x = c THEN Null ELSE IF w.obj[x].next = c THEN n ELSE w.obj[x].next
          /\ v.obj[x].prev = IF x = c THEN Null ELSE IF w.obj[x].prev = c THEN p ELSE w.obj[x].prev
          /\ v.obj[x].cont = IF x = c THEN NoSerial ELSE w.obj[x].cont
    <3> HIDE DEF n, p
    <3> QED BY <1>1, <1>2, <2>3, <2>4 DEF SameConts
  <2> QED BY <2>5, <2>6, <2>7 DEF Unlinked
<1> QED BY <1>4, <1>5, <1>6

(* c is in no list, and on its own. *)
Free(w, c) ==
  /\ c \in Alive(w)
  /\ w.obj[c].next = Null /\ w.obj[c].prev = Null /\ w.obj[c].cont = NoSerial
  /\ \A k \in Cells \cup {Ground} : w.first[k] # c

LEMMA RelinkedAlive ==
  ASSUME NEW w, NEW v, Relinked(w, v)
  PROVE  /\ Alive(v) = Alive(w) /\ Keepers(v) = Keepers(w)
         /\ \A x \in Cells : v.obj[x].cont = w.obj[x].cont => Home(v, x) = Home(w, x)
         /\ \A s : Find(v, s) = Find(w, s)
BY DEF Relinked, Alive, Keepers, Home, Find

LEMMA NotOwnNeighbour ==
  ASSUME NEW w, Sound(w), NEW c \in Alive(w)
  PROVE  w.obj[c].next # c /\ w.obj[c].prev # c
<1>1. \E x \in {c} : w.obj[x].prev \notin {c}
  BY DEF Sound, ListsEnd
<1>2. c \in Cells /\ c # Null
  BY DEF Alive
<1> QED BY <1>1, <1>2, Neighbours

LEMMA UnlinkedLinks ==
  ASSUME NEW w, Sound(w), NEW c \in Alive(w), NEW v, Unlinked(w, c, v)
  PROVE  /\ Free(v, c)
         /\ Alive(v) = Alive(w)
         /\ Home(v, c) = Ground
         /\ \A x \in Alive(w) \ {c} : Home(v, x) = Home(w, x)
         /\ \A x \in Alive(w) \ {c} : Loose(v, x) <=> Loose(w, x)
<1>1. c \in Cells /\ c # Null /\ Relinked(w, v)
  BY DEF Alive, Unlinked
<1>2. Alive(v) = Alive(w)
  BY <1>1, RelinkedAlive
<1>3. Home(v, c) = Ground
  BY <1>1 DEF Home, Unlinked
<1>4. \A x \in Alive(w) \ {c} : x \in Cells /\ Home(v, x) = Home(w, x)
  BY <1>1, RelinkedAlive DEF Unlinked, Alive
<1>5. Free(v, c)
  BY <1>1, <1>2, NotOwnNeighbour DEF Free, Unlinked
<1>6. ASSUME NEW x \in Alive(w) \ {c}
      PROVE  Loose(v, x) <=> Loose(w, x)
  <2>1. x \in Cells /\ x # Null /\ Home(w, x) \in Cells \cup {Ground}
    BY HomeOfAlive DEF Alive
  <2>2. v.first[Home(w, x)] = IF w.first[Home(w, x)] = c THEN w.obj[c].next ELSE w.first[Home(w, x)]
    BY <2>1 DEF Unlinked
  <2>3. v.obj[x].prev = IF w.obj[x].prev = c THEN w.obj[c].prev ELSE w.obj[x].prev
    BY <2>1 DEF Unlinked
  <2>4. CASE w.obj[x].prev = c
    <3>1. x = w.obj[c].next /\ w.obj[x].cont = w.obj[c].cont
      BY <2>1, <2>4, Neighbours DEF Sound, NextsSound
    <3>2. Home(w, x) = Home(w, c)
      BY <3>1 DEF Home
    <3>3. CASE w.obj[c].prev # Null
      BY <1>1, <2>3, <2>4, <3>3 DEF Loose
    <3>4. CASE w.obj[c].prev = Null
      <4>1. w.first[Home(w, c)] = c
        BY <2>1, <3>1, <3>4 DEF Sound, LooseSound, Loose
      <4> QED BY <1>1, <1>4, <2>2, <2>4, <3>1, <3>2, <4>1 DEF Loose
    <3> QED BY <3>3, <3>4
  <2>5. CASE w.obj[x].prev # c
    <3>1. x # w.obj[c].next
      BY <2>1, <2>5, Neighbours
    <3> QED BY <1>4, <2>2, <2>3, <2>5, <3>1 DEF Loose
  <2> QED BY <2>4, <2>5
<1> QED BY <1>2, <1>3, <1>4, <1>5, <1>6

LEMMA UnlinkedSound ==
  ASSUME NEW w, Sound(w), NEW c \in Alive(w), NEW v, Unlinked(w, c, v)
  PROVE  Sound(v)
<1>1. c \in Cells /\ c # Null /\ Relinked(w, v) /\ w \in Heaps /\ v \in Heaps
  BY DEF Alive, Unlinked, Sound, Relinked
<1>2. /\ Free(v, c) /\ Alive(v) = Alive(w) /\ Keepers(v) = Keepers(w) /\ Home(v, c) = Ground
      /\ \A x \in Alive(w) \ {c} : Home(v, x) = Home(w, x)
      /\ \A x \in Alive(w) \ {c} : Loose(v, x) <=> Loose(w, x)
  BY <1>1, UnlinkedLinks, RelinkedAlive
<1>3. /\ \A x \in Cells : (w.obj[x].next = c) <=> (x = w.obj[c].prev)
      /\ \A x \in Cells : (w.obj[x].prev = c) <=> (x = w.obj[c].next)
      /\ \A k \in Cells \cup {Ground} : w.first[k] = c => k = Home(w, c)
      /\ w.obj[c].next # c /\ w.obj[c].prev # c
  BY Neighbours, NotOwnNeighbour
<1>4. \A x \in Alive(w) : x \in Cells /\ x # Null
  BY DEF Alive
<1>5. Buried(v)
  <2> SUFFICES ASSUME NEW x \in Cells \ Alive(w) PROVE v.obj[x] = NoObject /\ v.first[x] = Null
    BY <1>2 DEF Buried
  <2>1. w.obj[x] = NoObject /\ w.first[x] = Null /\ x # c
    BY DEF Sound, Buried
  <2>2. /\ v.obj[x].live = FALSE /\ v.obj[x].serial = NoSerial /\ v.obj[x].layer = "none"
        /\ v.obj[x].next = Null /\ v.obj[x].prev = Null /\ v.obj[x].cont = NoSerial
        /\ v.first[x] = Null
    BY <1>1, <2>1 DEF Unlinked, Relinked, NoObject
  <2>3. v.obj[x] \in Object
    BY <1>1 DEF Heaps
  <2> QED BY <2>2, <2>3 DEF Object, NoObject
<1>6. Mapped(v)
  BY <1>1, <1>2, <1>4 DEF Sound, Mapped, Relinked
<1>7. Housed(v)
  <2>1. Ground \in Keepers(v)
    BY DEF Keepers
  <2> QED BY <1>2, <2>1 DEF Sound, Housed
<1>8. FirstsSound(v)
  <2> SUFFICES ASSUME NEW k \in Keepers(w), v.first[k] # Null
               PROVE  /\ v.first[k] \in Alive(w) /\ v.obj[v.first[k]].prev = Null
                      /\ Home(v, v.first[k]) = k
    BY <1>2 DEF FirstsSound
  <2>1. k \in Cells \cup {Ground}
    BY DEF Keepers, Alive
  <2>2. CASE w.first[k] = c
    <3>1. v.first[k] = w.obj[c].next /\ k = Home(w, c) /\ w.obj[c].prev = Null
      BY <1>1, <1>3, <2>1, <2>2 DEF Unlinked, Sound, FirstsSound
    <3> DEFINE y == w.obj[c].next
    <3>2. y \in Alive(w) /\ w.obj[y].prev = c /\ w.obj[y].cont = w.obj[c].cont /\ y # c
      BY <1>3, <3>1 DEF Sound, NextsSound
    <3>3. v.obj[y].prev = Null
      BY <1>4, <3>1, <3>2 DEF Unlinked
    <3>4. Home(v, y) = k
      BY <1>2, <3>1, <3>2 DEF Home
    <3> QED BY <3>1, <3>2, <3>3, <3>4
  <2>3. CASE w.first[k] # c
    <3>1. v.first[k] = w.first[k]
      BY <2>1, <2>3 DEF Unlinked
    <3>2. w.first[k] \in Alive(w) /\ w.obj[w.first[k]].prev = Null /\ Home(w, w.first[k]) = k
      BY <3>1 DEF Sound, FirstsSound
    <3> QED BY <1>1, <1>2, <1>4, <2>3, <3>1, <3>2 DEF Unlinked
  <2> QED BY <2>2, <2>3
<1>9. NextsSound(v)
  <2> SUFFICES ASSUME NEW x \in Alive(w), v.obj[x].next # Null
               PROVE  /\ v.obj[x].next \in Alive(w)
                      /\ v.obj[v.obj[x].next].prev = x
                      /\ v.obj[v.obj[x].next].cont = v.obj[x].cont
    BY <1>2 DEF NextsSound
  <2>1. x # c /\ x \in Cells
    BY <1>2, <1>4 DEF Free
  <2>2. CASE w.obj[x].next = c
    <3> DEFINE y == w.obj[c].next
    <3>1. v.obj[x].next = y /\ y # c /\ x = w.obj[c].prev /\ w.obj[c].cont = w.obj[x].cont
      BY <1>1, <1>3, <2>1, <2>2 DEF Unlinked, Sound, NextsSound
    <3>2. y \in Alive(w) /\ w.obj[y].prev = c /\ w.obj[y].cont = w.obj[c].cont
      BY <3>1 DEF Sound, NextsSound
    <3>3. y \in Cells
      BY <1>4, <3>2
    <3>4. v.obj[y].prev = x /\ v.obj[y].cont = w.obj[y].cont /\ v.obj[x].cont = w.obj[x].cont
      BY <2>1, <3>1, <3>2, <3>3 DEF Unlinked
    <3> QED BY <3>1, <3>2, <3>4
  <2>3. CASE w.obj[x].next # c
    <3> DEFINE y == w.obj[x].next
    <3>1. v.obj[x].next = y
      BY <2>1, <2>3 DEF Unlinked
    <3>2. y \in Alive(w) /\ w.obj[y].prev = x /\ w.obj[y].cont = w.obj[x].cont /\ y \in Cells
      BY <1>4, <3>1 DEF Sound, NextsSound
    <3>3. v.obj[y].prev = x /\ v.obj[y].cont = w.obj[y].cont /\ v.obj[x].cont = w.obj[x].cont
      BY <2>1, <2>3, <3>2 DEF Unlinked
    <3> QED BY <3>1, <3>2, <3>3
  <2> QED BY <2>2, <2>3
<1>10. PrevsSound(v)
  <2> SUFFICES ASSUME NEW x \in Alive(w), v.obj[x].prev # Null
               PROVE  /\ v.obj[x].prev \in Alive(w)
                      /\ v.obj[v.obj[x].prev].next = x
    BY <1>2 DEF PrevsSound
  <2>1. x # c /\ x \in Cells
    BY <1>2, <1>4 DEF Free
  <2>2. CASE w.obj[x].prev = c
    <3> DEFINE y == w.obj[c].prev
    <3>1. v.obj[x].prev = y /\ y # c /\ x = w.obj[c].next
      BY <1>1, <1>3, <2>1, <2>2 DEF Unlinked
    <3>2. y \in Alive(w) /\ w.obj[y].next = c /\ y \in Cells
      BY <1>4, <3>1 DEF Sound, PrevsSound
    <3>3. v.obj[y].next = x
      BY <2>1, <3>1, <3>2 DEF Unlinked
    <3> QED BY <3>1, <3>2, <3>3
  <2>3. CASE w.obj[x].prev # c
    <3> DEFINE y == w.obj[x].prev
    <3>1. v.obj[x].prev = y
      BY <2>1, <2>3 DEF Unlinked
    <3>2. y \in Alive(w) /\ w.obj[y].next = x /\ y \in Cells
      BY <1>4, <3>1 DEF Sound, PrevsSound
    <3>3. v.obj[y].next = x
      BY <2>1, <2>3, <3>2 DEF Unlinked
    <3> QED BY <3>1, <3>2, <3>3
  <2> QED BY <2>2, <2>3
<1>11. LooseSound(v)
  <2> SUFFICES ASSUME NEW x \in Alive(w), Loose(v, x)
               PROVE  v.obj[x].next = Null /\ v.obj[x].cont = NoSerial
    BY <1>2 DEF LooseSound
  <2>1. CASE x = c
    BY <1>2, <2>1 DEF Free
  <2>2. CASE x # c
    <3>1. w.obj[x].next = Null /\ w.obj[x].cont = NoSerial /\ x \in Cells
      BY <1>2, <1>4, <2>2 DEF Sound, LooseSound
    <3> QED BY <1>1, <2>2, <3>1 DEF Unlinked
  <2> QED BY <2>1, <2>2
<1>12. ListsEnd(v)
  <2> SUFFICES ASSUME NEW S \in SUBSET Alive(w), S # {}
               PROVE  \E x \in S : v.obj[x].prev \notin S
    BY <1>2 DEF ListsEnd
  <2>1. CASE c \in S
    <3>1. v.obj[c].prev \notin S
      BY <1>2, <1>4 DEF Free
    <3> QED BY <2>1, <3>1
  <2>2. CASE c \notin S /\ \E y \in S : w.obj[y].prev = c
    <3>1. PICK y \in S : w.obj[y].prev = c
      BY <2>2
    <3>2. PICK x \in S \cup {c} : w.obj[x].prev \notin S \cup {c}
      <4>1. S \cup {c} \in SUBSET Alive(w) /\ S \cup {c} # {}
        OBVIOUS
      <4> QED BY <4>1 DEF Sound, ListsEnd
    <3>3. CASE x = c
      <4>1. v.obj[y].prev = w.obj[c].prev
        BY <1>4, <2>2, <3>1 DEF Unlinked
      <4> QED BY <3>1, <3>2, <3>3, <4>1
    <3>4. CASE x # c
      <4>1. v.obj[x].prev = w.obj[x].prev /\ x \in S
        BY <1>4, <3>2, <3>4 DEF Unlinked
      <4> QED BY <3>2, <4>1
    <3> QED BY <3>3, <3>4
  <2>3. CASE c \notin S /\ \A y \in S : w.obj[y].prev # c
    <3>1. PICK x \in S : w.obj[x].prev \notin S
      BY DEF Sound, ListsEnd
    <3>2. v.obj[x].prev = w.obj[x].prev
      BY <1>4, <2>3 DEF Unlinked
    <3> QED BY <3>1, <3>2
  <2> QED BY <2>1, <2>2, <2>3
<1>13. HomesEnd(v)
  <2> SUFFICES ASSUME NEW S \in SUBSET Alive(w), S # {}
               PROVE  \E x \in S : Home(v, x) \notin S
    BY <1>2 DEF HomesEnd
  <2>1. CASE c \in S
    <3>1. Ground \notin S
      BY <1>4
    <3> QED BY <1>2, <2>1, <3>1
  <2>2. CASE c \notin S
    <3>1. PICK x \in S : Home(w, x) \notin S
      BY DEF Sound, HomesEnd
    <3> QED BY <1>2, <2>2, <3>1
  <2> QED BY <2>1, <2>2
<1> QED BY <1>1, <1>5, <1>6, <1>7, <1>8, <1>9, <1>10, <1>11, <1>12, <1>13 DEF Sound

-----------------------------------------------------------------------------
(* An object that was in no list is put at the end of one.                 *)

(* D is closed: it holds what lies in its members. *)
Closed(w, D) == \A x \in Alive(w) : Home(w, x) \in D => x \in D

(* k does not lie in c. *)
Apart(w, c, k) == \E D \in SUBSET Cells : Closed(w, D) /\ c \in D /\ k \notin D

ContOf(w, k) == IF k = Ground THEN NoSerial ELSE w.obj[k].serial

(* l is the last of k's list, or Null where it is empty. *)
IsLast(w, k, l) ==
  IF w.first[k] = Null THEN l = Null
  ELSE /\ l \in Alive(w) /\ Home(w, l) = k
       /\ w.obj[l].next = Null /\ ~Loose(w, l)

Joined(w, c, k, l, v) ==
  /\ Relinked(w, v)
  /\ \A j \in Cells \cup {Ground} : v.first[j] = IF j = k /\ l = Null THEN c ELSE w.first[j]
  /\ \A x \in Cells :
       /\ v.obj[x].next = IF x = l THEN c ELSE w.obj[x].next
       /\ v.obj[x].prev = IF x = c THEN l ELSE w.obj[x].prev
       /\ v.obj[x].cont = IF x = c THEN ContOf(w, k) ELSE w.obj[x].cont

LEMMA JoinedLinks ==
  ASSUME NEW w, Sound(w), NEW c, Free(w, c), NEW k \in Keepers(w), NEW l, IsLast(w, k, l),
         NEW v, Joined(w, c, k, l, v)
  PROVE  /\ Alive(v) = Alive(w)
         /\ Home(v, c) = k
         /\ ~Loose(v, c)
         /\ \A x \in Alive(w) \ {c} : Home(v, x) = Home(w, x)
         /\ \A x \in Alive(w) \ {c} : Loose(v, x) <=> Loose(w, x)
<1>1. /\ c \in Alive(w) /\ c \in Cells /\ c # Null /\ Relinked(w, v) /\ Null \notin Cells
      /\ k \in Cells \cup {Ground}
  BY DEF Alive, Joined, Free, Keepers
<1>2. Alive(v) = Alive(w)
  BY <1>1, RelinkedAlive
<1>3. \A x \in Alive(w) \ {c} : x \in Cells /\ Home(v, x) = Home(w, x)
  BY <1>1, RelinkedAlive DEF Joined, Alive
<1>4. Home(v, c) = k
  <2>1. CASE k = Ground
    BY <1>1, <2>1 DEF Joined, ContOf, Home
  <2>2. CASE k # Ground
    <3>1. k \in Alive(w) /\ w.obj[k].serial \in Serials /\ w.map[w.obj[k].serial] = k
      BY <2>2 DEF Keepers, Sound, Mapped
    <3>2. v.obj[c].cont = w.obj[k].serial /\ v.map = w.map
      BY <1>1, <2>2 DEF Joined, ContOf, Relinked
    <3> QED BY <3>1, <3>2 DEF Home, Find, NoSerial
  <2> QED BY <2>1, <2>2
<1>5. l = Null => w.first[k] = Null
  BY <1>1 DEF IsLast, Alive
<1>6. ~Loose(v, c)
  <2>1. CASE l = Null
    BY <1>1, <1>4, <2>1 DEF Loose, Joined
  <2>2. CASE l # Null
    BY <1>1, <2>2 DEF Loose, Joined
  <2> QED BY <2>1, <2>2
<1>7. ASSUME NEW x \in Alive(w) \ {c}
      PROVE  Loose(v, x) <=> Loose(w, x)
  <2>1. x \in Cells /\ x # Null /\ Home(w, x) \in Cells \cup {Ground}
    BY HomeOfAlive DEF Alive
  <2>2. v.obj[x].prev = w.obj[x].prev
    BY <2>1 DEF Joined
  <2>3. v.first[Home(w, x)] = x <=> w.first[Home(w, x)] = x
    BY <1>1, <1>5, <2>1 DEF Joined
  <2> QED BY <1>3, <2>2, <2>3 DEF Loose
<1> QED BY <1>2, <1>3, <1>4, <1>6, <1>7

LEMMA JoinedSound ==
  ASSUME NEW w, Sound(w), NEW c, Free(w, c), NEW k \in Keepers(w), Apart(w, c, k),
         NEW l, IsLast(w, k, l), NEW v, Joined(w, c, k, l, v)
  PROVE  Sound(v)
<1>1. /\ c \in Alive(w) /\ c \in Cells /\ c # Null /\ Relinked(w, v)
      /\ w \in Heaps /\ v \in Heaps /\ k \in Cells \cup {Ground}
  BY DEF Alive, Joined, Free, Keepers, Sound, Relinked
<1>2. /\ Alive(v) = Alive(w) /\ Keepers(v) = Keepers(w) /\ Home(v, c) = k /\ ~Loose(v, c)
      /\ \A x \in Alive(w) \ {c} : Home(v, x) = Home(w, x)
      /\ \A x \in Alive(w) \ {c} : Loose(v, x) <=> Loose(w, x)
  BY <1>1, JoinedLinks, RelinkedAlive
<1>3. /\ \A x \in Cells : w.obj[x].next # c
      /\ \A x \in Cells : w.obj[x].prev # c
      /\ \A j \in Cells \cup {Ground} : w.first[j] # c
  BY <1>1, Neighbours DEF Free
<1>4. \A x \in Alive(w) : x \in Cells /\ x # Null
  BY DEF Alive
<1>5. /\ l = Null => w.first[k] = Null
      /\ l # Null => /\ l \in Alive(w) /\ l \in Cells /\ l # c /\ Home(w, l) = k
                     /\ w.obj[l].next = Null /\ ~Loose(w, l)
  <2>1. l # Null => l \in Alive(w) /\ Home(w, l) = k /\ w.obj[l].next = Null /\ ~Loose(w, l)
    BY DEF IsLast
  <2>2. Loose(w, c)
    <3>1. Home(w, c) \in Cells \cup {Ground}
      BY <1>1, HomeOfAlive
    <3> QED BY <3>1 DEF Free, Loose
  <2> QED BY <1>4, <2>1, <2>2 DEF IsLast
<1>6. Buried(v)
  <2> SUFFICES ASSUME NEW x \in Cells \ Alive(w) PROVE v.obj[x] = NoObject /\ v.first[x] = Null
    BY <1>2 DEF Buried
  <2>1. w.obj[x] = NoObject /\ w.first[x] = Null /\ x # c /\ x # l /\ x # k
    BY <1>1, <1>5 DEF Sound, Buried, Keepers
  <2>2. /\ v.obj[x].live = FALSE /\ v.obj[x].serial = NoSerial /\ v.obj[x].layer = "none"
        /\ v.obj[x].next = Null /\ v.obj[x].prev = Null /\ v.obj[x].cont = NoSerial
        /\ v.first[x] = Null
    BY <1>1, <2>1 DEF Joined, Relinked, NoObject
  <2>3. v.obj[x] \in Object
    BY <1>1 DEF Heaps
  <2> QED BY <2>2, <2>3 DEF Object, NoObject
<1>7. Mapped(v)
  BY <1>1, <1>2, <1>4 DEF Sound, Mapped, Relinked
<1>8. Housed(v)
  BY <1>2 DEF Sound, Housed
<1>9. FirstsSound(v)
  <2> SUFFICES ASSUME NEW j \in Keepers(w), v.first[j] # Null
               PROVE  /\ v.first[j] \in Alive(w) /\ v.obj[v.first[j]].prev = Null
                      /\ Home(v, v.first[j]) = j
    BY <1>2 DEF FirstsSound
  <2>1. j \in Cells \cup {Ground}
    BY DEF Keepers, Alive
  <2>2. CASE j = k /\ l = Null
    <3>1. v.first[j] = c /\ v.obj[c].prev = Null
      BY <1>1, <2>1, <2>2 DEF Joined
    <3> QED BY <1>1, <1>2, <2>2, <3>1
  <2>3. CASE ~(j = k /\ l = Null)
    <3>1. v.first[j] = w.first[j] /\ w.first[j] # c
      BY <1>3, <2>1, <2>3 DEF Joined
    <3>2. w.first[j] \in Alive(w) /\ w.obj[w.first[j]].prev = Null /\ Home(w, w.first[j]) = j
      BY <3>1 DEF Sound, FirstsSound
    <3> QED BY <1>2, <1>4, <3>1, <3>2 DEF Joined
  <2> QED BY <2>2, <2>3
<1>10. NextsSound(v)
  <2> SUFFICES ASSUME NEW x \in Alive(w), v.obj[x].next # Null
               PROVE  /\ v.obj[x].next \in Alive(w)
                      /\ v.obj[v.obj[x].next].prev = x
                      /\ v.obj[v.obj[x].next].cont = v.obj[x].cont
    BY <1>2 DEF NextsSound
  <2>1. x \in Cells /\ x # Null
    BY <1>4
  <2>2. CASE x = l
    <3>1. v.obj[x].next = c /\ v.obj[c].prev = x /\ v.obj[x].cont = w.obj[l].cont
          /\ v.obj[c].cont = ContOf(w, k)
      BY <1>1, <1>5, <2>1, <2>2 DEF Joined
    <3>2. w.obj[l].cont = ContOf(w, k)
      BY <1>5, <2>1, <2>2, HomeOfAlive DEF ContOf
    <3> QED BY <1>1, <3>1, <3>2
  <2>3. CASE x # l
    <3> DEFINE y == w.obj[x].next
    <3>1. v.obj[x].next = y /\ y # c /\ x # c
      BY <1>1, <1>3, <2>1, <2>3 DEF Joined, Free
    <3>2. y \in Alive(w) /\ w.obj[y].prev = x /\ w.obj[y].cont = w.obj[x].cont /\ y \in Cells
      BY <1>4, <3>1 DEF Sound, NextsSound
    <3>3. v.obj[y].prev = x /\ v.obj[y].cont = w.obj[y].cont /\ v.obj[x].cont = w.obj[x].cont
      BY <2>1, <3>1, <3>2 DEF Joined
    <3> QED BY <3>1, <3>2, <3>3
  <2> QED BY <2>2, <2>3
<1>11. PrevsSound(v)
  <2> SUFFICES ASSUME NEW x \in Alive(w), v.obj[x].prev # Null
               PROVE  /\ v.obj[x].prev \in Alive(w)
                      /\ v.obj[v.obj[x].prev].next = x
    BY <1>2 DEF PrevsSound
  <2>1. CASE x = c
    <3>1. v.obj[x].prev = l
      BY <1>1, <2>1 DEF Joined
    <3> QED BY <1>5, <2>1, <3>1 DEF Joined
  <2>2. CASE x # c
    <3> DEFINE y == w.obj[x].prev
    <3>1. v.obj[x].prev = y
      BY <1>4, <2>2 DEF Joined
    <3>2. y \in Alive(w) /\ w.obj[y].next = x /\ y \in Cells
      BY <1>4, <3>1 DEF Sound, PrevsSound
    <3>3. y # l
      BY <1>4, <1>5, <3>2
    <3> QED BY <3>1, <3>2, <3>3 DEF Joined
  <2> QED BY <2>1, <2>2
<1>12. LooseSound(v)
  <2> SUFFICES ASSUME NEW x \in Alive(w), Loose(v, x)
               PROVE  v.obj[x].next = Null /\ v.obj[x].cont = NoSerial
    BY <1>2 DEF LooseSound
  <2>1. x # c /\ Loose(w, x) /\ x \in Cells
    BY <1>2, <1>4
  <2>2. x # l
    BY <1>4, <1>5, <2>1
  <2>3. w.obj[x].next = Null /\ w.obj[x].cont = NoSerial
    BY <2>1 DEF Sound, LooseSound
  <2> QED BY <2>1, <2>2, <2>3 DEF Joined
<1>13. ListsEnd(v)
  <2> SUFFICES ASSUME NEW S \in SUBSET Alive(w), S # {}
               PROVE  \E x \in S : v.obj[x].prev \notin S
    BY <1>2 DEF ListsEnd
  <2>1. CASE S = {c}
    <3>1. v.obj[c].prev = l /\ l # c
      BY <1>1, <1>5 DEF Joined
    <3> QED BY <2>1, <3>1
  <2>2. CASE S # {c}
    <3>1. S \ {c} \in SUBSET Alive(w) /\ S \ {c} # {}
      BY <2>2
    <3>2. PICK x \in S \ {c} : w.obj[x].prev \notin S \ {c}
      BY <3>1 DEF Sound, ListsEnd
    <3>3. v.obj[x].prev = w.obj[x].prev /\ w.obj[x].prev # c
      BY <1>3, <1>4, <3>2 DEF Joined
    <3> QED BY <3>2, <3>3
  <2> QED BY <2>1, <2>2
<1>14. HomesEnd(v)
  <2> SUFFICES ASSUME NEW S \in SUBSET Alive(w), S # {}
               PROVE  \E x \in S : Home(v, x) \notin S
    BY <1>2 DEF HomesEnd
  <2>1. CASE c \notin S
    <3>1. PICK x \in S : Home(w, x) \notin S
      BY DEF Sound, HomesEnd
    <3> QED BY <1>2, <2>1, <3>1
  <2>2. CASE c \in S
    <3>1. PICK D \in SUBSET Cells : Closed(w, D) /\ c \in D /\ k \notin D
      BY DEF Apart
    <3>2. CASE S \subseteq D
      BY <1>2, <2>2, <3>1, <3>2
    <3>3. CASE ~(S \subseteq D)
      <4>1. S \ D \in SUBSET Alive(w) /\ S \ D # {}
        BY <3>3
      <4>2. PICK x \in S \ D : Home(w, x) \notin S \ D
        BY <4>1 DEF Sound, HomesEnd
      <4>3. Home(w, x) \notin D
        BY <3>1, <4>2 DEF Closed
      <4>4. x # c
        BY <3>1, <4>2
      <4> QED BY <1>2, <4>2, <4>3, <4>4
    <3> QED BY <3>2, <3>3
  <2> QED BY <2>1, <2>2
<1> QED BY <1>1, <1>6, <1>7, <1>8, <1>9, <1>10, <1>11, <1>12, <1>13, <1>14 DEF Sound

-----------------------------------------------------------------------------
(* Induction and recursion over the natural numbers.                       *)

LEMMA NatSetInduction ==
  ASSUME NEW T, 0 \in T, \A n \in Nat : n \in T => n + 1 \in T
  PROVE  Nat \subseteq T
<1> DEFINE Less == {ss \in Nat \X Nat : ss[1] < ss[2]}
           Left == Nat \ T
<1>1. SUFFICES ASSUME Left # {} PROVE FALSE
  OBVIOUS
<1>2. \A x, y \in Nat : x < y => <<x, y>> \in Less
  OBVIOUS
<1>3. IsWellFoundedOn(Less, Nat)
  BY NatLessThanWellFounded DEF OpToRel
<1> HIDE DEF Less
<1>4. PICK x \in Left : \A y \in Left : ~(<<y, x>> \in Less)
  BY <1>1, <1>3, WFMin
<1>5. x \in Nat /\ x # 0 /\ x - 1 \in Nat /\ x - 1 < x /\ (x - 1) + 1 = x
  BY <1>4
<1>6. x - 1 \notin Left
  BY <1>2, <1>4, <1>5
<1> QED BY <1>4, <1>5, <1>6

(* A run of n steps from first exists for every step function. *)
IsRun(f, V, first, n, step) ==
  f \in [0..n -> V] /\ f[0] = first /\ \A i \in 1..n : f[i] = step[i][f[i - 1]]

LEMMA RunExists ==
  ASSUME NEW V, NEW first \in V, NEW n \in Nat, NEW step \in [1..n -> [V -> V]]
  PROVE  \E f : IsRun(f, V, first, n, step)
<1> DEFINE Run(m, f) == IsRun(f, V, first, m, step)
           T == {m \in Nat : m <= n => \E f : Run(m, f)}
<1> USE DEF IsRun
<1>1. 0 \in T
  <2>1. Run(0, [i \in 0..0 |-> first])
    OBVIOUS
  <2> HIDE DEF Run
  <2> QED BY <2>1
<1>2. ASSUME NEW m \in Nat, m \in T
      PROVE  m + 1 \in T
  <2> SUFFICES ASSUME m + 1 <= n PROVE \E f : Run(m + 1, f)
    OBVIOUS
  <2>1. m <= n /\ m + 1 \in 1..n
    OBVIOUS
  <2>2. PICK f : Run(m, f)
    <3> HIDE DEF Run
    <3> QED BY <1>2, <2>1
  <2>3. f[m] \in V
    BY <2>2
  <2> DEFINE last == step[m + 1][f[m]]
             g == [i \in 0..m + 1 |-> IF i = m + 1 THEN last ELSE f[i]]
  <2>4. last \in V
    BY <2>1, <2>3
  <2>5. g[m + 1] = last /\ \A i \in 0..m : g[i] = f[i]
    <3> HIDE DEF last
    <3> QED OBVIOUS
  <2>6. g \in [0..m + 1 -> V]
    <3> HIDE DEF last
    <3> QED BY <2>2, <2>4
  <2> HIDE DEF g
  <2>7. ASSUME NEW i \in 1..m + 1
        PROVE  g[i] = step[i][g[i - 1]]
    <3>1. CASE i = m + 1
      <4>1. i - 1 = m /\ m \in 0..m
        BY <3>1
      <4> QED BY <2>5, <3>1, <4>1
    <3>2. CASE i # m + 1
      <4>1. i \in 1..m /\ i \in 0..m /\ i - 1 \in 0..m
        BY <3>2
      <4> QED BY <2>2, <2>5, <4>1
    <3> QED BY <3>1, <3>2
  <2>8. g[0] = first
    BY <2>2, <2>5
  <2> QED BY <2>6, <2>7, <2>8
<1>3. n \in T
  <2> HIDE DEF T
  <2> QED BY <1>1, <1>2, NatSetInduction
<1> QED BY <1>3

-----------------------------------------------------------------------------
(* The objects of a list.                                                  *)

Size == Cardinality(Cells)

LEMMA SizeNat == Size \in Nat /\ \A S \in SUBSET Cells : IsFiniteSet(S) /\ Cardinality(S) \in Nat /\ Cardinality(S) <= Size
<1>1. IsFiniteSet(Cells) /\ Size \in Nat
  BY FS_CardinalityType DEF Size
<1>2. \A S \in SUBSET Cells : IsFiniteSet(S) /\ Cardinality(S) <= Size
  BY <1>1, FS_Subset DEF Size
<1> QED BY <1>1, <1>2, FS_CardinalityType

LEMMA EmptyIsSeq == ASSUME NEW S PROVE <<>> \in Seq(S) /\ Len(<<>>) = 0
OBVIOUS

LEMMA WalkRun ==
  ASSUME NEW w \in Heaps
  PROVE  /\ \A n \in 0..Size : Walk(w)[n] \in [Pointers -> Seq(Cells)]
         /\ \A c \in Pointers : Walk(w)[0][c] = <<>>
         /\ \A n \in 1..Size, c \in Pointers :
              Walk(w)[n][c] = IF c = Null THEN <<>>
                              ELSE <<c>> \o Walk(w)[n - 1][w.obj[c].next]
<1> DEFINE V == [Pointers -> Seq(Cells)]
           first == [c \in Pointers |-> <<>>]
           longer(g) == [c \in Pointers |-> IF c = Null THEN <<>> ELSE <<c>> \o g[w.obj[c].next]]
           step == [n \in 1..Size |-> [g \in V |-> longer(g)]]
           body(g, n) == [c \in Pointers |-> IF n = 0 \/ c = Null THEN <<>>
                                             ELSE <<c>> \o g[n - 1][w.obj[c].next]]
           Walks(f) == f = [n \in 0..Size |-> body(f, n)]
           A == Walk(w)
<1>1. first \in V
  BY EmptyIsSeq
<1>2. ASSUME NEW g \in V PROVE longer(g) \in V
  <2> SUFFICES ASSUME NEW c \in Pointers, c # Null
               PROVE  <<c>> \o g[w.obj[c].next] \in Seq(Cells)
    BY EmptyIsSeq
  <2>1. c \in Cells /\ w.obj[c].next \in Pointers
    BY HeapFields DEF Pointers
  <2>2. <<c>> \in Seq(Cells) /\ g[w.obj[c].next] \in Seq(Cells)
    BY <2>1
  <2> QED BY <2>2, ConcatProperties
<1>3. step \in [1..Size -> [V -> V]]
  <2> HIDE DEF longer, V
  <2> QED BY <1>2
<1>4. Size \in Nat
  BY SizeNat
<1>5. PICK f : IsRun(f, V, first, Size, step)
  <2> HIDE DEF first, step, V
  <2> QED BY <1>1, <1>3, <1>4, RunExists
<1>6. /\ f \in [0..Size -> V] /\ f[0] = first
      /\ \A n \in 1..Size : f[n] = longer(f[n - 1])
  <2>1. ASSUME NEW n \in 1..Size PROVE f[n] = longer(f[n - 1])
    <3>1. f[n - 1] \in V
      <4>1. n - 1 \in 0..Size
        BY <1>4
      <4> HIDE DEF V
      <4> QED BY <1>5, <4>1 DEF IsRun
    <3> HIDE DEF longer, V
    <3> QED BY <1>5, <3>1 DEF IsRun
  <2> HIDE DEF first, V, longer, step
  <2> QED BY <1>5, <2>1 DEF IsRun
<1>7. Walks(f)
  <2>1. ASSUME NEW n \in 0..Size PROVE f[n] = body(f, n)
    <3>1. CASE n = 0
      BY <1>6, <3>1
    <3>2. CASE n # 0
      <4>1. n \in 1..Size /\ f[n] = longer(f[n - 1])
        <5> HIDE DEF longer
        <5> QED BY <1>4, <1>6, <3>2
      <4>2. longer(f[n - 1]) = body(f, n)
        BY <3>2
      <4> QED BY <4>1, <4>2
    <3> QED BY <3>1, <3>2
  <2>2. f = [n \in 0..Size |-> f[n]]
    <3> HIDE DEF V
    <3> QED BY <1>6
  <2> HIDE DEF body
  <2> QED BY <2>1, <2>2
<1>8. A = CHOOSE g : Walks(g)
  BY DEF Walk, Size
<1>9. Walks(A)
  <2> HIDE DEF Walks, A
  <2> QED BY <1>7, <1>8
<1> HIDE DEF A
<1>10. \A n \in 0..Size, c \in Pointers :
         A[n][c] = IF n = 0 \/ c = Null THEN <<>> ELSE <<c>> \o A[n - 1][w.obj[c].next]
  <2> SUFFICES ASSUME NEW n \in 0..Size
               PROVE  \A c \in Pointers : A[n][c] =
                        IF n = 0 \/ c = Null THEN <<>> ELSE <<c>> \o A[n - 1][w.obj[c].next]
    OBVIOUS
  <2>1. A[n] = body(A, n)
    <3> HIDE DEF body
    <3> QED BY <1>9
  <2> QED BY <2>1
<1>11. A[0] = first
  <2>1. A[0] = body(A, 0)
    <3> HIDE DEF body
    <3> QED BY <1>4, <1>9
  <2> QED BY <2>1
<1>12. ASSUME NEW n \in 1..Size PROVE A[n] = longer(A[n - 1])
  <2>1. A[n] = body(A, n)
    <3> HIDE DEF body
    <3> QED BY <1>4, <1>9
  <2>2. n # 0
    BY <1>4
  <2> QED BY <2>1, <2>2
<1>13. \A n \in 0..Size : A[n] \in V
  <2> DEFINE T == {n \in Nat : n <= Size => A[n] \in V}
  <2>1. 0 \in T
    <3> HIDE DEF V
    <3> QED BY <1>1, <1>11
  <2>2. ASSUME NEW n \in Nat, n \in T PROVE n + 1 \in T
    <3> SUFFICES ASSUME n + 1 <= Size PROVE A[n + 1] \in V
      OBVIOUS
    <3>1. n + 1 \in 1..Size /\ (n + 1) - 1 = n /\ n <= Size
      BY <1>4
    <3>2. A[n] \in V
      <4> HIDE DEF V
      <4> QED BY <2>2, <3>1
    <3> HIDE DEF V, longer
    <3> QED BY <1>2, <1>12, <3>1, <3>2
  <2>3. Nat \subseteq T
    <3> HIDE DEF T
    <3> QED BY <2>1, <2>2, NatSetInduction
  <2> HIDE DEF V
  <2> QED BY <1>4, <2>3
<1> QED
  <2>1. \A n \in 1..Size : n \in 0..Size /\ n # 0
    BY <1>4
  <2>2. 0 \in 0..Size
    BY <1>4
  <2> QED BY <1>10, <1>13, <2>1, <2>2 DEF A

NextClosed(w, U) == \A x \in U : w.obj[x].next # Null => w.obj[x].next \in U

(* s are the objects from c on, all of them in U. *)
Follows(w, c, s, U) ==
  /\ s \in Seq(U)
  /\ Len(s) \in Nat /\ Len(s) >= 1
  /\ s[1] = c
  /\ \A i \in 1..Len(s) : w.obj[s[i]].next = IF i = Len(s) THEN Null ELSE s[i + 1]
  /\ \A i, j \in 1..Len(s) : s[i] = s[j] => i = j

LEMMA OneMore ==
  ASSUME NEW w \in Heaps, NEW U \in SUBSET Cells, NEW c \in U, NEW s,
         w.obj[c].next # Null,
         Follows(w, w.obj[c].next, s, U \ {c})
  PROVE  Follows(w, c, <<c>> \o s, U)
<1> DEFINE h == <<c>>
           t == h \o s
           m == Len(s)
<1>1. s \in Seq(U) /\ s \in Seq(U \ {c}) /\ m \in Nat /\ m >= 1
  BY DEF Follows
<1>2. h \in Seq(U) /\ Len(h) = 1 /\ h[1] = c
  OBVIOUS
<1> HIDE DEF h
<1>3. /\ t \in Seq(U) /\ Len(t) = 1 + m
      /\ \A i \in 1..1 + m : t[i] = IF i <= 1 THEN h[i] ELSE s[i - 1]
  <2>1. /\ t \in Seq(U) /\ Len(t) = Len(h) + Len(s)
        /\ \A i \in 1..Len(h) + Len(s) :
             t[i] = IF i <= Len(h) THEN h[i] ELSE s[i - Len(h)]
    <3>1. s \in Seq(U) /\ h \in Seq(U)
      BY <1>1, <1>2
    <3> HIDE DEF m
    <3>2. /\ h \o s \in Seq(U) /\ Len(h \o s) = Len(h) + Len(s)
          /\ \A i \in 1..Len(h) + Len(s) :
               (h \o s)[i] = IF i <= Len(h) THEN h[i] ELSE s[i - Len(h)]
      BY <3>1, ConcatProperties
    <3> QED BY <3>2
  <2> QED BY <1>2, <2>1
<1>4. t[1] = c /\ \A i \in 1..m : t[i + 1] = s[i]
  <2>1. 1 \in 1..1 + m
    BY <1>1
  <2>2. ASSUME NEW i \in 1..m PROVE t[i + 1] = s[i]
    <3>1. i + 1 \in 1..1 + m /\ ~(i + 1 <= 1) /\ (i + 1) - 1 = i
      BY <1>1
    <3> QED BY <1>3, <3>1
  <2> QED BY <1>2, <1>3, <2>1, <2>2
<1>5. \A i \in 1..m : s[i] # c
  BY <1>1
<1>6. /\ s[1] = w.obj[c].next
      /\ \A i \in 1..m : w.obj[s[i]].next = IF i = m THEN Null ELSE s[i + 1]
      /\ \A i, j \in 1..m : s[i] = s[j] => i = j
  BY DEF Follows
<1> HIDE DEF t, m
<1>7. ASSUME NEW i \in 1..1 + m
      PROVE  w.obj[t[i]].next = IF i = 1 + m THEN Null ELSE t[i + 1]
  <2>1. CASE i = 1
    <3>1. i # 1 + m /\ 1 \in 1..m
      BY <1>1, <2>1
    <3> QED BY <1>4, <1>6, <2>1, <3>1
  <2>2. CASE i # 1
    <3>1. i - 1 \in 1..m /\ (i - 1) + 1 = i /\ (i = 1 + m <=> i - 1 = m)
          /\ (i # 1 + m => i \in 1..m)
      BY <1>1, <2>2
    <3>2. t[i] = s[i - 1]
      BY <1>4, <3>1
    <3>3. i # 1 + m => t[i + 1] = s[i]
      BY <1>4, <3>1
    <3> QED BY <1>6, <3>1, <3>2, <3>3
  <2> QED BY <2>1, <2>2
<1>8. ASSUME NEW i \in 1..1 + m, NEW j \in 1..1 + m, t[i] = t[j]
      PROVE  i = j
  <2>1. \A x \in 1..1 + m : x # 1 => x - 1 \in 1..m /\ (x - 1) + 1 = x
    BY <1>1
  <2>2. \A x \in 1..1 + m : x # 1 => t[x] = s[x - 1]
    BY <1>4, <2>1
  <2>3. CASE i = 1 \/ j = 1
    BY <1>4, <1>5, <1>8, <2>1, <2>2, <2>3
  <2>4. CASE i # 1 /\ j # 1
    <3>1. i - 1 = j - 1
      BY <1>6, <1>8, <2>1, <2>2, <2>4
    <3> QED BY <3>1
  <2> QED BY <2>3, <2>4
<1>9. Len(t) = 1 + m /\ 1 + m \in Nat /\ 1 + m >= 1
  BY <1>1, <1>3 DEF m
<1> QED BY <1>3, <1>4, <1>7, <1>8, <1>9 DEF Follows, t, h

LEMMA WalkFollows ==
  ASSUME NEW w, Sound(w)
  PROVE  \A n \in 0..Size : \A U \in SUBSET Alive(w) : \A c \in U :
           Cardinality(U) <= n /\ NextClosed(w, U) /\ w.obj[c].prev \notin U
             => Follows(w, c, Walk(w)[n][c], U)
<1> DEFINE Fits(n, U, c) ==
             Cardinality(U) <= n /\ NextClosed(w, U) /\ w.obj[c].prev \notin U
           P(n) == \A U \in SUBSET Alive(w) : \A c \in U :
                     Fits(n, U, c) => Follows(w, c, Walk(w)[n][c], U)
           T == {n \in Nat : n <= Size => P(n)}
<1>1. w \in Heaps /\ Size \in Nat /\ Alive(w) \subseteq Cells /\ Null \in Pointers
      /\ Cells \subseteq Pointers
  BY SizeNat DEF Sound, Alive, Pointers
<1>2. \A U \in SUBSET Alive(w) : IsFiniteSet(U) /\ Cardinality(U) \in Nat
  BY <1>1, SizeNat
<1>w. /\ \A c \in Pointers : Walk(w)[0][c] = <<>>
      /\ \A n \in 1..Size, c \in Pointers :
           Walk(w)[n][c] = IF c = Null THEN <<>> ELSE <<c>> \o Walk(w)[n - 1][w.obj[c].next]
  <2>1. w \in Heaps
    BY <1>1
  <2> QED BY <2>1, WalkRun
<1>3. 0 \in T
  <2> SUFFICES ASSUME NEW U \in SUBSET Alive(w), NEW c \in U, Cardinality(U) <= 0
               PROVE FALSE
    OBVIOUS
  <2>1. Cardinality(U) = 0
    BY <1>2
  <2> QED BY <1>2, <2>1, FS_EmptySet
<1>4. ASSUME NEW n \in Nat, n \in T PROVE n + 1 \in T
  <2> SUFFICES ASSUME n + 1 <= Size, NEW U \in SUBSET Alive(w), NEW c \in U, Fits(n + 1, U, c)
               PROVE  Follows(w, c, Walk(w)[n + 1][c], U)
    OBVIOUS
  <2>1. n <= Size /\ n + 1 \in 1..Size /\ (n + 1) - 1 = n /\ n \in 0..Size
    BY <1>1
  <2>2. P(n)
    <3> HIDE DEF P
    <3> QED BY <1>4, <2>1
  <2>3. c \in Cells /\ c # Null /\ c \in Pointers /\ w.obj[c].next \in Pointers /\ U \in SUBSET Cells
    BY <1>1, HeapFields
  <2>4. Walk(w)[n + 1][c] = <<c>> \o Walk(w)[n][w.obj[c].next]
    <3>1. Walk(w)[n + 1][c] = <<c>> \o Walk(w)[(n + 1) - 1][w.obj[c].next]
      BY <1>w, <2>1, <2>3
    <3> QED BY <2>1, <3>1
  <2>5. CASE w.obj[c].next = Null
    <3>1. Walk(w)[n][Null] = <<>>
      <4>1. CASE n = 0
        BY <1>1, <1>w, <4>1
      <4>2. CASE n # 0
        <5>1. n \in 1..Size
          BY <2>1, <4>2
        <5> QED BY <1>1, <1>w, <5>1
      <4> QED BY <4>1, <4>2
    <3>2. Walk(w)[n + 1][c] = <<c>>
      BY <2>4, <2>5, <3>1
    <3>3. Follows(w, c, <<c>>, U)
      <4> DEFINE h == <<c>>
      <4>1. h \in Seq(U) /\ Len(h) = 1 /\ h[1] = c
        OBVIOUS
      <4> HIDE DEF h
      <4>2. \A i \in 1..Len(h) : i = 1
        BY <4>1
      <4> QED BY <2>5, <4>1, <4>2 DEF Follows, h
    <3> QED BY <3>2, <3>3
  <2>6. CASE w.obj[c].next # Null
    <3> DEFINE d == w.obj[c].next
               W == U \ {c}
    <3>1. d \in Alive(w) /\ w.obj[d].prev = c /\ d \in U
      BY <2>6 DEF Sound, NextsSound, NextClosed
    <3>2. d \in W
      BY <2>6, <3>1, NotOwnNeighbour
    <3>3. NextClosed(w, W)
      <4> SUFFICES ASSUME NEW x \in W, w.obj[x].next # Null PROVE w.obj[x].next \in W
        BY DEF NextClosed
      <4>1. w.obj[x].next \in U
        BY DEF NextClosed
      <4>2. w.obj[x].next # c
        BY DEF Sound, NextsSound
      <4> QED BY <4>1, <4>2
    <3>4. Cardinality(W) = Cardinality(U) - 1
      BY <1>2, FS_RemoveElement
    <3>5. Cardinality(W) <= n
      BY <1>2, <3>4
    <3>6. W \in SUBSET Alive(w) /\ w.obj[d].prev \notin W
      BY <3>1
    <3> HIDE DEF d, W
    <3>7. Follows(w, d, Walk(w)[n][d], W)
      BY <2>2, <3>2, <3>3, <3>5, <3>6
    <3> DEFINE s == Walk(w)[n][d]
    <3>8. Follows(w, w.obj[c].next, s, U \ {c})
      BY <3>7 DEF d, W
    <3>9. Walk(w)[n + 1][c] = <<c>> \o s
      BY <2>4 DEF d
    <3> HIDE DEF s
    <3>10. Follows(w, c, <<c>> \o s, U)
      BY <1>1, <2>3, <2>6, <3>8, OneMore
    <3> QED BY <3>9, <3>10
  <2> QED BY <2>5, <2>6
<1>5. Nat \subseteq T
  <2> HIDE DEF T
  <2> QED BY <1>3, <1>4, NatSetInduction
<1>6. \A n \in 0..Size : P(n)
  <2> HIDE DEF P
  <2> QED BY <1>1, <1>5
<1> QED BY <1>6

(* From any object of a sound heap, the list runs to its end. *)
LEMMA ChainFollows ==
  ASSUME NEW w, Sound(w), NEW c \in Alive(w)
  PROVE  \E U \in SUBSET Alive(w) : w.obj[c].prev \notin U /\ Follows(w, c, Chain(w, c), U)
<1> DEFINE Ahead == {x \in Alive(w) : \A U \in SUBSET Alive(w) :
                                        c \in U /\ NextClosed(w, U) => x \in U}
<1>1. Ahead \in SUBSET Alive(w) /\ c \in Ahead
  OBVIOUS
<1>2. NextClosed(w, Ahead)
  BY DEF NextClosed, Sound, NextsSound
<1>3. ASSUME NEW x \in Ahead, x # c PROVE w.obj[x].prev \in Ahead
  <2> SUFFICES ASSUME w.obj[x].prev \notin Ahead PROVE FALSE
    OBVIOUS
  <2>1. NextClosed(w, Ahead \ {x})
    <3> SUFFICES ASSUME NEW y \in Ahead, y # x, w.obj[y].next # Null, w.obj[y].next = x
                 PROVE  FALSE
      BY <1>2 DEF NextClosed
    <3>1. w.obj[x].prev = y
      BY DEF Sound, NextsSound
    <3> QED BY <3>1
  <2> QED BY <1>1, <1>3, <2>1
<1>4. w.obj[c].prev \notin Ahead
  <2> SUFFICES ASSUME w.obj[c].prev \in Ahead PROVE FALSE
    OBVIOUS
  <2>1. \A x \in Ahead : w.obj[x].prev \in Ahead
    BY <1>3
  <2> HIDE DEF Ahead
  <2> QED BY <1>1, <2>1 DEF Sound, ListsEnd
<1> HIDE DEF Ahead
<1>5. Cardinality(Ahead) <= Size /\ Size \in 0..Size
  BY <1>1, SizeNat DEF Alive
<1>6. Follows(w, c, Walk(w)[Size][c], Ahead)
  BY <1>1, <1>2, <1>4, <1>5, WalkFollows
<1> QED BY <1>1, <1>4, <1>6 DEF Chain, Size

(* s is the rest of a list, from c to its end. *)
RestOfList(w, c, s) ==
  /\ s \in Seq(Alive(w)) /\ Len(s) \in Nat /\ Len(s) >= 1
  /\ s[1] = c
  /\ \A i \in 1..Len(s) :
       /\ s[i] \in Alive(w)
       /\ w.obj[s[i]].next = IF i = Len(s) THEN Null ELSE s[i + 1]
       /\ w.obj[s[i]].cont = w.obj[c].cont
  /\ \A i, j \in 1..Len(s) : s[i] = s[j] => i = j
  /\ \A i \in 1..Len(s) : s[i] # w.obj[c].prev

LEMMA ChainFacts ==
  ASSUME NEW w, Sound(w), NEW c \in Alive(w), NEW s, s = Chain(w, c)
  PROVE  RestOfList(w, c, s)
<1>1. PICK U \in SUBSET Alive(w) : w.obj[c].prev \notin U /\ Follows(w, c, s, U)
  BY ChainFollows
<1>2. /\ s \in Seq(U) /\ s \in Seq(Alive(w)) /\ Len(s) \in Nat /\ Len(s) >= 1 /\ s[1] = c
      /\ \A i \in 1..Len(s) : w.obj[s[i]].next = IF i = Len(s) THEN Null ELSE s[i + 1]
      /\ \A i, j \in 1..Len(s) : s[i] = s[j] => i = j
  BY <1>1 DEF Follows
<1>3. \A i \in 1..Len(s) : s[i] \in U /\ s[i] \in Alive(w)
  BY <1>2
<1> DEFINE m == Len(s)
           T == {i \in Nat : i + 1 <= m => w.obj[s[i + 1]].cont = w.obj[c].cont}
<1>4. 0 \in T
  BY <1>2
<1>5. ASSUME NEW i \in Nat, i \in T PROVE i + 1 \in T
  <2> SUFFICES ASSUME (i + 1) + 1 <= m PROVE w.obj[s[(i + 1) + 1]].cont = w.obj[c].cont
    OBVIOUS
  <2>1. i + 1 \in 1..m /\ i + 1 # m /\ (i + 1) + 1 \in 1..m
    BY <1>2
  <2>2. w.obj[s[i + 1]].next = s[(i + 1) + 1] /\ s[i + 1] \in Alive(w)
        /\ s[(i + 1) + 1] \in Alive(w)
    BY <1>2, <1>3, <2>1
  <2>3. w.obj[s[(i + 1) + 1]].cont = w.obj[s[i + 1]].cont
    BY <2>2 DEF Sound, NextsSound, Alive
  <2> QED BY <1>5, <2>1, <2>3
<1>6. Nat \subseteq T
  <2> HIDE DEF T
  <2> QED BY <1>4, <1>5, NatSetInduction
<1>7. ASSUME NEW i \in 1..m PROVE w.obj[s[i]].cont = w.obj[c].cont
  <2>1. i - 1 \in Nat /\ (i - 1) + 1 = i /\ (i - 1) + 1 <= m
    BY <1>2
  <2>2. i - 1 \in T
    BY <1>6, <2>1
  <2> QED BY <2>1, <2>2
<1> QED BY <1>1, <1>2, <1>3, <1>7 DEF RestOfList

LEMMA ChainOfNull ==
  ASSUME NEW w \in Heaps
  PROVE  Chain(w, Null) = <<>>
<1>1. Size \in 0..Size /\ Null \in Pointers /\ (Size = 0 \/ Size \in 1..Size)
  BY SizeNat DEF Pointers
<1> QED BY <1>1, WalkRun DEF Chain, Size

(* Who is in k's list. *)
Inmates(w, k) == {x \in Alive(w) : Home(w, x) = k /\ ~Loose(w, x)}

LEMMA NobodyThere ==
  ASSUME NEW w, Sound(w), NEW k \in Cells \cup {Ground}, w.first[k] = Null
  PROVE  Inmates(w, k) = {}
<1> SUFFICES ASSUME NEW x \in Inmates(w, k) PROVE FALSE
  OBVIOUS
<1>1. x \in Alive(w) /\ Home(w, x) = k /\ x # Null /\ ~Loose(w, x)
  BY DEF Inmates, Alive
<1>2. w.obj[x].prev = Null
  BY <1>1, FirstExists
<1> QED BY <1>1, <1>2 DEF Loose

LEMMA MembersFacts ==
  ASSUME NEW w, Sound(w), NEW k \in Cells \cup {Ground}, NEW s, s = Members(w, k)
  PROVE  /\ s \in Seq(Alive(w)) /\ Len(s) \in Nat
         /\ \A i \in 1..Len(s) : s[i] \in Inmates(w, k)
         /\ \A x \in Inmates(w, k) : \E i \in 1..Len(s) : s[i] = x
         /\ \A i, j \in 1..Len(s) : s[i] = s[j] => i = j
         /\ w.first[k] # Null => /\ Len(s) >= 1
                                 /\ s[1] = w.first[k]
                                 /\ w.obj[s[Len(s)]].next = Null
<1>1. w \in Heaps /\ w.first[k] \in Pointers
  BY HeapFields DEF Sound
<1>2. CASE w.first[k] = Null
  <2>1. s = <<>>
    BY <1>1, <1>2, ChainOfNull DEF Members
  <2>2. Inmates(w, k) = {}
    BY <1>2, NobodyThere
  <2>3. s \in Seq(Alive(w)) /\ Len(s) = 0
    BY <2>1
  <2>4. \A i \in 1..Len(s) : FALSE
    BY <2>3
  <2> QED BY <1>2, <2>2, <2>3, <2>4
<1>3. CASE w.first[k] # Null
  <2> DEFINE f == w.first[k]
  <2>1. f \in Alive(w) /\ w.obj[f].prev = Null /\ Home(w, f) = k
    <3>1. k \in Keepers(w)
      BY <1>3 DEF Sound, Buried, Keepers
    <3> QED BY <1>3, <3>1 DEF Sound, FirstsSound
  <2>2. s = Chain(w, f)
    BY DEF Members
  <2> HIDE DEF f
  <2>3. /\ s \in Seq(Alive(w)) /\ Len(s) \in Nat /\ Len(s) >= 1
        /\ s[1] = f
        /\ \A i \in 1..Len(s) :
             /\ s[i] \in Alive(w)
             /\ w.obj[s[i]].next = IF i = Len(s) THEN Null ELSE s[i + 1]
             /\ w.obj[s[i]].cont = w.obj[f].cont
        /\ \A i, j \in 1..Len(s) : s[i] = s[j] => i = j
        /\ \A i \in 1..Len(s) : s[i] # w.obj[f].prev
    <3>1. RestOfList(w, f, s)
      BY <2>1, <2>2, ChainFacts
    <3> QED BY <3>1 DEF RestOfList
  <2>4. ASSUME NEW i \in 1..Len(s) PROVE s[i] \in Inmates(w, k)
    <3>1. s[i] \in Alive(w) /\ Home(w, s[i]) = k
      BY <2>1, <2>3 DEF Home
    <3>2. CASE i = 1
      BY <2>1, <2>3, <3>1, <3>2 DEF Inmates, Loose, f
    <3>3. CASE i # 1
      <4>1. i - 1 \in 1..Len(s) /\ i - 1 # Len(s) /\ (i - 1) + 1 = i
        BY <2>3, <3>3
      <4>2. w.obj[s[i - 1]].next = s[i] /\ s[i - 1] \in Alive(w)
        BY <2>3, <4>1
      <4>3. w.obj[s[i]].prev = s[i - 1] /\ s[i - 1] # Null
        BY <3>1, <4>2 DEF Sound, NextsSound, Alive
      <4> QED BY <3>1, <4>3 DEF Inmates, Loose
    <3> QED BY <3>2, <3>3
  <2>5. ASSUME NEW x \in Inmates(w, k) PROVE \E i \in 1..Len(s) : s[i] = x
    <3> DEFINE R == {y \in Inmates(w, k) : \A i \in 1..Len(s) : s[i] # y}
    <3> SUFFICES ASSUME R # {} PROVE FALSE
      OBVIOUS
    <3>1. R \in SUBSET Alive(w)
      BY DEF Inmates
    <3>2. PICK y \in R : w.obj[y].prev \notin R
      <4> HIDE DEF R
      <4> QED BY <3>1 DEF Sound, ListsEnd
    <3>3. y \in Alive(w) /\ Home(w, y) = k /\ ~Loose(w, y) /\ y \in Cells
      BY DEF Inmates, Alive
    <3>4. CASE w.obj[y].prev = Null
      <4>1. y = s[1] /\ 1 \in 1..Len(s)
        BY <2>3, <3>3, <3>4 DEF Loose, f
      <4> QED BY <4>1
    <3>5. CASE w.obj[y].prev # Null
      <4> DEFINE z == w.obj[y].prev
      <4>1. z \in Alive(w) /\ w.obj[z].next = y
        BY <3>3, <3>5 DEF Sound, PrevsSound
      <4>2. w.obj[z].cont = w.obj[y].cont /\ y # Null
        BY <3>3, <4>1 DEF Sound, NextsSound, Alive
      <4>3. ~Loose(w, z) /\ Home(w, z) = k
        BY <3>3, <4>1, <4>2 DEF Sound, LooseSound, Home
      <4>4. PICK i \in 1..Len(s) : s[i] = z
        BY <3>2, <4>1, <4>3 DEF Inmates
      <4>5. i # Len(s) /\ s[i + 1] = y
        BY <2>3, <4>1, <4>2, <4>4
      <4>6. i + 1 \in 1..Len(s)
        BY <2>3, <4>5
      <4> QED BY <4>5, <4>6
    <3> QED BY <3>4, <3>5
  <2>6. w.obj[s[Len(s)]].next = Null
    BY <2>3
  <2> QED BY <2>3, <2>4, <2>5, <2>6 DEF f
<1> QED BY <1>2, <1>3

LEMMA MembersSet ==
  ASSUME NEW w, Sound(w), NEW k \in Cells \cup {Ground}
  PROVE  ToSet(Members(w, k)) = Inmates(w, k)
<1> DEFINE s == Members(w, k)
<1>1. /\ s \in Seq(Alive(w)) /\ Len(s) \in Nat
      /\ \A i \in 1..Len(s) : s[i] \in Inmates(w, k)
      /\ \A x \in Inmates(w, k) : \E i \in 1..Len(s) : s[i] = x
  BY MembersFacts
<1> HIDE DEF s
<1>2. DOMAIN s = 1..Len(s)
  BY <1>1
<1>3. ToSet(s) = {s[i] : i \in 1..Len(s)}
  BY <1>2 DEF ToSet
<1> QED BY <1>1, <1>3 DEF s

LEMMA MembersLast ==
  ASSUME NEW w, Sound(w), NEW k \in Cells \cup {Ground}, w.first[k] # Null
  PROVE  IsLast(w, k, Last(Members(w, k)))
<1> DEFINE s == Members(w, k)
<1>1. /\ Len(s) \in Nat /\ Len(s) >= 1 /\ w.obj[s[Len(s)]].next = Null
      /\ \A i \in 1..Len(s) : s[i] \in Inmates(w, k)
  BY MembersFacts
<1> HIDE DEF s
<1>2. s[Len(s)] \in Inmates(w, k)
  BY <1>1
<1> QED BY <1>1, <1>2 DEF IsLast, Inmates, Last, s

-----------------------------------------------------------------------------
(* AddItem, AddObject and MoveToTop.                                       *)

(* Nobody comes, goes or is renamed. *)
Kin(w, v) ==
  /\ v \in Heaps
  /\ v.map = w.map
  /\ Alive(v) = Alive(w)
  /\ \A x \in Cells : v.obj[x].serial = w.obj[x].serial

(* c, and only c, has gone to the list of k. *)
Moved(w, c, k, v) ==
  /\ Sound(v)
  /\ Kin(w, v)
  /\ Home(v, c) = k /\ ~Loose(v, c) /\ v.obj[c].cont = ContOf(w, k)
  /\ \A x \in Alive(w) \ {c} : /\ v.obj[x].cont = w.obj[x].cont
                               /\ Home(v, x) = Home(w, x)
                               /\ Loose(v, x) <=> Loose(w, x)

LEMMA RelinkedKin ==
  ASSUME NEW w, NEW v, Relinked(w, v)
  PROVE  Kin(w, v)
BY RelinkedAlive DEF Relinked, Kin

LEMMA ApartFromHome ==
  ASSUME NEW w, Sound(w), NEW c \in Alive(w)
  PROVE  Apart(w, c, Home(w, c))
<1> DEFINE In == {x \in Alive(w) : \A D \in SUBSET Alive(w) :
                                     c \in D /\ Closed(w, D) => x \in D}
<1>1. In \in SUBSET Alive(w) /\ In \in SUBSET Cells /\ c \in In
  BY DEF Alive
<1>2. Closed(w, In)
  BY DEF Closed
<1>3. ASSUME NEW x \in In, x # c PROVE Home(w, x) \in In
  <2> SUFFICES ASSUME Home(w, x) \notin In PROVE FALSE
    OBVIOUS
  <2>1. Closed(w, In \ {x})
    BY <1>2 DEF Closed
  <2> QED BY <1>1, <1>3, <2>1
<1>4. Home(w, c) \notin In
  <2> SUFFICES ASSUME Home(w, c) \in In PROVE FALSE
    OBVIOUS
  <2>1. \A x \in In : Home(w, x) \in In
    BY <1>3
  <2> HIDE DEF In
  <2> QED BY <1>1, <2>1 DEF Sound, HomesEnd
<1> HIDE DEF In
<1> QED BY <1>1, <1>2, <1>4 DEF Apart

LEMMA ApartUnlinked ==
  ASSUME NEW w, Sound(w), NEW c \in Alive(w), NEW k, Apart(w, c, k),
         NEW u, Unlinked(w, c, u)
  PROVE  Apart(u, c, k)
<1>1. PICK D \in SUBSET Cells : Closed(w, D) /\ c \in D /\ k \notin D
  BY DEF Apart
<1>2. Alive(u) = Alive(w) /\ \A x \in Alive(w) \ {c} : Home(u, x) = Home(w, x)
  BY UnlinkedLinks
<1>3. Closed(u, D)
  BY <1>1, <1>2 DEF Closed
<1> QED BY <1>1, <1>3 DEF Apart

(* Out of one list and to the end of another. *)
LEMMA JoinedMoved ==
  ASSUME NEW w, Sound(w), NEW c \in Alive(w), NEW k \in Keepers(w), Apart(w, c, k),
         NEW u, Unlinked(w, c, u), NEW l, IsLast(u, k, l), NEW v, Joined(u, c, k, l, v)
  PROVE  Moved(w, c, k, v)
<1>1. Sound(u) /\ Apart(u, c, k)
  BY UnlinkedSound, ApartUnlinked
<1>2. /\ Free(u, c) /\ Alive(u) = Alive(w)
      /\ \A x \in Alive(w) \ {c} : Home(u, x) = Home(w, x)
      /\ \A x \in Alive(w) \ {c} : Loose(u, x) <=> Loose(w, x)
  BY UnlinkedLinks
<1>3. k \in Keepers(u)
  BY <1>2 DEF Keepers
<1>4. /\ Alive(v) = Alive(u) /\ Home(v, c) = k /\ ~Loose(v, c)
      /\ \A x \in Alive(u) \ {c} : Home(v, x) = Home(u, x)
      /\ \A x \in Alive(u) \ {c} : Loose(v, x) <=> Loose(u, x)
  BY <1>1, <1>2, <1>3, JoinedLinks
<1>5. Sound(v)
  BY <1>1, <1>2, <1>3, JoinedSound
<1>6. Kin(w, v)
  BY <1>2, <1>4 DEF Kin, Unlinked, Joined, Relinked
<1>7. \A x \in Alive(w) \ {c} : v.obj[x].cont = w.obj[x].cont
  BY DEF Unlinked, Joined, Alive
<1>8. v.obj[c].cont = ContOf(w, k)
  <2>1. c \in Cells /\ (k # Ground => k \in Cells)
    BY DEF Alive, Keepers
  <2> QED BY <2>1 DEF Joined, ContOf, Unlinked, Relinked
<1> QED BY <1>2, <1>4, <1>5, <1>6, <1>7, <1>8 DEF Moved

ContSet(w, c, k) == [w EXCEPT !.obj[c].cont = k]
FirstSet(w, k, p) == [w EXCEPT !.first[k] = p]

LEMMA ContShape ==
  ASSUME NEW w \in Heaps, NEW c \in Cells, NEW k \in Owners,
         NEW v, v = ContSet(w, c, k)
  PROVE  /\ Relinked(w, v)
         /\ v.first = w.first
         /\ \A x \in Cells : /\ v.obj[x].next = w.obj[x].next
                             /\ v.obj[x].prev = w.obj[x].prev
                             /\ v.obj[x].cont = IF x = c THEN k ELSE w.obj[x].cont
<1> DEFINE o == [w.obj[c] EXCEPT !.cont = k]
<1>1. w.obj[c] \in Object
  BY DEF Heaps
<1>2. /\ o \in Object /\ o.cont = k /\ o.live = w.obj[c].live /\ o.serial = w.obj[c].serial
      /\ o.layer = w.obj[c].layer /\ o.prev = w.obj[c].prev /\ o.next = w.obj[c].next
  BY <1>1, WrittenCont
<1>3. v = ObjectSet(w, c, o)
  BY DEF ObjectSet, ContSet
<1> HIDE DEF o
<1>4. /\ v \in Heaps /\ v.map = w.map /\ v.first = w.first
      /\ \A x \in Cells : v.obj[x] = IF x = c THEN o ELSE w.obj[x]
  BY <1>2, <1>3, ObjectWritten
<1> QED BY <1>2, <1>4 DEF Relinked

LEMMA FirstShape ==
  ASSUME NEW w \in Heaps, NEW k \in Cells \cup {Ground}, NEW p \in Pointers,
         NEW v, v = FirstSet(w, k, p)
  PROVE  /\ v \in Heaps /\ v.map = w.map /\ v.obj = w.obj
         /\ \A j \in Cells \cup {Ground} : v.first[j] = IF j = k THEN p ELSE w.first[j]
BY DEF Heaps, FirstSet

LEMMA AddMoved ==
  ASSUME NEW w, Sound(w), NEW c \in Alive(w), NEW k \in Keepers(w), Apart(w, c, k),
         NEW v, v = Add(w, k, c)
  PROVE  Moved(w, c, k, v)
<1> DEFINE u == RemoveFromContainer(w, c)
           t == IF u.first[k] = Null THEN [u EXCEPT !.first[k] = c]
                ELSE Link(u, Last(Members(u, k)), c)
           q == IF k = Ground THEN NoSerial ELSE t.obj[k].serial
<1>1. Unlinked(w, c, u)
  BY RemoveShape
<1>2. v = ContSet(t, c, q)
  BY DEF Add, ContSet
<1> HIDE DEF u
<1>3. Sound(u) /\ Free(u, c) /\ u \in Heaps /\ c \in Cells /\ c # Null /\ c \in Pointers
      /\ k \in Cells \cup {Ground} /\ k \in Keepers(u)
  BY <1>1, UnlinkedSound, UnlinkedLinks DEF Sound, Alive, Keepers, Pointers
<1>5. \E l : IsLast(u, k, l) /\ Joined(u, c, k, l, v)
  <2>1. CASE u.first[k] = Null
    <3>1. t = FirstSet(u, k, c)
      BY <2>1 DEF FirstSet
    <3> HIDE DEF t
    <3>2. /\ t \in Heaps /\ t.map = u.map /\ t.obj = u.obj
          /\ \A j \in Cells \cup {Ground} : t.first[j] = IF j = k THEN c ELSE u.first[j]
      BY <1>3, <3>1, FirstShape
    <3>3. q = ContOf(u, k) /\ q \in Owners
      BY <1>3, <3>2, HeapFields DEF ContOf, NoSerial, Owners
    <3> HIDE DEF q
    <3>4. /\ Relinked(t, v)
          /\ v.first = t.first
          /\ \A x \in Cells : /\ v.obj[x].next = t.obj[x].next
                              /\ v.obj[x].prev = t.obj[x].prev
                              /\ v.obj[x].cont = IF x = c THEN q ELSE t.obj[x].cont
      BY <1>2, <1>3, <3>2, <3>3, ContShape
    <3>5. Relinked(u, v)
      BY <3>2, <3>4 DEF Relinked
    <3>6. Joined(u, c, k, Null, v)
      BY <1>3, <3>2, <3>3, <3>4, <3>5 DEF Joined, Free
    <3> QED BY <2>1, <3>6 DEF IsLast
  <2>2. CASE u.first[k] # Null
    <3> DEFINE l == Last(Members(u, k))
    <3>1. IsLast(u, k, l)
      BY <1>3, <2>2, MembersLast
    <3>2. t = Link(u, l, c)
      BY <2>2
    <3> HIDE DEF t, l
    <3>3. l \in Alive(u) /\ l \in Cells /\ l # Null /\ ~Loose(u, l)
      BY <2>2, <3>1 DEF IsLast, Alive
    <3>4. l # c
      <4>1. Home(u, c) \in Cells \cup {Ground} /\ c \in Alive(u)
        BY <1>3, HomeOfAlive DEF Free
      <4>2. Loose(u, c)
        BY <1>3, <4>1 DEF Free, Loose
      <4> QED BY <3>3, <4>2
    <3>5. /\ Relinked(u, t)
          /\ SameConts(u, t)
          /\ t.first = u.first
          /\ \A x \in Cells :
               /\ t.obj[x].next = IF x = c THEN Null ELSE IF x = l THEN c ELSE u.obj[x].next
               /\ t.obj[x].prev = IF x = c THEN l ELSE u.obj[x].prev
      BY <1>3, <3>2, <3>3, <3>4, LinkShape
    <3>6. t \in Heaps /\ (k # Ground => t.obj[k].serial = u.obj[k].serial)
      BY <1>3, <3>5 DEF Relinked
    <3>7. q = ContOf(u, k) /\ q \in Owners
      BY <1>3, <3>6, HeapFields DEF ContOf, NoSerial, Owners
    <3> HIDE DEF q
    <3>8. /\ Relinked(t, v)
          /\ v.first = t.first
          /\ \A x \in Cells : /\ v.obj[x].next = t.obj[x].next
                              /\ v.obj[x].prev = t.obj[x].prev
                              /\ v.obj[x].cont = IF x = c THEN q ELSE t.obj[x].cont
      BY <1>2, <1>3, <3>6, <3>7, ContShape
    <3>9. Relinked(u, v)
      BY <3>5, <3>8 DEF Relinked
    <3>10. Joined(u, c, k, l, v)
      BY <1>3, <3>3, <3>4, <3>5, <3>7, <3>8, <3>9 DEF Joined, Free, SameConts
    <3> QED BY <3>1, <3>10
  <2> QED BY <2>1, <2>2
<1> HIDE DEF t, q
<1> QED BY <1>1, <1>5, JoinedMoved

(* Nothing is said of the order, everything of who lies where. *)
Reordered(w, v) ==
  /\ Sound(v)
  /\ Kin(w, v)
  /\ \A x \in Alive(w) : /\ v.obj[x].cont = w.obj[x].cont
                         /\ Home(v, x) = Home(w, x)
                         /\ Loose(v, x) <=> Loose(w, x)

(* The last of the list that c is in, when c is not the last. *)
LEMMA LastAfter ==
  ASSUME NEW w, Sound(w), NEW c \in Alive(w), w.obj[c].next # Null,
         NEW l, l = Last(Chain(w, w.obj[c].next))
  PROVE  /\ l \in Alive(w) /\ l # c /\ w.obj[l].next = Null /\ ~Loose(w, l)
         /\ Home(w, l) = Home(w, c)
<1> DEFINE n == w.obj[c].next
           s == Chain(w, n)
           m == Len(s)
<1>1. n \in Alive(w) /\ w.obj[n].prev = c /\ w.obj[n].cont = w.obj[c].cont /\ c # Null
  BY DEF Sound, NextsSound, Alive
<1>2. RestOfList(w, n, s)
  BY <1>1, ChainFacts
<1>3. l = s[m]
  BY DEF Last
<1> HIDE DEF n, s
<1>4. m \in Nat /\ m >= 1 /\ m \in 1..m /\ s[1] = n
  BY <1>2 DEF RestOfList
<1>5. l \in Alive(w) /\ w.obj[l].next = Null /\ w.obj[l].cont = w.obj[n].cont /\ l # c
  BY <1>1, <1>2, <1>3, <1>4 DEF RestOfList
<1>6. Home(w, l) = Home(w, c)
  BY <1>1, <1>5 DEF Home
<1>7. w.obj[l].prev # Null
  <2>1. CASE m = 1
    BY <1>1, <1>3, <1>4, <2>1
  <2>2. CASE m # 1
    <3>1. m - 1 \in 1..m /\ m - 1 # m /\ (m - 1) + 1 = m
      <4> HIDE DEF m
      <4> QED BY <1>4, <2>2
    <3>2. s[m - 1] \in Alive(w) /\ w.obj[s[m - 1]].next = l
      BY <1>2, <1>3, <3>1 DEF RestOfList
    <3> QED BY <1>5, <3>2 DEF Sound, NextsSound, Alive
  <2> QED BY <2>1, <2>2
<1> QED BY <1>5, <1>6, <1>7 DEF Loose

LEMMA MoveToTopReorders ==
  ASSUME NEW w, Sound(w), NEW c \in Alive(w), NEW v, v = MoveToTop(w, c)
  PROVE  Reordered(w, v)
<1> DEFINE k == Home(w, c)
           n == w.obj[c].next
           p == w.obj[c].prev
           l == Last(Chain(w, n))
           u == IF p = Null THEN PopFirst(w, k, n) ELSE Bypass(w, c)
           r == RemoveFromContainer(w, c)
<1>1. /\ c \in Cells /\ c # Null /\ w \in Heaps /\ n \in Pointers /\ p \in Pointers
      /\ k \in Keepers(w) /\ k # Null /\ k \in Cells \cup {Ground} /\ Alive(w) \subseteq Cells
  BY HomeOfAlive, HeapFields DEF Sound, Alive
<1>2. CASE n = Null
  <2>1. v = w
    BY <1>2 DEF MoveToTop
  <2> QED BY <1>1, <2>1 DEF Reordered, Kin
<1>3. CASE n # Null
  <2>1. v = Link(u, l, c)
    BY <1>1, <1>3 DEF MoveToTop
  <2>2. l \in Alive(w) /\ l # c /\ w.obj[l].next = Null /\ ~Loose(w, l) /\ Home(w, l) = k
    BY <1>3, LastAfter
  <2>3. Unlinked(w, c, r)
    BY RemoveShape
  <2>4. /\ \A x \in Cells : (w.obj[x].next = c) <=> (x = p)
        /\ \A x \in Cells : (w.obj[x].prev = c) <=> (x = n)
        /\ \A j \in Cells \cup {Ground} : w.first[j] = c => j = k
    BY Neighbours
  <2>5. p = Null => w.first[k] = c
    BY <1>3 DEF Sound, LooseSound, Loose
  <2>6. p # Null => w.first[k] # c
    BY <1>1 DEF Sound, FirstsSound
  <2>7. w.first[k] # Null
    BY <1>3, FirstExists
  <2>8. n \in Alive(w) /\ n # c
    BY <1>3, NotOwnNeighbour DEF Sound, NextsSound
  <2>9. Apart(w, c, k)
    BY ApartFromHome
  <2>10. k # Ground => w.obj[k].serial = w.obj[c].cont
    BY HomeOfAlive
  <2>11. k = Ground <=> w.obj[c].cont = NoSerial
    BY HomeOfAlive
  <2>12. /\ Relinked(w, u) /\ SameConts(w, u)
         /\ \A j \in Cells \cup {Ground} : u.first[j] = IF w.first[j] = c THEN n ELSE w.first[j]
         /\ \A x \in Cells :
              /\ u.obj[x].next = IF x = p THEN n ELSE w.obj[x].next
              /\ u.obj[x].prev = IF x = n THEN p ELSE w.obj[x].prev
    <3>1. CASE p = Null
      <4>1. u = PopFirst(w, k, n)
        BY <3>1
      <4> HIDE DEF u, k
      <4>2. /\ Relinked(w, u) /\ SameConts(w, u)
            /\ \A j \in Cells \cup {Ground} : u.first[j] = IF j = k THEN n ELSE w.first[j]
            /\ \A x \in Cells :
                 /\ u.obj[x].next = w.obj[x].next
                 /\ u.obj[x].prev = IF x = n THEN Null ELSE w.obj[x].prev
        BY <1>1, <4>1, PopShape
      <4> QED BY <1>1, <2>4, <2>5, <3>1, <4>2
    <3>2. CASE p # Null
      <4>1. u = Bypass(w, c)
        BY <3>2
      <4> HIDE DEF u, k
      <4>2. /\ Relinked(w, u) /\ SameConts(w, u) /\ u.first = w.first
            /\ \A x \in Cells :
                 /\ u.obj[x].next = IF x = p THEN n ELSE w.obj[x].next
                 /\ u.obj[x].prev = IF x = n THEN p ELSE w.obj[x].prev
        BY <1>1, <4>1, BypassShape
      <4> QED BY <1>1, <2>4, <2>6, <3>2, <4>2
    <3> QED BY <3>1, <3>2
  <2> HIDE DEF u, l, r, k
  <2>13. /\ Relinked(u, v) /\ SameConts(u, v) /\ v.first = u.first
         /\ \A x \in Cells :
              /\ v.obj[x].next = IF x = c THEN Null ELSE IF x = l THEN c ELSE u.obj[x].next
              /\ v.obj[x].prev = IF x = c THEN l ELSE u.obj[x].prev
    <3>1. u \in Heaps /\ l \in Cells
      BY <1>1, <2>2, <2>12 DEF Relinked
    <3> QED BY <1>1, <2>1, <2>2, <3>1, LinkShape
  <2>14. /\ Alive(r) = Alive(w) /\ \A x \in Alive(w) \ {c} : Home(r, x) = Home(w, x)
         /\ \A x \in Alive(w) \ {c} : Loose(r, x) <=> Loose(w, x)
    BY <2>3, UnlinkedLinks
  <2>15. IsLast(r, k, l)
    <3>1. r.first[k] # Null
      BY <1>1, <1>3, <2>3, <2>7 DEF Unlinked
    <3>2. r.obj[l].next = Null
      BY <1>1, <2>2, <2>3 DEF Unlinked
    <3> QED BY <2>2, <2>14, <3>1, <3>2 DEF IsLast
  <2>16. Joined(r, c, k, l, v)
    <3>1. Relinked(r, v)
      BY <2>3, <2>12, <2>13 DEF Relinked, Unlinked
    <3>2. \A j \in Cells \cup {Ground} : v.first[j] = IF j = k /\ l = Null THEN c ELSE r.first[j]
      BY <1>1, <2>2, <2>3, <2>12, <2>13 DEF Unlinked
    <3>3. ContOf(r, k) = w.obj[c].cont
      BY <1>1, <2>3, <2>10, <2>11 DEF ContOf, Unlinked, Relinked
    <3>4. \A x \in Cells : v.obj[x].cont = IF x = c THEN ContOf(r, k) ELSE r.obj[x].cont
      BY <2>3, <2>12, <2>13, <3>3 DEF Unlinked, SameConts
    <3>5. \A x \in Cells : v.obj[x].prev = IF x = c THEN l ELSE r.obj[x].prev
      BY <1>1, <2>3, <2>4, <2>8, <2>12, <2>13 DEF Unlinked
    <3>6. \A x \in Cells : v.obj[x].next = IF x = l THEN c ELSE r.obj[x].next
      BY <1>1, <2>2, <2>3, <2>4, <2>8, <2>12, <2>13 DEF Unlinked
    <3> QED BY <3>1, <3>2, <3>4, <3>5, <3>6 DEF Joined
  <2>17. Moved(w, c, k, v)
    BY <1>1, <2>3, <2>9, <2>15, <2>16, JoinedMoved
  <2>18. ~Loose(w, c) /\ Home(w, c) = k /\ ContOf(w, k) = w.obj[c].cont
    <3>1. ~Loose(w, c)
      BY <1>3 DEF Sound, LooseSound
    <3> QED BY <2>10, <2>11, <3>1 DEF k, ContOf
  <2> QED BY <2>17, <2>18 DEF Moved, Reordered
<1> QED BY <1>2, <1>3

-----------------------------------------------------------------------------
(* What lies in an object.                                                 *)

LEMMA MembersType ==
  ASSUME NEW w \in Heaps, NEW k \in Cells \cup {Ground}
  PROVE  ToSet(Members(w, k)) \subseteq Cells
<1> DEFINE s == Members(w, k)
<1>1. s \in Seq(Cells)
  <2>1. w.first[k] \in Pointers /\ Size \in 0..Size
    BY HeapFields, SizeNat
  <2>2. Walk(w)[Size] \in [Pointers -> Seq(Cells)]
    BY <2>1, WalkRun
  <2> QED BY <2>1, <2>2 DEF Members, Chain, Size
<1> HIDE DEF s
<1>2. ToSet(s) \subseteq Cells
  BY <1>1 DEF ToSet
<1> QED BY <1>2 DEF s

LEMMA ContentType ==
  ASSUME NEW w \in Heaps, NEW S \in SUBSET Cells
  PROVE  Content(w, S) \subseteq Cells
BY MembersType DEF Content

LEMMA SpreadRun ==
  ASSUME NEW w \in Heaps
  PROVE  /\ \A S \in SUBSET Cells : Spread(w)[0][S] = S
         /\ \A n \in 1..Size, S \in SUBSET Cells :
              Spread(w)[n][S] = Spread(w)[n - 1][S \cup Content(w, S)]
<1> DEFINE V == [SUBSET Cells -> SUBSET Cells]
           first == [S \in SUBSET Cells |-> S]
           wider(g) == [S \in SUBSET Cells |-> g[S \cup Content(w, S)]]
           step == [n \in 1..Size |-> [g \in V |-> wider(g)]]
           body(g, n) == [S \in SUBSET Cells |->
                            IF n = 0 THEN S ELSE g[n - 1][S \cup Content(w, S)]]
           Spreads(f) == f = [n \in 0..Size |-> body(f, n)]
           A == Spread(w)
<1>1. first \in V
  OBVIOUS
<1>2. ASSUME NEW g \in V PROVE wider(g) \in V
  BY ContentType
<1>3. step \in [1..Size -> [V -> V]]
  <2> HIDE DEF wider, V
  <2> QED BY <1>2
<1>4. Size \in Nat
  BY SizeNat
<1>5. PICK f : IsRun(f, V, first, Size, step)
  <2> HIDE DEF first, step, V
  <2> QED BY <1>1, <1>3, <1>4, RunExists
<1>6. /\ f \in [0..Size -> V] /\ f[0] = first
      /\ \A n \in 1..Size : f[n] = wider(f[n - 1])
  <2>1. ASSUME NEW n \in 1..Size PROVE f[n] = wider(f[n - 1])
    <3>1. f[n - 1] \in V
      <4>1. n - 1 \in 0..Size
        BY <1>4
      <4> HIDE DEF V
      <4> QED BY <1>5, <4>1 DEF IsRun
    <3> HIDE DEF wider, V
    <3> QED BY <1>5, <3>1 DEF IsRun
  <2> HIDE DEF first, V, wider, step
  <2> QED BY <1>5, <2>1 DEF IsRun
<1>7. Spreads(f)
  <2>1. ASSUME NEW n \in 0..Size PROVE f[n] = body(f, n)
    <3>1. CASE n = 0
      BY <1>6, <3>1
    <3>2. CASE n # 0
      <4>1. n \in 1..Size /\ f[n] = wider(f[n - 1])
        <5> HIDE DEF wider
        <5> QED BY <1>4, <1>6, <3>2
      <4>2. wider(f[n - 1]) = body(f, n)
        BY <3>2
      <4> QED BY <4>1, <4>2
    <3> QED BY <3>1, <3>2
  <2>2. f = [n \in 0..Size |-> f[n]]
    <3> HIDE DEF V
    <3> QED BY <1>6
  <2> HIDE DEF body
  <2> QED BY <2>1, <2>2
<1>8. A = CHOOSE g : Spreads(g)
  BY DEF Spread, Size
<1>9. Spreads(A)
  <2> HIDE DEF Spreads, A
  <2> QED BY <1>7, <1>8
<1> HIDE DEF A
<1>10. ASSUME NEW n \in 0..Size, NEW S \in SUBSET Cells
       PROVE  A[n][S] = IF n = 0 THEN S ELSE A[n - 1][S \cup Content(w, S)]
  <2>1. A[n] = body(A, n)
    <3> HIDE DEF body
    <3> QED BY <1>9
  <2> QED BY <2>1
<1> QED
  <2>1. \A n \in 1..Size : n \in 0..Size /\ n # 0
    BY <1>4
  <2>2. 0 \in 0..Size
    BY <1>4
  <2> QED BY <1>10, <2>1, <2>2 DEF A

LEMMA ContentFacts ==
  ASSUME NEW w, Sound(w), NEW S \in SUBSET Alive(w)
  PROVE  Content(w, S) = {x \in Alive(w) : Home(w, x) \in S}
<1>1. \A k \in S : k \in Cells /\ k \in Cells \cup {Ground} /\ k # Ground
  BY DEF Alive
<1>2. Content(w, S) = UNION {Inmates(w, k) : k \in S}
  BY <1>1, MembersSet DEF Content
<1>3. \A x \in Alive(w) : Loose(w, x) => Home(w, x) = Ground
  BY DEF Sound, LooseSound, Home
<1> QED BY <1>1, <1>2, <1>3 DEF Inmates

(* D is c with all that is in it, in what is in it, ... *)
Branch(w, c, D) ==
  /\ D \in SUBSET Alive(w)
  /\ c \in D
  /\ \A x \in Alive(w) : x \in D <=> x = c \/ Home(w, x) \in D

(* R is S with more; how much more, or that there is no more. *)
Reached(w, n, S, R) ==
  /\ S \subseteq R /\ R \in SUBSET Alive(w)
  /\ \A E \in SUBSET Cells : S \subseteq E /\ Closed(w, E) => R \subseteq E
  /\ Closed(w, R) \/ Cardinality(R) >= n + Cardinality(S)

LEMMA SpreadReaches ==
  ASSUME NEW w, Sound(w)
  PROVE  \A n \in 0..Size : \A S \in SUBSET Alive(w) : Reached(w, n, S, Spread(w)[n][S])
<1> DEFINE P(n) == \A S \in SUBSET Alive(w) : Reached(w, n, S, Spread(w)[n][S])
           T == {n \in Nat : n <= Size => P(n)}
<1>1. w \in Heaps /\ Size \in Nat /\ Alive(w) \subseteq Cells
  BY SizeNat DEF Sound, Alive
<1>2. \A U \in SUBSET Alive(w) : IsFiniteSet(U) /\ Cardinality(U) \in Nat
  BY <1>1, SizeNat
<1>3. /\ \A S \in SUBSET Cells : Spread(w)[0][S] = S
      /\ \A n \in 1..Size, S \in SUBSET Cells :
           Spread(w)[n][S] = Spread(w)[n - 1][S \cup Content(w, S)]
  <2>1. w \in Heaps
    BY <1>1
  <2> QED BY <2>1, SpreadRun
<1>4. 0 \in T
  <2> SUFFICES ASSUME NEW S \in SUBSET Alive(w) PROVE Reached(w, 0, S, Spread(w)[0][S])
    OBVIOUS
  <2>1. Spread(w)[0][S] = S
    BY <1>1, <1>3
  <2>2. Cardinality(S) >= 0 + Cardinality(S)
    BY <1>2
  <2> QED BY <2>1, <2>2 DEF Reached
<1>5. ASSUME NEW n \in Nat, n \in T PROVE n + 1 \in T
  <2> SUFFICES ASSUME n + 1 <= Size, NEW S \in SUBSET Alive(w)
               PROVE  Reached(w, n + 1, S, Spread(w)[n + 1][S])
    OBVIOUS
  <2> DEFINE W == S \cup Content(w, S)
             R == Spread(w)[n][W]
  <2>1. n <= Size /\ n + 1 \in 1..Size /\ (n + 1) - 1 = n
    BY <1>1
  <2>2. P(n)
    <3> HIDE DEF P
    <3> QED BY <1>5, <2>1
  <2>3. Content(w, S) = {x \in Alive(w) : Home(w, x) \in S}
    BY ContentFacts
  <2>4. W \in SUBSET Alive(w) /\ S \subseteq W
    BY <2>3
  <2>5. Spread(w)[n + 1][S] = R
    <3>1. Spread(w)[n + 1][S] = Spread(w)[(n + 1) - 1][W]
      BY <1>1, <1>3, <2>1
    <3> QED BY <2>1, <3>1
  <2>6. \A E \in SUBSET Cells : S \subseteq E /\ Closed(w, E) => W \subseteq E
    BY <2>3 DEF Closed
  <2>7. Reached(w, n, W, R)
    <3> HIDE DEF W
    <3> QED BY <2>2, <2>4
  <2>8. Closed(w, R) \/ Cardinality(R) >= (n + 1) + Cardinality(S)
    <3>1. CASE W = S
      <4>1. Closed(w, S)
        BY <2>3, <3>1 DEF Closed
      <4>2. R \subseteq S
        BY <1>1, <2>6, <2>7, <3>1, <4>1 DEF Reached
      <4>3. R = S
        BY <2>4, <2>7, <4>2 DEF Reached
      <4> QED BY <4>1, <4>3
    <3>2. CASE W # S
      <4>1. IsFiniteSet(W) /\ Cardinality(W) \in Nat /\ Cardinality(S) \in Nat /\ IsFiniteSet(S)
        BY <1>2, <2>4
      <4>2. Cardinality(S) < Cardinality(W)
        <5> HIDE DEF W
        <5> QED BY <2>4, <3>2, <4>1, FS_Subset
      <4>3. R \in SUBSET Alive(w) /\ Cardinality(R) \in Nat
        BY <1>2, <2>7 DEF Reached
      <4>4. Closed(w, R) \/ Cardinality(R) >= n + Cardinality(W)
        BY <2>7 DEF Reached
      <4> HIDE DEF W, R
      <4> QED BY <4>1, <4>2, <4>3, <4>4
    <3> QED BY <3>1, <3>2
  <2>9. S \subseteq R /\ R \in SUBSET Alive(w)
        /\ \A E \in SUBSET Cells : S \subseteq E /\ Closed(w, E) => R \subseteq E
    <3> HIDE DEF W, R
    <3> QED BY <2>4, <2>6, <2>7 DEF Reached
  <2> HIDE DEF R
  <2> QED BY <2>5, <2>8, <2>9 DEF Reached
<1>6. Nat \subseteq T
  <2> HIDE DEF T
  <2> QED BY <1>4, <1>5, NatSetInduction
<1> QED
  <2> HIDE DEF P
  <2>1. \A n \in 0..Size : P(n)
    BY <1>1, <1>6
  <2> QED BY <2>1 DEF P

LEMMA SubtreeLeast ==
  ASSUME NEW w, Sound(w), NEW c \in Alive(w)
  PROVE  /\ Subtree(w, c) \in SUBSET Alive(w)
         /\ c \in Subtree(w, c)
         /\ Closed(w, Subtree(w, c))
         /\ \A E \in SUBSET Cells : c \in E /\ Closed(w, E) => Subtree(w, c) \subseteq E
<1> DEFINE R == Subtree(w, c)
<1>1. Size \in Nat /\ Size \in 0..Size
  BY SizeNat
<1>2. Reached(w, Size, {c}, R)
  <2>1. {c} \in SUBSET Alive(w) /\ R = Spread(w)[Size][{c}]
    BY DEF Subtree, Size
  <2> HIDE DEF R
  <2> QED BY <1>1, <2>1, SpreadReaches
<1> HIDE DEF R
<1>3. R \in SUBSET Alive(w) /\ R \in SUBSET Cells /\ Cardinality({c}) = 1
  BY <1>2, FS_Singleton DEF Reached, Alive
<1>4. Cardinality(R) <= Size /\ Cardinality(R) \in Nat
  BY <1>3, SizeNat
<1>5. Closed(w, R)
  BY <1>1, <1>2, <1>3, <1>4 DEF Reached
<1> QED BY <1>2, <1>3, <1>5 DEF Reached, R

LEMMA SubtreeBranch ==
  ASSUME NEW w, Sound(w), NEW c \in Alive(w)
  PROVE  Branch(w, c, Subtree(w, c))
<1> DEFINE D == Subtree(w, c)
<1>1. /\ D \in SUBSET Alive(w) /\ c \in D /\ Closed(w, D) /\ Alive(w) \subseteq Cells
      /\ \A E \in SUBSET Cells : c \in E /\ Closed(w, E) => D \subseteq E
  BY SubtreeLeast DEF Alive
<1> HIDE DEF D
<1>2. ASSUME NEW x \in D, x # c, Home(w, x) \notin D PROVE FALSE
  <2>1. Closed(w, D \ {x})
    BY <1>1, <1>2 DEF Closed
  <2>2. D \ {x} \in SUBSET Cells /\ c \in D \ {x}
    BY <1>1, <1>2
  <2> QED BY <1>1, <2>1, <2>2
<1>3. \A x \in Alive(w) : x \in D <=> x = c \/ Home(w, x) \in D
  BY <1>1, <1>2 DEF Closed
<1> QED BY <1>1, <1>3 DEF Branch, D

-----------------------------------------------------------------------------
(* RemoveObject.                                                           *)

(* Some are gone, the others are where they were. *)
Pruned(w, v) ==
  /\ Sound(v)
  /\ Alive(v) \subseteq Alive(w)
  /\ \A s \in Serials : v.map[s] = IF w.map[s] \in Alive(v) THEN w.map[s] ELSE Null
  /\ \A x \in Alive(v) : /\ v.obj[x].serial = w.obj[x].serial
                         /\ v.obj[x].cont = w.obj[x].cont
                         /\ Home(v, x) = Home(w, x)
                         /\ Loose(v, x) <=> Loose(w, x)

(* What Delete writes when D dies. *)
Deleted(w, D, v) ==
  /\ v \in Heaps
  /\ \A x \in Cells : v.obj[x] = IF x \in D THEN NoObject ELSE w.obj[x]
  /\ \A k \in Cells \cup {Ground} : v.first[k] = IF k \in D THEN Null ELSE w.first[k]
  /\ \A s \in Serials :
       v.map[s] = IF \E x \in D : w.obj[x].serial = s THEN Null ELSE w.map[s]

LEMMA NoObjectFields ==
  /\ NoObject \in Object
  /\ NoObject.live = FALSE /\ NoObject.cont = NoSerial /\ NoObject.serial = NoSerial
  /\ NoObject.next = Null /\ NoObject.prev = Null /\ NoObject.layer = "none"
BY DEF NoObject, Object, NoSerial, Owners, Pointers, Layers

LEMMA DeleteShape ==
  ASSUME NEW w, Sound(w), NEW c \in Alive(w), NEW v, v = Delete(w, c)
  PROVE  Deleted(w, Subtree(w, c), v)
<1> DEFINE D == Subtree(w, c)
           obj == [x \in Cells |-> IF x \in D THEN NoObject ELSE w.obj[x]]
           first == [x \in Cells \cup {Ground} |-> IF x \in D THEN Null ELSE w.first[x]]
           map == [s \in Serials |-> IF \E x \in D : w.obj[x].serial = s THEN Null ELSE w.map[s]]
<1>1. v = [obj |-> obj, first |-> first, map |-> map]
  BY DEF Delete
<1> HIDE DEF D
<1>2. w \in Heaps /\ Null \in Pointers
  BY DEF Sound, Pointers
<1>3. obj \in [Cells -> Object] /\ first \in [Cells \cup {Ground} -> Pointers]
      /\ map \in [Serials -> Pointers]
  BY <1>2, NoObjectFields DEF Heaps
<1>4. v \in Heaps /\ v.obj = obj /\ v.first = first /\ v.map = map
  <2> HIDE DEF obj, first, map
  <2> QED BY <1>1, <1>3 DEF Heaps
<1> QED BY <1>4 DEF Deleted, D

LEMMA DeletedPruned ==
  ASSUME NEW w, Sound(w), NEW c, Free(w, c), NEW D, Branch(w, c, D), NEW v, Deleted(w, D, v)
  PROVE  Pruned(w, v) /\ Alive(v) = Alive(w) \ D
<1>1. c \in Alive(w) /\ c # Null /\ D \in SUBSET Alive(w) /\ D \in SUBSET Cells /\ v \in Heaps
      /\ \A x \in Alive(w) : x \in Cells /\ x # Null /\ x # Ground
  BY DEF Alive, Branch, Free, Deleted
<1>2. Alive(v) = Alive(w) \ D
  BY <1>1, NoObjectFields DEF Deleted, Alive
<1>3. \A x \in Alive(v) : x \in Alive(w) /\ x \notin D /\ x \in Cells /\ v.obj[x] = w.obj[x]
  BY <1>1, <1>2 DEF Deleted
<1>4. \A x \in Alive(v) : Home(w, x) \notin D
  BY <1>3 DEF Branch
<1>5. \A x, y \in Alive(w) : w.obj[x].serial = w.obj[y].serial => x = y
  BY DEF Sound, Mapped
<1>6. \A s \in Serials : v.map[s] = IF w.map[s] \in Alive(v) THEN w.map[s] ELSE Null
  <2> SUFFICES ASSUME NEW s \in Serials
               PROVE  v.map[s] = IF w.map[s] \in Alive(v) THEN w.map[s] ELSE Null
    OBVIOUS
  <2>1. CASE w.map[s] = Null
    BY <1>1, <1>3, <2>1 DEF Deleted
  <2>2. CASE w.map[s] # Null
    <3>1. w.map[s] \in Alive(w) /\ w.obj[w.map[s]].serial = s
      BY <2>2 DEF Sound, Mapped
    <3>2. (\E x \in D : w.obj[x].serial = s) <=> w.map[s] \in D
      BY <1>1, <1>5, <3>1
    <3> QED BY <1>2, <3>1, <3>2 DEF Deleted
  <2> QED BY <2>1, <2>2
<1>7. ASSUME NEW x \in Alive(v) PROVE Home(v, x) = Home(w, x)
  <2>1. x \in Alive(w) /\ v.obj[x].cont = w.obj[x].cont
    BY <1>3
  <2>2. CASE w.obj[x].cont = NoSerial
    BY <2>1, <2>2 DEF Home
  <2>3. CASE w.obj[x].cont # NoSerial
    <3>1. Home(w, x) \in Alive(w) /\ w.obj[x].cont \in Serials
          /\ Home(w, x) = w.map[w.obj[x].cont]
      <4>1. Home(w, x) # Ground /\ Home(w, x) \in Keepers(w)
        BY <2>1, <2>3, HomeOfAlive
      <4>2. w.obj[x].cont \in Owners
        BY <2>1, HeapFields DEF Sound, Alive
      <4> QED BY <2>3, <4>1, <4>2 DEF Keepers, Owners, NoSerial, Home, Find
    <3>2. Home(w, x) \in Alive(v)
      BY <1>2, <1>4, <3>1
    <3>3. v.map[w.obj[x].cont] = w.map[w.obj[x].cont]
      BY <1>6, <3>1, <3>2
    <3> QED BY <2>1, <2>3, <3>1, <3>3 DEF Home, Find
  <2> QED BY <2>2, <2>3
<1>8. \A x \in Alive(v) : w.obj[x].next # Null => w.obj[x].next \in Alive(v)
  <2> SUFFICES ASSUME NEW x \in Alive(v), w.obj[x].next # Null, w.obj[x].next \in D
               PROVE  FALSE
    BY <1>2, <1>3 DEF Sound, NextsSound
  <2> DEFINE y == w.obj[x].next
  <2>1. y \in Alive(w) /\ w.obj[y].prev = x /\ w.obj[y].cont = w.obj[x].cont
    BY <1>3 DEF Sound, NextsSound
  <2>2. y # c
    BY <1>1, <1>3, <2>1 DEF Free
  <2>3. Home(w, y) \in D /\ Home(w, y) = Home(w, x)
    BY <2>1, <2>2 DEF Branch, Home
  <2> QED BY <1>4, <2>3
<1>9. \A x \in Alive(v) : w.obj[x].prev # Null => w.obj[x].prev \in Alive(v)
  <2> SUFFICES ASSUME NEW x \in Alive(v), w.obj[x].prev # Null, w.obj[x].prev \in D
               PROVE  FALSE
    BY <1>2, <1>3 DEF Sound, PrevsSound
  <2> DEFINE y == w.obj[x].prev
  <2>1. y \in Alive(w) /\ w.obj[y].next = x /\ x # Null
    BY <1>1, <1>3 DEF Sound, PrevsSound
  <2>2. w.obj[y].cont = w.obj[x].cont
    BY <2>1 DEF Sound, NextsSound
  <2>3. y # c
    BY <2>1 DEF Free
  <2>4. Home(w, y) \in D /\ Home(w, y) = Home(w, x)
    BY <2>1, <2>2, <2>3 DEF Branch, Home
  <2> QED BY <1>4, <2>4
<1>10. \A k \in Keepers(v) : /\ k \in Keepers(w) /\ k \in Cells \cup {Ground}
                             /\ v.first[k] = w.first[k]
  BY <1>1, <1>2, <1>3 DEF Keepers, Deleted
<1>11. \A x \in Alive(v) : Home(v, x) \in Keepers(v)
  BY <1>2, <1>3, <1>4, <1>7 DEF Sound, Housed, Keepers
<1>12. \A x \in Alive(v) : Loose(v, x) <=> Loose(w, x)
  BY <1>3, <1>7, <1>10, <1>11 DEF Loose
<1>13. Buried(v)
  BY <1>1, <1>2, NoObjectFields DEF Sound, Buried, Deleted
<1>14. Mapped(v)
  <2>1. ASSUME NEW x \in Alive(v)
        PROVE  v.obj[x].serial \in Serials /\ v.map[v.obj[x].serial] = x
    BY <1>3, <1>6 DEF Sound, Mapped
  <2>2. ASSUME NEW s \in Serials, v.map[s] # Null
        PROVE  v.map[s] \in Alive(v) /\ v.obj[v.map[s]].serial = s
    BY <1>3, <1>6, <2>2 DEF Sound, Mapped
  <2> QED BY <2>1, <2>2 DEF Mapped
<1>15. FirstsSound(v)
  <2> SUFFICES ASSUME NEW k \in Keepers(v), v.first[k] # Null
               PROVE  /\ v.first[k] \in Alive(v) /\ v.obj[v.first[k]].prev = Null
                      /\ Home(v, v.first[k]) = k
    BY DEF FirstsSound
  <2> DEFINE y == w.first[k]
  <2>1. v.first[k] = y /\ y \in Alive(w) /\ w.obj[y].prev = Null /\ Home(w, y) = k
    BY <1>10 DEF Sound, FirstsSound
  <2>2. y \notin D
    <3>1. y # c
      BY <1>10 DEF Free
    <3>2. k \notin D
      BY <1>1, <1>2 DEF Keepers
    <3> QED BY <2>1, <3>1, <3>2 DEF Branch
  <2> QED BY <1>2, <1>3, <1>7, <2>1, <2>2
<1>16. NextsSound(v) /\ PrevsSound(v)
  BY <1>3, <1>8, <1>9 DEF Sound, NextsSound, PrevsSound
<1>17. LooseSound(v)
  BY <1>3, <1>12 DEF Sound, LooseSound
<1>18. ListsEnd(v)
  <2> SUFFICES ASSUME NEW S \in SUBSET Alive(v), S # {}
               PROVE  \E x \in S : v.obj[x].prev \notin S
    BY DEF ListsEnd
  <2>1. PICK x \in S : w.obj[x].prev \notin S
    <3>1. S \in SUBSET Alive(w)
      BY <1>3
    <3> QED BY <3>1 DEF Sound, ListsEnd
  <2> QED BY <1>3, <2>1
<1>19. HomesEnd(v)
  <2> SUFFICES ASSUME NEW S \in SUBSET Alive(v), S # {}
               PROVE  \E x \in S : Home(v, x) \notin S
    BY DEF HomesEnd
  <2>1. PICK x \in S : Home(w, x) \notin S
    <3>1. S \in SUBSET Alive(w)
      BY <1>3
    <3> QED BY <3>1 DEF Sound, HomesEnd
  <2> QED BY <1>7, <2>1
<1>20. Sound(v)
  BY <1>1, <1>11, <1>13, <1>14, <1>15, <1>16, <1>17, <1>18, <1>19 DEF Sound, Housed
<1> QED BY <1>2, <1>3, <1>6, <1>7, <1>12, <1>20 DEF Pruned

LEMMA RemovePruned ==
  ASSUME NEW w, Sound(w), NEW c \in Alive(w), NEW v, v = RemoveObject(w, c)
  PROVE  Pruned(w, v) /\ \E D : Branch(w, c, D) /\ Alive(v) = Alive(w) \ D
<1> DEFINE u == RemoveFromContainer(w, c)
           D == Subtree(u, c)
<1>1. v = Delete(u, c)
  BY DEF RemoveObject
<1>2. Unlinked(w, c, u)
  BY RemoveShape
<1> HIDE DEF u
<1>3. Sound(u)
  BY <1>2, UnlinkedSound
<1>4. /\ Free(u, c) /\ Alive(u) = Alive(w)
      /\ \A x \in Alive(w) \ {c} : Home(u, x) = Home(w, x)
      /\ \A x \in Alive(w) \ {c} : Loose(u, x) <=> Loose(w, x)
  BY <1>2, UnlinkedLinks
<1>5. c \in Alive(u)
  BY <1>4
<1>6. Branch(u, c, D) /\ Deleted(u, D, v)
  BY <1>1, <1>3, <1>5, SubtreeBranch, DeleteShape
<1> HIDE DEF D
<1>7. Pruned(u, v) /\ Alive(v) = Alive(u) \ D
  BY <1>3, <1>4, <1>6, DeletedPruned
<1>8. Branch(w, c, D)
  BY <1>4, <1>6 DEF Branch
<1>9. \A x \in Alive(v) : x \in Alive(w) \ {c} /\ x \in Cells
  BY <1>4, <1>7, <1>8 DEF Branch, Alive
<1>10. \A x \in Alive(v) : /\ v.obj[x].serial = w.obj[x].serial
                           /\ v.obj[x].cont = w.obj[x].cont
  BY <1>2, <1>7, <1>9 DEF Pruned, Unlinked, Relinked
<1>11. u.map = w.map
  BY <1>2 DEF Unlinked, Relinked
<1>12. Pruned(w, v)
  BY <1>4, <1>7, <1>9, <1>10, <1>11 DEF Pruned
<1> QED BY <1>4, <1>7, <1>8, <1>12

-----------------------------------------------------------------------------
(* GetWorldItem and GetWorldCharacter.                                     *)

(* s is known in v; all that was in w is where it was. *)
Grown(w, s, v) ==
  /\ Sound(v)
  /\ v.map[s] \in Alive(v)
  /\ Alive(v) = Alive(w) \cup {v.map[s]}
  /\ \A t \in Serials \ {s} : v.map[t] = w.map[t]
  /\ \A x \in Alive(w) : /\ v.obj[x].serial = w.obj[x].serial
                         /\ v.obj[x].cont = w.obj[x].cont
                         /\ Home(v, x) = Home(w, x)
                         /\ Loose(v, x) <=> Loose(w, x)
  /\ w.map[s] # Null => v = w
  /\ w.map[s] = Null => /\ v.map[s] \notin Alive(w)
                        /\ Home(v, v.map[s]) = Ground
                        /\ ~Loose(v, v.map[s])

(* There is an address for every serial. *)
LEMMA RoomForMore ==
  ASSUME NEW w, Sound(w), NEW s \in Serials, w.map[s] = Null
  PROVE  \E c \in Cells : ~w.obj[c].live
<1> SUFFICES ASSUME \A c \in Cells : w.obj[c].live PROVE FALSE
  OBVIOUS
<1>1. Alive(w) = Cells
  BY DEF Alive
<1> DEFINE S == Serials \ {s}
           f == [c \in Cells |-> w.obj[c].serial]
<1>2. \A c \in Cells : /\ w.obj[c].serial \in Serials /\ w.map[w.obj[c].serial] = c /\ c # Null
  BY <1>1 DEF Sound, Mapped
<1>3. f \in [Cells -> S]
  BY <1>2
<1>4. \A c, d \in Cells : f[c] = f[d] => c = d
  BY <1>2
<1>5. IsFiniteSet(S) /\ Cardinality(S) = Cardinality(Serials) - 1
      /\ Cardinality(Serials) \in Nat /\ Cardinality(Cells) \in Nat
  BY FS_RemoveElement, FS_CardinalityType
<1> HIDE DEF f, S
<1>6. Cardinality(S) < Cardinality(Cells)
  BY <1>5
<1>7. \A g \in [Cells -> S] : \E x, y \in Cells : x # y /\ g[x] = g[y]
  BY <1>5, <1>6, FS_PigeonHole
<1> QED BY <1>3, <1>4, <1>7

LEMMA NewShape ==
  ASSUME NEW w, Sound(w), NEW s \in Serials, w.map[s] = Null, NEW u, u = New(w, s)
  PROVE  \E c \in Cells :
           /\ ~w.obj[c].live
           /\ u \in Heaps /\ u.first = w.first
           /\ \A t \in Serials : u.map[t] = IF t = s THEN c ELSE w.map[t]
           /\ \A x \in Cells : x # c => u.obj[x] = w.obj[x]
           /\ u.obj[c].live /\ u.obj[c].serial = s /\ u.obj[c].cont = NoSerial
           /\ u.obj[c].next = Null /\ u.obj[c].prev = Null
<1> DEFINE free == {x \in Cells : ~w.obj[x].live}
           c == IF CellOf[s] \in free THEN CellOf[s] ELSE CHOOSE x \in free : TRUE
           o == [NoObject EXCEPT !.live = TRUE, !.serial = s]
           m == [w.map EXCEPT ![s] = c]
           t == ObjectSet(w, c, o)
<1>1. c \in free
  <2>1. free # {}
    BY RoomForMore
  <2> HIDE DEF free
  <2> QED BY <2>1
<1>2. u = [t EXCEPT !.map = m]
  BY DEF New, ObjectSet
<1>3. /\ o \in Object /\ o.live /\ o.serial = s /\ o.cont = NoSerial
      /\ o.next = Null /\ o.prev = Null
  <2>1. s \in Owners
    BY DEF Owners
  <2> QED BY <2>1, NoObjectFields DEF Object
<1> HIDE DEF o, c
<1>4. c \in Cells /\ ~w.obj[c].live /\ w \in Heaps
  BY <1>1 DEF Sound
<1> HIDE DEF t
<1>5. /\ t \in Heaps /\ t.map = w.map /\ t.first = w.first
      /\ \A x \in Cells : t.obj[x] = IF x = c THEN o ELSE w.obj[x]
  BY <1>3, <1>4, ObjectWritten DEF t
<1>6. m \in [Serials -> Pointers] /\ \A r \in Serials : m[r] = IF r = s THEN c ELSE w.map[r]
  BY <1>4 DEF Heaps, Pointers
<1> HIDE DEF m
<1>7. u \in Heaps /\ u.map = m /\ u.obj = t.obj /\ u.first = t.first
  BY <1>2, <1>5, <1>6 DEF Heaps
<1> QED BY <1>3, <1>4, <1>5, <1>6, <1>7

(* The new object, before it is added to the ground. *)
LEMMA NewSound ==
  ASSUME NEW w, Sound(w), NEW s \in Serials, w.map[s] = Null, NEW u, u = New(w, s)
  PROVE  /\ Sound(u)
         /\ u.map[s] \in Alive(u) \ Alive(w)
         /\ Alive(u) = Alive(w) \cup {u.map[s]}
         /\ Home(u, u.map[s]) = Ground
         /\ \A t \in Serials \ {s} : u.map[t] = w.map[t]
         /\ \A x \in Alive(w) : /\ u.obj[x] = w.obj[x]
                                /\ Home(u, x) = Home(w, x)
                                /\ Loose(u, x) <=> Loose(w, x)
<1>1. PICK c \in Cells :
           /\ ~w.obj[c].live
           /\ u \in Heaps /\ u.first = w.first
           /\ \A t \in Serials : u.map[t] = IF t = s THEN c ELSE w.map[t]
           /\ \A x \in Cells : x # c => u.obj[x] = w.obj[x]
           /\ u.obj[c].live /\ u.obj[c].serial = s /\ u.obj[c].cont = NoSerial
           /\ u.obj[c].next = Null /\ u.obj[c].prev = Null
  BY NewShape
<1>2. c # Null /\ c # Ground /\ c \notin Alive(w) /\ u.map[s] = c
      /\ Alive(w) \subseteq Cells /\ Null \notin Cells /\ Ground \notin Cells
  BY <1>1 DEF Alive
<1>3. Alive(u) = Alive(w) \cup {c}
  BY <1>1 DEF Alive
<1>4. Home(u, c) = Ground
  BY <1>1 DEF Home
<1>5. \A x \in Alive(w) : x # c /\ x # Null /\ u.obj[x] = w.obj[x]
  BY <1>1, <1>2
<1>6. \A x \in Alive(w) : Home(u, x) = Home(w, x)
  <2> SUFFICES ASSUME NEW x \in Alive(w) PROVE Home(u, x) = Home(w, x)
    OBVIOUS
  <2>1. CASE w.obj[x].cont = NoSerial
    BY <1>5, <2>1 DEF Home
  <2>2. CASE w.obj[x].cont # NoSerial
    <3>1. w.obj[x].cont \in Serials
      BY <2>2, HeapFields DEF Sound, Alive, Owners, NoSerial
    <3>2. Home(w, x) = w.map[w.obj[x].cont] /\ Home(w, x) # Null
      BY <2>2, <3>1, HomeOfAlive DEF Home, Find
    <3>3. w.obj[x].cont # s
      BY <3>2
    <3>4. u.map[w.obj[x].cont] = w.map[w.obj[x].cont]
      BY <1>1, <3>1, <3>3
    <3> QED BY <1>5, <2>2, <3>1, <3>2, <3>4 DEF Home, Find
  <2> QED BY <2>1, <2>2
<1>7. \A x \in Alive(w) : Loose(u, x) <=> Loose(w, x)
  BY <1>1, <1>5, <1>6 DEF Loose
<1>8. \A k \in Keepers(u) : /\ u.first[k] = w.first[k]
                            /\ k # c => k \in Keepers(w)
                            /\ k = c => w.first[k] = Null
  BY <1>1, <1>2, <1>3 DEF Keepers, Sound, Buried
<1>9. Buried(u)
  BY <1>1, <1>3 DEF Buried, Sound
<1>10. Mapped(u)
  <2>1. ASSUME NEW x \in Alive(u)
        PROVE  u.obj[x].serial \in Serials /\ u.map[u.obj[x].serial] = x
    <3>1. CASE x = c
      BY <1>1, <3>1
    <3>2. CASE x # c
      <4>1. x \in Alive(w) /\ u.obj[x] = w.obj[x] /\ x # Null
        BY <1>3, <1>5, <3>2
      <4>2. w.obj[x].serial \in Serials /\ w.map[w.obj[x].serial] = x
        BY <4>1 DEF Sound, Mapped
      <4> QED BY <1>1, <4>1, <4>2
    <3> QED BY <3>1, <3>2
  <2>2. ASSUME NEW t \in Serials, u.map[t] # Null
        PROVE  u.map[t] \in Alive(u) /\ u.obj[u.map[t]].serial = t
    <3>1. CASE t = s
      BY <1>1, <1>3, <3>1
    <3>2. CASE t # s
      <4>1. u.map[t] = w.map[t] /\ w.map[t] \in Alive(w) /\ w.obj[w.map[t]].serial = t
        BY <1>1, <2>2, <3>2 DEF Sound, Mapped
      <4> QED BY <1>3, <1>5, <4>1
    <3> QED BY <3>1, <3>2
  <2> QED BY <2>1, <2>2 DEF Mapped
<1>11. Housed(u)
  <2>1. Keepers(w) \subseteq Keepers(u) /\ Ground \in Keepers(u)
    BY <1>3 DEF Keepers
  <2>2. \A x \in Alive(w) : Home(w, x) \in Keepers(w)
    BY DEF Sound, Housed
  <2> QED BY <1>3, <1>4, <1>6, <2>1, <2>2 DEF Housed
<1>12. FirstsSound(u)
  <2> SUFFICES ASSUME NEW k \in Keepers(u), u.first[k] # Null
               PROVE  /\ u.first[k] \in Alive(u) /\ u.obj[u.first[k]].prev = Null
                      /\ Home(u, u.first[k]) = k
    BY DEF FirstsSound
  <2>1. k \in Keepers(w) /\ u.first[k] = w.first[k]
    BY <1>8
  <2>2. w.first[k] \in Alive(w) /\ w.obj[w.first[k]].prev = Null /\ Home(w, w.first[k]) = k
    BY <2>1 DEF Sound, FirstsSound
  <2> QED BY <1>3, <1>5, <1>6, <2>1, <2>2
<1>13. NextsSound(u)
  <2> SUFFICES ASSUME NEW x \in Alive(u), u.obj[x].next # Null
               PROVE  /\ u.obj[x].next \in Alive(u)
                      /\ u.obj[u.obj[x].next].prev = x
                      /\ u.obj[u.obj[x].next].cont = u.obj[x].cont
    BY DEF NextsSound
  <2>1. x \in Alive(w) /\ u.obj[x] = w.obj[x]
    BY <1>1, <1>3, <1>5
  <2> QED BY <1>3, <1>5, <2>1 DEF Sound, NextsSound
<1>14. PrevsSound(u)
  <2> SUFFICES ASSUME NEW x \in Alive(u), u.obj[x].prev # Null
               PROVE  u.obj[x].prev \in Alive(u) /\ u.obj[u.obj[x].prev].next = x
    BY DEF PrevsSound
  <2>1. x \in Alive(w) /\ u.obj[x] = w.obj[x]
    BY <1>1, <1>3, <1>5
  <2> QED BY <1>3, <1>5, <2>1 DEF Sound, PrevsSound
<1>15. LooseSound(u)
  BY <1>1, <1>3, <1>5, <1>7 DEF Sound, LooseSound
<1>16. ListsEnd(u)
  <2> SUFFICES ASSUME NEW S \in SUBSET Alive(u), S # {}
               PROVE  \E x \in S : u.obj[x].prev \notin S
    BY DEF ListsEnd
  <2>1. CASE c \in S
    <3>1. Null \notin S
      BY <1>2, <1>3, <1>5
    <3> QED BY <1>1, <2>1, <3>1
  <2>2. CASE c \notin S
    <3>1. S \in SUBSET Alive(w)
      BY <1>3, <2>2
    <3> QED BY <1>5, <3>1 DEF Sound, ListsEnd
  <2> QED BY <2>1, <2>2
<1>17. HomesEnd(u)
  <2> SUFFICES ASSUME NEW S \in SUBSET Alive(u), S # {}
               PROVE  \E x \in S : Home(u, x) \notin S
    BY DEF HomesEnd
  <2>1. CASE c \in S
    <3>1. Ground \notin S
      BY <1>2, <1>3
    <3> QED BY <1>4, <2>1, <3>1
  <2>2. CASE c \notin S
    <3>1. S \in SUBSET Alive(w)
      BY <1>3, <2>2
    <3> QED BY <1>6, <3>1 DEF Sound, HomesEnd
  <2> QED BY <2>1, <2>2
<1>18. Sound(u)
  BY <1>1, <1>9, <1>10, <1>11, <1>12, <1>13, <1>14, <1>15, <1>16, <1>17 DEF Sound
<1> QED BY <1>1, <1>2, <1>3, <1>4, <1>5, <1>6, <1>7, <1>18

LEMMA GetWorldGrown ==
  ASSUME NEW w, Sound(w), NEW s \in Serials, NEW v, v = GetWorld(w, s)
  PROVE  Grown(w, s, v)
<1>1. CASE w.map[s] # Null
  <2>1. v = w
    BY <1>1 DEF GetWorld
  <2>2. w.map[s] \in Alive(w)
    BY <1>1 DEF Sound, Mapped
  <2> QED BY <1>1, <2>1, <2>2 DEF Grown
<1>2. CASE w.map[s] = Null
  <2> DEFINE u == New(w, s)
             c == u.map[s]
  <2>1. v = Add(u, Ground, c)
    BY <1>2 DEF GetWorld
  <2>2. /\ Sound(u)
        /\ c \in Alive(u) \ Alive(w)
        /\ Alive(u) = Alive(w) \cup {c}
        /\ Home(u, c) = Ground
        /\ \A t \in Serials \ {s} : u.map[t] = w.map[t]
        /\ \A x \in Alive(w) : /\ u.obj[x] = w.obj[x]
                               /\ Home(u, x) = Home(w, x)
                               /\ Loose(u, x) <=> Loose(w, x)
    BY <1>2, NewSound
  <2> HIDE DEF u
  <2>3. Apart(u, c, Ground) /\ Ground \in Keepers(u)
    BY <2>2, ApartFromHome DEF Keepers
  <2>4. Moved(u, c, Ground, v)
    BY <2>1, <2>2, <2>3, AddMoved
  <2>5. v.map = u.map /\ Alive(v) = Alive(u) /\ Sound(v) /\ Home(v, c) = Ground /\ ~Loose(v, c)
    BY <2>4 DEF Moved, Kin
  <2>6. ASSUME NEW x \in Alive(w)
        PROVE  /\ v.obj[x].serial = w.obj[x].serial
               /\ v.obj[x].cont = w.obj[x].cont
               /\ Home(v, x) = Home(w, x)
               /\ Loose(v, x) <=> Loose(w, x)
    <3>1. x \in Alive(u) \ {c} /\ x \in Cells
      BY <2>2 DEF Alive
    <3>2. v.obj[x].serial = u.obj[x].serial
      BY <2>4, <3>1 DEF Moved, Kin
    <3> QED BY <2>2, <2>4, <3>1, <3>2 DEF Moved
  <2> QED BY <1>2, <2>2, <2>5, <2>6 DEF Grown
<1> QED BY <1>1, <1>2

-----------------------------------------------------------------------------
(* What the methods have in common.                                        *)

(* Only items are held or left in no list. *)
InGround(w) ==
  \A c \in Alive(w) : w.obj[c].serial \notin Items => w.obj[c].cont = NoSerial /\ ~Loose(w, c)

Good(w) == Sound(w) /\ InGround(w)

Strayed(w, s) == w.map[s] # Null /\ Loose(w, w.map[s])

(* The player, who lies in nothing, is still there. *)
Stays(w, v) == w.map[Player] # Null => v.map[Player] # Null

(* v is a good heap, and strands nobody that w has not. *)
Tidy(w, v) ==
  /\ Good(v)
  /\ Stays(w, v)
  /\ \A s \in Serials : Strayed(v, s) => Strayed(w, s)

LEMMA TidyRefl == ASSUME NEW w, Good(w) PROVE Tidy(w, w)
BY DEF Tidy, Stays

LEMMA TidyTrans ==
  ASSUME NEW w, NEW u, NEW v, Tidy(w, u), Tidy(u, v)
  PROVE  Tidy(w, v)
BY DEF Tidy, Stays

(* Whoever lies in nothing is spared. *)
GroundSpared(w, v) == \A x \in Alive(w) : Home(w, x) = Ground => x \in Alive(v)

LEMMA PrunedTidy ==
  ASSUME NEW w, Good(w), NEW v, Pruned(w, v),
         w.map[Player] # Null => w.map[Player] \in Alive(v)
  PROVE  Tidy(w, v)
<1>1. \A s \in Serials : v.map[s] # Null => v.map[s] = w.map[s] /\ v.map[s] \in Alive(v)
  BY DEF Pruned
<1>2. Stays(w, v)
  BY DEF Stays, Pruned, Serials
<1> QED BY <1>1, <1>2 DEF Pruned, Tidy, Good, InGround, Strayed

(* The player lies in nothing. *)
LEMMA PlayerOnGround ==
  ASSUME NEW w, Good(w), w.map[Player] # Null
  PROVE  /\ w.map[Player] \in Alive(w)
         /\ w.obj[w.map[Player]].serial = Player
         /\ Home(w, w.map[Player]) = Ground
<1>1. Player \in Serials /\ Player \notin Items
  BY DEF Serials
<1>2. w.map[Player] \in Alive(w) /\ w.obj[w.map[Player]].serial = Player
  BY <1>1 DEF Good, Sound, Mapped
<1> QED BY <1>1, <1>2 DEF Good, InGround, Home

LEMMA SparedTidy ==
  ASSUME NEW w, Good(w), NEW v, Pruned(w, v), GroundSpared(w, v)
  PROVE  Tidy(w, v)
BY PlayerOnGround, PrunedTidy DEF GroundSpared

LEMMA ReorderedTidy ==
  ASSUME NEW w, Good(w), NEW v, Reordered(w, v)
  PROVE  Tidy(w, v)
<1>1. \A s \in Serials : w.map[s] # Null => w.map[s] \in Alive(w)
  BY DEF Good, Sound, Mapped
<1>2. \A x \in Alive(w) : x \in Cells
  BY DEF Alive
<1> QED BY <1>1, <1>2 DEF Reordered, Kin, Tidy, Stays, Good, InGround, Strayed

LEMMA MovedTidy ==
  ASSUME NEW w, Good(w), NEW c \in Alive(w), NEW k, NEW v, Moved(w, c, k, v),
         w.obj[c].serial \in Items \/ k = Ground
  PROVE  Tidy(w, v)
<1>1. \A s \in Serials : w.map[s] # Null => w.map[s] \in Alive(w)
  BY DEF Good, Sound, Mapped
<1>2. \A x \in Alive(w) : x \in Cells
  BY DEF Alive
<1>3. Sound(v) /\ Alive(v) = Alive(w) /\ v.map = w.map
  BY DEF Moved, Kin
<1>4. InGround(v)
  <2> SUFFICES ASSUME NEW x \in Alive(w), v.obj[x].serial \notin Items
               PROVE  v.obj[x].cont = NoSerial /\ ~Loose(v, x)
    BY <1>3 DEF InGround
  <2>1. w.obj[x].serial \notin Items
    BY <1>2 DEF Moved, Kin
  <2>2. CASE x = c
    BY <2>1, <2>2 DEF Moved, ContOf
  <2>3. CASE x # c
    BY <2>1, <2>3 DEF Moved, Good, InGround
  <2> QED BY <2>2, <2>3
<1>5. ASSUME NEW s \in Serials, Strayed(v, s) PROVE Strayed(w, s)
  <2>1. w.map[s] # Null /\ w.map[s] \in Alive(w) /\ Loose(v, w.map[s])
    BY <1>1, <1>3, <1>5 DEF Strayed
  <2>2. w.map[s] # c
    BY <2>1 DEF Moved
  <2> QED BY <2>1, <2>2 DEF Moved, Strayed
<1> QED BY <1>3, <1>4, <1>5 DEF Tidy, Stays, Good

LEMMA GrownTidy ==
  ASSUME NEW w, Good(w), NEW s \in Serials, NEW v, Grown(w, s, v)
  PROVE  Tidy(w, v)
<1>1. CASE w.map[s] # Null
  BY <1>1, TidyRefl DEF Grown
<1>2. CASE w.map[s] = Null
  <2> DEFINE c == v.map[s]
  <2>1. Sound(v) /\ Alive(v) = Alive(w) \cup {c} /\ c \in Alive(v) /\ Home(v, c) = Ground /\ ~Loose(v, c)
    BY <1>2 DEF Grown
  <2>2. v.obj[c].cont = NoSerial
    BY <2>1, HomeOfAlive
  <2> HIDE DEF c
  <2>3. InGround(v)
    BY <2>1, <2>2 DEF Grown, InGround, Good
  <2>4. ASSUME NEW t \in Serials, Strayed(v, t) PROVE Strayed(w, t)
    <3>1. t # s
      BY <2>1, <2>4 DEF Strayed, c
    <3>2. v.map[t] = w.map[t] /\ w.map[t] # Null
      BY <2>4, <3>1 DEF Grown, Strayed
    <3>3. w.map[t] \in Alive(w)
      BY <3>2 DEF Good, Sound, Mapped
    <3> QED BY <2>4, <3>2, <3>3 DEF Grown, Strayed
  <2>5. Stays(w, v)
    BY <1>2 DEF Stays, Grown, Serials
  <2> QED BY <2>1, <2>3, <2>4, <2>5 DEF Tidy, Good
<1> QED BY <1>1, <1>2

LEMMA PrunedRefl ==
  ASSUME NEW w, Sound(w)
  PROVE  Pruned(w, w)
BY DEF Pruned, Sound, Mapped

LEMMA PrunedTrans ==
  ASSUME NEW w, NEW u, NEW v, Pruned(w, u), Pruned(u, v)
  PROVE  Pruned(w, v)
<1>1. \A x \in Alive(v) : x \in Alive(u) /\ x \in Alive(w) /\ x # Null
  BY DEF Pruned, Alive
<1>2. ASSUME NEW s \in Serials
      PROVE  v.map[s] = IF w.map[s] \in Alive(v) THEN w.map[s] ELSE Null
  <2>1. v.map[s] = IF u.map[s] \in Alive(v) THEN u.map[s] ELSE Null
    BY DEF Pruned
  <2>2. u.map[s] = IF w.map[s] \in Alive(u) THEN w.map[s] ELSE Null
    BY DEF Pruned
  <2>3. Null \notin Alive(v)
    BY <1>1
  <2> QED BY <1>1, <2>1, <2>2, <2>3
<1> QED BY <1>1, <1>2 DEF Pruned

(* The layer is no part of the links. *)
LayerSet(w, c, l) == [w EXCEPT !.obj[c].layer = l]

LEMMA LayerReorders ==
  ASSUME NEW w, Sound(w), NEW c \in Alive(w), NEW l \in Layers, NEW v, v = LayerSet(w, c, l)
  PROVE  Reordered(w, v)
<1> DEFINE o == [w.obj[c] EXCEPT !.layer = l]
<1>1. w \in Heaps /\ c \in Cells /\ w.obj[c] \in Object
  BY DEF Sound, Alive, Heaps
<1>2. /\ o \in Object /\ o.live = w.obj[c].live /\ o.serial = w.obj[c].serial
      /\ o.cont = w.obj[c].cont /\ o.prev = w.obj[c].prev /\ o.next = w.obj[c].next
  BY <1>1 DEF Object
<1>3. v = ObjectSet(w, c, o)
  BY DEF ObjectSet, LayerSet
<1> HIDE DEF o
<1>4. /\ v \in Heaps /\ v.map = w.map /\ v.first = w.first
      /\ \A x \in Cells : v.obj[x] = IF x = c THEN o ELSE w.obj[x]
  BY <1>1, <1>2, <1>3, ObjectWritten
<1>5. \A x \in Cells : /\ v.obj[x].live = w.obj[x].live /\ v.obj[x].serial = w.obj[x].serial
                       /\ v.obj[x].cont = w.obj[x].cont /\ v.obj[x].prev = w.obj[x].prev
                       /\ v.obj[x].next = w.obj[x].next
  BY <1>2, <1>4
<1>6. Alive(v) = Alive(w)
  BY <1>5 DEF Alive
<1>7. \A x \in Cells : Home(v, x) = Home(w, x) /\ (Loose(v, x) <=> Loose(w, x))
  BY <1>4, <1>5 DEF Home, Find, Loose
<1>8. Keepers(v) = Keepers(w) /\ \A x \in Alive(w) : x \in Cells
  BY <1>6 DEF Keepers, Alive
<1>9. Buried(v)
  BY <1>4, <1>6 DEF Sound, Buried
<1>10. Mapped(v)
  BY <1>4, <1>5, <1>6, <1>8 DEF Sound, Mapped
<1>11. Housed(v)
  BY <1>6, <1>7, <1>8 DEF Sound, Housed
<1>12. FirstsSound(v)
  BY <1>4, <1>5, <1>6, <1>7, <1>8 DEF Sound, FirstsSound
<1>13. NextsSound(v) /\ PrevsSound(v) /\ LooseSound(v)
  BY <1>5, <1>6, <1>7, <1>8 DEF Sound, NextsSound, PrevsSound, LooseSound
<1>14. ListsEnd(v)
  <2> SUFFICES ASSUME NEW S \in SUBSET Alive(w), S # {}
               PROVE  \E x \in S : v.obj[x].prev \notin S
    BY <1>6 DEF ListsEnd
  <2>1. PICK x \in S : w.obj[x].prev \notin S
    BY DEF Sound, ListsEnd
  <2> QED BY <1>5, <1>8, <2>1
<1>15. HomesEnd(v)
  <2> SUFFICES ASSUME NEW S \in SUBSET Alive(w), S # {}
               PROVE  \E x \in S : Home(v, x) \notin S
    BY <1>6 DEF HomesEnd
  <2>1. PICK x \in S : Home(w, x) \notin S
    BY DEF Sound, HomesEnd
  <2> QED BY <1>7, <1>8, <2>1
<1>16. Sound(v)
  BY <1>4, <1>9, <1>10, <1>11, <1>12, <1>13, <1>14, <1>15 DEF Sound
<1> QED BY <1>4, <1>5, <1>6, <1>7, <1>8, <1>16 DEF Reordered, Kin

LEMMA MovedThenReordered ==
  ASSUME NEW w, NEW c \in Alive(w), NEW k, NEW u, Moved(w, c, k, u), NEW v, Reordered(u, v)
  PROVE  Moved(w, c, k, v)
<1>1. Alive(u) = Alive(w) /\ \A x \in Alive(w) : x \in Cells
  BY DEF Moved, Kin, Alive
<1>2. Kin(w, v)
  BY DEF Moved, Reordered, Kin
<1> QED BY <1>1, <1>2 DEF Moved, Reordered

LEMMA EquipMoved ==
  ASSUME NEW w, Sound(w), NEW c \in Alive(w), NEW k \in Keepers(w), Apart(w, c, k),
         NEW l \in Layers, NEW v, v = PutEquipment(w, c, k, l)
  PROVE  Moved(w, c, k, v)
<1> DEFINE u == Add(w, k, c)
<1>1. v = LayerSet(u, c, l)
  BY DEF PutEquipment, LayerSet
<1>2. Moved(w, c, k, u)
  BY AddMoved
<1> HIDE DEF u
<1>3. Sound(u) /\ c \in Alive(u)
  BY <1>2 DEF Moved, Kin
<1>4. Reordered(u, v)
  BY <1>1, <1>3, LayerReorders
<1> QED BY <1>2, <1>4, MovedThenReordered

-----------------------------------------------------------------------------
(* The loops that remove some of the objects they walk past.               *)

(* What goes with c is neither its owner nor what lies beside it. *)
LEMMA BranchBeside ==
  ASSUME NEW w, Sound(w), NEW c \in Alive(w), NEW D, Branch(w, c, D)
  PROVE  /\ Home(w, c) \notin D
         /\ \A x \in Alive(w) \ {c} : Home(w, x) = Home(w, c) => x \notin D
<1>1. D \in SUBSET Alive(w) /\ D # {} /\ c \in D
  BY DEF Branch
<1>2. PICK x \in D : Home(w, x) \notin D
  BY <1>1 DEF Sound, HomesEnd
<1>3. x = c
  BY <1>1, <1>2 DEF Branch
<1> QED BY <1>2, <1>3 DEF Branch

(* The loop over k's list has come past the first n of it. *)
Cleared(w, k, cells, gone, n, h) ==
  /\ Pruned(w, h)
  /\ k \in Keepers(h)
  /\ \A j \in 1..Len(cells) : j > n => cells[j] \in Alive(h)
  /\ \A j \in 1..Len(cells) : j <= n /\ cells[j] \in gone => cells[j] \notin Alive(h)
  /\ \A x \in Alive(w) :
       Home(w, x) = Ground /\ x \notin Inmates(w, k) \cap gone => x \in Alive(h)

LEMMA ClearedStep ==
  ASSUME NEW w, Sound(w), NEW k \in Keepers(w), NEW cells, cells = Members(w, k),
         NEW gone, NEW n \in 1..Len(cells), NEW h, Cleared(w, k, cells, gone, n - 1, h),
         NEW v, v = IF cells[n] \in gone THEN RemoveObject(h, cells[n]) ELSE h
  PROVE  Cleared(w, k, cells, gone, n, v)
<1> DEFINE m == Len(cells)
           c == cells[n]
<1>1. /\ k \in Cells \cup {Ground} /\ m \in Nat
      /\ \A i \in 1..m : cells[i] \in Inmates(w, k)
      /\ \A i, j \in 1..m : cells[i] = cells[j] => i = j
  <2>1. k \in Cells \cup {Ground}
    BY DEF Keepers, Alive
  <2> QED BY <2>1, MembersFacts
<1>2. /\ Pruned(w, h) /\ k \in Keepers(h)
      /\ \A j \in 1..m : j > n - 1 => cells[j] \in Alive(h)
      /\ \A j \in 1..m : j <= n - 1 /\ cells[j] \in gone => cells[j] \notin Alive(h)
      /\ \A x \in Alive(w) :
           Home(w, x) = Ground /\ x \notin Inmates(w, k) \cap gone => x \in Alive(h)
  BY DEF Cleared
<1> HIDE DEF m
<1>3. n \in 1..m /\ n \in Nat
  BY <1>1 DEF m
<1>4. c \in Alive(h) /\ \A j \in 1..m : j > n => cells[j] \in Alive(h) /\ cells[j] # c
  BY <1>1, <1>2, <1>3
<1>5. CASE c \notin gone
  <2>1. v = h
    BY <1>5
  <2>2. \A j \in 1..m : j <= n /\ cells[j] \in gone => cells[j] \notin Alive(h)
    BY <1>1, <1>2, <1>3, <1>5
  <2> QED BY <1>2, <1>4, <2>1, <2>2 DEF Cleared, m
<1>6. CASE c \in gone
  <2>1. v = RemoveObject(h, c) /\ Sound(h)
    BY <1>2, <1>6 DEF Pruned
  <2> HIDE DEF c
  <2>2. PICK D : Branch(h, c, D) /\ Alive(v) = Alive(h) \ D
    BY <1>4, <2>1, RemovePruned
  <2>3. Pruned(h, v)
    BY <1>4, <2>1, RemovePruned
  <2>4. Pruned(w, v)
    BY <1>2, <2>3, PrunedTrans
  <2>5. \A j \in 1..m : cells[j] \in Alive(h) => Home(h, cells[j]) = k
    BY <1>1, <1>2 DEF Pruned, Inmates
  <2>6. Home(h, c) = k
    BY <1>3, <1>4, <2>5 DEF c
  <2>7. k \notin D /\ \A j \in 1..m : j > n => cells[j] \notin D
    BY <1>4, <2>1, <2>2, <2>5, <2>6, BranchBeside
  <2>8. k \in Keepers(v)
    BY <1>2, <2>2, <2>7 DEF Keepers
  <2>9. \A j \in 1..m : j > n => cells[j] \in Alive(v)
    BY <1>4, <2>2, <2>7
  <2>10. c \notin Alive(v)
    BY <2>2 DEF Branch
  <2>11. \A j \in 1..m : j <= n /\ cells[j] \in gone => cells[j] \notin Alive(v)
    <3> SUFFICES ASSUME NEW j \in 1..m, j <= n, cells[j] \in gone PROVE cells[j] \notin Alive(v)
      OBVIOUS
    <3>1. CASE j = n
      BY <2>10, <3>1 DEF c
    <3>2. CASE j # n
      BY <1>1, <1>2, <1>3, <2>2, <3>2
    <3> QED BY <3>1, <3>2
  <2>12. ASSUME NEW x \in Alive(w), Home(w, x) = Ground, x \notin Inmates(w, k) \cap gone
         PROVE  x \in Alive(v)
    <3>1. x \in Alive(h) /\ Home(h, x) = Ground
      BY <1>2, <2>12 DEF Pruned
    <3>2. x # c
      BY <1>1, <1>3, <1>6, <2>12 DEF c
    <3>3. x \notin D
      BY <2>2, <3>1, <3>2 DEF Branch, Alive
    <3> QED BY <2>2, <3>1, <3>3
  <2> QED BY <2>4, <2>8, <2>9, <2>11, <2>12 DEF Cleared, m
<1> QED BY <1>5, <1>6

(* f is the loop, step by step. *)
Removes(w, cells, gone, f) ==
  /\ f[0] = w
  /\ \A n \in 1..Len(cells) :
       f[n] = IF cells[n] \in gone THEN RemoveObject(f[n - 1], cells[n]) ELSE f[n - 1]

LEMMA RemovesClears ==
  ASSUME NEW w, Sound(w), NEW k \in Keepers(w), NEW cells, cells = Members(w, k),
         NEW gone, NEW f, Removes(w, cells, gone, f)
  PROVE  \A n \in 0..Len(cells) : Cleared(w, k, cells, gone, n, f[n])
<1> DEFINE m == Len(cells)
           T == {n \in Nat : n <= m => Cleared(w, k, cells, gone, n, f[n])}
<1>1. /\ m \in Nat
      /\ \A i \in 1..m : cells[i] \in Alive(w)
  <2>1. k \in Cells \cup {Ground}
    BY DEF Keepers, Alive
  <2> QED BY <2>1, MembersFacts DEF Inmates
<1>2. 0 \in T
  <2>1. Pruned(w, f[0])
    BY PrunedRefl DEF Removes
  <2> QED BY <1>1, <2>1 DEF Cleared, Removes
<1>3. ASSUME NEW n \in Nat, n \in T
      PROVE  n + 1 \in T
  <2> SUFFICES ASSUME n + 1 <= m PROVE Cleared(w, k, cells, gone, n + 1, f[n + 1])
    OBVIOUS
  <2>1. n + 1 \in 1..m /\ (n + 1) - 1 = n /\ n <= m
    BY <1>1
  <2>2. Cleared(w, k, cells, gone, (n + 1) - 1, f[n])
    BY <1>3, <2>1
  <2>3. f[n + 1] = IF cells[n + 1] \in gone THEN RemoveObject(f[n], cells[n + 1]) ELSE f[n]
    BY <2>1 DEF Removes
  <2> QED BY <2>1, <2>2, <2>3, ClearedStep
<1>4. Nat \subseteq T
  <2> HIDE DEF T
  <2> QED BY <1>2, <1>3, NatSetInduction
<1> QED BY <1>1, <1>4

LEMMA RemovingRun ==
  ASSUME NEW w, Sound(w), NEW k \in Keepers(w), NEW cells, cells = Members(w, k), NEW gone
  PROVE  Removes(w, cells, gone, Removing(w, cells, gone))
<1> DEFINE m == Len(cells)
           V == {h \in Heaps : Sound(h)}
           one(h, i) == IF cells[i] \in gone THEN RemoveObject(h, cells[i]) ELSE h
           safe(h, i) == IF cells[i] \in Alive(h) THEN one(h, i) ELSE h
           step == [i \in 1..m |-> [h \in V |-> safe(h, i)]]
           body(f, n) == IF n = 0 THEN w
                         ELSE IF cells[n] \in gone THEN RemoveObject(f[n - 1], cells[n])
                         ELSE f[n - 1]
           Does(f) == f = [n \in 0..m |-> body(f, n)]
           A == Removing(w, cells, gone)
           T(f) == {n \in Nat : n <= m => Cleared(w, k, cells, gone, n, f[n])}
<1>1. /\ m \in Nat
      /\ \A i \in 1..m : cells[i] \in Alive(w)
  <2>1. k \in Cells \cup {Ground}
    BY DEF Keepers, Alive
  <2> QED BY <2>1, MembersFacts DEF Inmates
<1>2. w \in V
  BY DEF Sound
<1>3. ASSUME NEW h \in V, NEW i \in 1..m PROVE safe(h, i) \in V
  <2>1. CASE cells[i] \in Alive(h) /\ cells[i] \in gone
    <3>1. Sound(RemoveObject(h, cells[i]))
      BY <2>1, RemovePruned DEF Pruned
    <3>2. safe(h, i) = RemoveObject(h, cells[i])
      BY <2>1
    <3> QED BY <3>1, <3>2 DEF Sound
  <2>2. CASE ~(cells[i] \in Alive(h) /\ cells[i] \in gone)
    BY <2>2
  <2> QED BY <2>1, <2>2
<1>4. step \in [1..m -> [V -> V]]
  <2> HIDE DEF safe, V
  <2> QED BY <1>3
<1>5. PICK f : IsRun(f, V, w, m, step)
  <2> HIDE DEF m, step, V
  <2> QED BY <1>1, <1>2, <1>4, RunExists
<1>6. /\ f \in [0..m -> V] /\ f[0] = w
      /\ \A n \in 1..m : f[n] = safe(f[n - 1], n)
  <2>1. ASSUME NEW n \in 1..m PROVE f[n] = safe(f[n - 1], n)
    <3>1. f[n - 1] \in V
      <4>1. n - 1 \in 0..m
        BY <1>1
      <4> HIDE DEF V
      <4> QED BY <1>5, <4>1 DEF IsRun
    <3> HIDE DEF safe, V
    <3> QED BY <1>5, <3>1 DEF IsRun
  <2> HIDE DEF V, safe, step
  <2> QED BY <1>5, <2>1 DEF IsRun
<1>7. \A n \in 1..m : Cleared(w, k, cells, gone, n - 1, f[n - 1]) => f[n] = one(f[n - 1], n)
  <2> SUFFICES ASSUME NEW n \in 1..m, Cleared(w, k, cells, gone, n - 1, f[n - 1])
               PROVE  f[n] = one(f[n - 1], n)
    OBVIOUS
  <2>1. n > n - 1
    BY <1>1
  <2>2. cells[n] \in Alive(f[n - 1])
    BY <2>1 DEF Cleared
  <2> HIDE DEF one, V
  <2> QED BY <1>6, <2>2
<1>8. 0 \in T(f)
  <2>1. Pruned(w, w)
    BY PrunedRefl
  <2> HIDE DEF V, safe
  <2> QED BY <1>1, <1>6, <2>1 DEF Cleared
<1>9. ASSUME NEW n \in Nat, n \in T(f)
      PROVE  n + 1 \in T(f)
  <2> SUFFICES ASSUME n + 1 <= m PROVE Cleared(w, k, cells, gone, n + 1, f[n + 1])
    OBVIOUS
  <2>1. n + 1 \in 1..m /\ (n + 1) - 1 = n /\ n <= m
    BY <1>1
  <2>2. Cleared(w, k, cells, gone, (n + 1) - 1, f[n])
    BY <1>9, <2>1
  <2>3. f[n + 1] = one(f[n], n + 1)
    <3> HIDE DEF one
    <3> QED BY <1>7, <2>1, <2>2
  <2> QED BY <2>1, <2>2, <2>3, ClearedStep
<1>10. Nat \subseteq T(f)
  <2> HIDE DEF T
  <2> QED BY <1>8, <1>9, NatSetInduction
<1>11. \A n \in 1..m : f[n] = one(f[n - 1], n)
  <2> SUFFICES ASSUME NEW n \in 1..m PROVE f[n] = one(f[n - 1], n)
    OBVIOUS
  <2>1. n - 1 \in Nat /\ n - 1 <= m
    BY <1>1
  <2>2. Cleared(w, k, cells, gone, n - 1, f[n - 1])
    BY <1>10, <2>1
  <2> HIDE DEF one
  <2> QED BY <1>7, <2>2
<1>12. Does(f)
  <2>1. ASSUME NEW n \in 0..m PROVE f[n] = body(f, n)
    <3>1. CASE n = 0
      BY <1>6, <3>1
    <3>2. CASE n # 0
      <4>1. n \in 1..m
        BY <1>1, <3>2
      <4> QED BY <1>11, <3>2, <4>1
    <3> QED BY <3>1, <3>2
  <2>2. f = [n \in 0..m |-> f[n]]
    <3> HIDE DEF V
    <3> QED BY <1>6
  <2> HIDE DEF body
  <2> QED BY <2>1, <2>2
<1>13. A = CHOOSE g : Does(g)
  BY DEF Removing
<1>14. Does(A)
  <2> HIDE DEF Does, A
  <2> QED BY <1>12, <1>13
<1> HIDE DEF A
<1>15. \A n \in 0..m : A[n] = body(A, n)
  <2>1. A = [n \in 0..m |-> body(A, n)]
    BY <1>14
  <2> HIDE DEF body
  <2> QED BY <2>1
<1>16. A[0] = w
  BY <1>1, <1>15
<1>17. \A n \in 1..m : A[n] = IF cells[n] \in gone THEN RemoveObject(A[n - 1], cells[n]) ELSE A[n - 1]
  <2> SUFFICES ASSUME NEW n \in 1..m
               PROVE  A[n] = IF cells[n] \in gone THEN RemoveObject(A[n - 1], cells[n]) ELSE A[n - 1]
    OBVIOUS
  <2>1. n \in 0..m /\ n # 0
    BY <1>1
  <2> QED BY <1>15, <2>1
<1> QED BY <1>16, <1>17 DEF Removes, A

LEMMA RemoveThosePruned ==
  ASSUME NEW w, Sound(w), NEW k \in Keepers(w), NEW gone,
         NEW v, v = RemoveThose(w, Members(w, k), gone)
  PROVE  /\ Pruned(w, v)
         /\ k \in Keepers(v)
         /\ \A x \in Inmates(w, k) \cap gone : x \notin Alive(v)
         /\ \A x \in Alive(w) :
              Home(w, x) = Ground /\ x \notin Inmates(w, k) \cap gone => x \in Alive(v)
<1> DEFINE cells == Members(w, k)
           m == Len(cells)
<1>1. /\ m \in Nat
      /\ \A x \in Inmates(w, k) : \E i \in 1..m : cells[i] = x
  <2>1. k \in Cells \cup {Ground}
    BY DEF Keepers, Alive
  <2> QED BY <2>1, MembersFacts DEF Inmates
<1>2. Removes(w, cells, gone, Removing(w, cells, gone))
  BY RemovingRun
<1>3. Cleared(w, k, cells, gone, m, Removing(w, cells, gone)[m])
  BY <1>1, <1>2, RemovesClears
<1>4. v = Removing(w, cells, gone)[m]
  BY DEF RemoveThose
<1>5. Cleared(w, k, cells, gone, m, v)
  BY <1>3, <1>4
<1> HIDE DEF cells
<1>6. \A j \in 1..m : cells[j] \in gone => cells[j] \notin Alive(v)
  BY <1>1, <1>5 DEF Cleared
<1> QED BY <1>1, <1>5, <1>6 DEF Cleared

LEMMA RemoveSparesPlayer ==
  ASSUME NEW w, Good(w), NEW c \in Alive(w), w.obj[c].serial # Player,
         NEW v, v = RemoveObject(w, c)
  PROVE  Tidy(w, v)
<1>1. Pruned(w, v)
  BY RemovePruned DEF Good
<1>2. PICK D : Branch(w, c, D) /\ Alive(v) = Alive(w) \ D
  BY RemovePruned DEF Good
<1>3. ASSUME w.map[Player] # Null PROVE w.map[Player] \in Alive(v)
  <2> DEFINE p == w.map[Player]
  <2>1. p \in Alive(w) /\ p # c /\ Home(w, p) = Ground
    BY <1>3, PlayerOnGround
  <2> HIDE DEF p
  <2>2. p \notin D
    BY <1>2, <2>1 DEF Branch, Alive
  <2>3. p \in Alive(v)
    BY <1>2, <2>1, <2>2
  <2> QED BY <2>3 DEF p
<1> QED BY <1>1, <1>3, PrunedTidy

LEMMA FirstOfEmpty ==
  ASSUME NEW w, Sound(w), NEW k \in Keepers(w), Inmates(w, k) = {}
  PROVE  w.first[k] = Null
<1> SUFFICES ASSUME w.first[k] # Null PROVE FALSE
  OBVIOUS
<1>1. w.first[k] \in Alive(w) /\ Home(w, w.first[k]) = k
  BY DEF Sound, FirstsSound
<1>2. ~Loose(w, w.first[k])
  BY <1>1 DEF Loose
<1> QED BY <1>1, <1>2 DEF Inmates

LEMMA NothingWritten ==
  ASSUME NEW w \in Heaps, NEW k \in Cells \cup {Ground}, w.first[k] = Null
  PROVE  FirstSet(w, k, Null) = w
<1>1. [w.first EXCEPT ![k] = Null] = w.first
  BY DEF Heaps
<1> QED BY <1>1 DEF FirstSet, Heaps

LEMMA ClearPruned ==
  ASSUME NEW w, Sound(w), NEW c \in Alive(w), NEW v, v = Clear(w, c)
  PROVE  Pruned(w, v) /\ c \in Alive(v) /\ GroundSpared(w, v)
<1> DEFINE u == RemoveThose(w, Members(w, c), Cells)
<1>1. v = FirstSet(u, c, Null)
  BY DEF Clear, FirstSet
<1>2. c \in Keepers(w) /\ c \in Cells /\ c # Ground
  BY DEF Keepers, Alive
<1>3. Pruned(w, u) /\ c \in Keepers(u) /\ \A x \in Inmates(w, c) \cap Cells : x \notin Alive(u)
  BY <1>2, RemoveThosePruned
<1>s. \A x \in Alive(w) :
        Home(w, x) = Ground /\ x \notin Inmates(w, c) \cap Cells => x \in Alive(u)
  BY <1>2, RemoveThosePruned
<1> HIDE DEF u
<1>4. Sound(u) /\ c \in Alive(u)
  BY <1>2, <1>3 DEF Pruned, Keepers
<1>5. Inmates(u, c) = {}
  BY <1>3 DEF Pruned, Inmates, Alive
<1>6. u.first[c] = Null
  BY <1>3, <1>4, <1>5, FirstOfEmpty
<1>7. v = u
  BY <1>1, <1>2, <1>4, <1>6, NothingWritten DEF Sound
<1>8. GroundSpared(w, u)
  BY <1>2, <1>s DEF GroundSpared, Inmates
<1> QED BY <1>3, <1>4, <1>7, <1>8

LEMMA EmptyPruned ==
  ASSUME NEW w, Sound(w), NEW c \in Alive(w), NEW v, v = Empty(w, c)
  PROVE  Pruned(w, v) /\ c \in Alive(v) /\ GroundSpared(w, v)
<1>1. CASE w.obj[c].serial \in Corpses
  <2> DEFINE gone == {x \in Cells : w.obj[x].layer = "none"}
  <2>1. v = RemoveThose(w, Members(w, c), gone)
    BY <1>1 DEF Empty, ClearUnequipped
  <2> HIDE DEF gone
  <2>2. c \in Keepers(w) /\ c # Ground
    BY DEF Keepers, Alive
  <2>3. Pruned(w, v) /\ c \in Keepers(v)
    BY <2>1, <2>2, RemoveThosePruned
  <2>4. \A x \in Alive(w) : Home(w, x) = Ground /\ x \notin Inmates(w, c) \cap gone => x \in Alive(v)
    BY <2>1, <2>2, RemoveThosePruned
  <2>5. GroundSpared(w, v)
    BY <2>2, <2>4 DEF GroundSpared, Inmates
  <2> QED BY <2>2, <2>3, <2>5 DEF Keepers
<1>2. CASE w.obj[c].serial \notin Corpses
  <2>1. v = Clear(w, c)
    BY <1>2 DEF Empty
  <2> QED BY <2>1, ClearPruned
<1> QED BY <1>1, <1>2

-----------------------------------------------------------------------------
(* What the server tells of an object.                                     *)

LEMMA ApartFromGround ==
  ASSUME NEW w, NEW c \in Alive(w)
  PROVE  Apart(w, c, Ground)
BY DEF Apart, Closed, Alive

(* Where m_Map finds an object. *)
LEMMA Found ==
  ASSUME NEW w, Sound(w), NEW s \in Serials, w.map[s] # Null
  PROVE  /\ w.map[s] \in Alive(w) /\ w.map[s] \in Cells /\ w.map[s] \in Keepers(w)
         /\ w.obj[w.map[s]].serial = s
BY DEF Sound, Mapped, Keepers, Alive

LEMMA UpdateGameObjectTidy ==
  ASSUME NEW w, Good(w), NEW s \in Serials, NEW v, v = UpdateGameObject(w, s)
  PROVE  Tidy(w, v) /\ v.map[s] \in Alive(v)
<1> DEFINE u == IF w.map[s] = Null THEN GetWorld(w, s)
                ELSE IF w.obj[w.map[s]].cont # NoSerial THEN Add(w, Ground, w.map[s])
                ELSE w
<1>1. Tidy(w, u) /\ u.map[s] \in Alive(u)
  <2>1. CASE w.map[s] = Null
    <3>1. u = GetWorld(w, s)
      BY <2>1
    <3> HIDE DEF u
    <3>2. Grown(w, s, u)
      BY <3>1, GetWorldGrown DEF Good
    <3> QED BY <3>2, GrownTidy DEF Grown
  <2>2. CASE w.map[s] # Null /\ w.obj[w.map[s]].cont # NoSerial
    <3> DEFINE c == w.map[s]
    <3>1. u = Add(w, Ground, c)
      BY <2>2
    <3>2. c \in Alive(w) /\ Apart(w, c, Ground) /\ Ground \in Keepers(w)
      BY <2>2, Found, ApartFromGround DEF Good, Keepers
    <3> HIDE DEF u
    <3>3. Moved(w, c, Ground, u)
      BY <3>1, <3>2, AddMoved DEF Good
    <3>4. Tidy(w, u)
      BY <3>2, <3>3, MovedTidy
    <3> QED BY <3>2, <3>3, <3>4 DEF Moved, Kin
  <2>3. CASE w.map[s] # Null /\ w.obj[w.map[s]].cont = NoSerial
    <3>1. u = w
      BY <2>3
    <3> QED BY <2>3, <3>1, TidyRefl, Found DEF Good
  <2> QED BY <2>1, <2>2, <2>3
<1>2. v = MoveToTop(u, u.map[s])
  BY DEF UpdateGameObject
<1> HIDE DEF u
<1>3. Reordered(u, v)
  BY <1>1, <1>2, MoveToTopReorders DEF Tidy, Good
<1>4. Tidy(u, v)
  BY <1>1, <1>3, ReorderedTidy DEF Tidy
<1>5. v.map[s] \in Alive(v)
  BY <1>1, <1>3 DEF Reordered, Kin
<1> QED BY <1>1, <1>4, <1>5, TidyTrans

-----------------------------------------------------------------------------
(* UpdateContainedItem.                                                    *)

(* s may be put into k: k does not lie in it. *)
Fit(w, s, k) ==
  /\ k # s
  /\ w.map[s] # Null /\ Find(w, k) # Null => Apart(w, w.map[s], Find(w, k))

LEMMA MayHoldFits ==
  ASSUME NEW w, Sound(w), NEW s \in Serials, NEW k, MayHold(w, k, s)
  PROVE  Fit(w, s, k)
<1> SUFFICES ASSUME w.map[s] # Null, Find(w, k) # Null
             PROVE  Apart(w, w.map[s], Find(w, k))
  BY DEF Fit, MayHold
<1>1. w.map[s] \in Alive(w) /\ Find(w, s) = w.map[s]
  BY Found DEF Find
<1>2. Find(w, k) \notin Subtree(w, w.map[s])
  BY <1>1 DEF MayHold, Inside
<1>3. /\ Subtree(w, w.map[s]) \in SUBSET Alive(w)
      /\ w.map[s] \in Subtree(w, w.map[s])
      /\ Closed(w, Subtree(w, w.map[s]))
  BY <1>1, SubtreeLeast
<1>4. Subtree(w, w.map[s]) \in SUBSET Cells
  BY <1>3 DEF Alive
<1> QED BY <1>2, <1>3, <1>4 DEF Apart

LEMMA PrunedFit ==
  ASSUME NEW w, NEW v, Pruned(w, v), NEW s \in Serials, NEW k, Fit(w, s, k)
  PROVE  Fit(v, s, k)
<1> SUFFICES ASSUME v.map[s] # Null, Find(v, k) # Null
             PROVE  Apart(v, v.map[s], Find(v, k))
  BY DEF Fit
<1>1. v.map[s] = w.map[s] /\ Find(v, k) = Find(w, k)
  BY DEF Pruned, Find
<1>2. PICK D \in SUBSET Cells : Closed(w, D) /\ w.map[s] \in D /\ Find(w, k) \notin D
  BY <1>1 DEF Fit, Apart
<1>3. Closed(v, D)
  BY <1>2 DEF Closed, Pruned
<1> QED BY <1>1, <1>2, <1>3 DEF Apart

(* Who was apart from a fresh object's container stays so. *)
LEMMA GrownFit ==
  ASSUME NEW w, Sound(w), NEW s \in Serials, NEW u, Grown(w, s, u),
         NEW t \in Serials \ {s}, NEW k, k # s, Fit(w, t, k)
  PROVE  Fit(u, t, k)
<1> SUFFICES ASSUME u.map[t] # Null, Find(u, k) # Null
             PROVE  Apart(u, u.map[t], Find(u, k))
  BY DEF Fit
<1>1. u.map[t] = w.map[t] /\ Find(u, k) = Find(w, k)
  BY DEF Grown, Find
<1>2. PICK D \in SUBSET Cells : Closed(w, D) /\ w.map[t] \in D /\ Find(w, k) \notin D
  BY <1>1 DEF Fit, Apart
<1> DEFINE E == D \cap Alive(w)
<1>3. w.map[t] \in E
  BY <1>1, <1>2, Found
<1>4. Closed(u, E)
  <2> SUFFICES ASSUME NEW x \in Alive(u), Home(u, x) \in E PROVE x \in E
    BY DEF Closed
  <2>1. x \in Alive(w)
    <3> SUFFICES ASSUME x \notin Alive(w) PROVE FALSE
      OBVIOUS
    <3>1. x = u.map[s] /\ w.map[s] = Null
      BY DEF Grown
    <3>2. Home(u, x) = Ground
      BY <3>1 DEF Grown
    <3> QED BY <3>2 DEF Alive
  <2>2. Home(w, x) \in D
    BY <2>1 DEF Grown
  <2> QED BY <1>2, <2>1, <2>2 DEF Closed
<1>5. E \in SUBSET Cells /\ Find(w, k) \notin E
  BY <1>2
<1> HIDE DEF E
<1> QED BY <1>1, <1>3, <1>4, <1>5 DEF Apart

LEMMA MovedFit ==
  ASSUME NEW w, NEW c \in Alive(w), NEW t \in Serials, NEW k,
         NEW v, Moved(w, c, Find(w, k), v), Fit(w, t, k)
  PROVE  Fit(v, t, k)
<1> SUFFICES ASSUME v.map[t] # Null, Find(v, k) # Null
             PROVE  Apart(v, v.map[t], Find(v, k))
  BY DEF Fit
<1>1. v.map = w.map /\ Alive(v) = Alive(w)
  BY DEF Moved, Kin
<1>2. v.map[t] = w.map[t] /\ Find(v, k) = Find(w, k)
  BY <1>1 DEF Find
<1>3. PICK D \in SUBSET Cells : Closed(w, D) /\ w.map[t] \in D /\ Find(w, k) \notin D
  BY <1>2 DEF Fit, Apart
<1>4. Closed(v, D)
  BY <1>1, <1>3 DEF Closed, Moved
<1> QED BY <1>2, <1>3, <1>4 DEF Apart

LEMMA ReorderedFit ==
  ASSUME NEW w, NEW t \in Serials, NEW k, NEW v, Reordered(w, v), Fit(w, t, k)
  PROVE  Fit(v, t, k)
<1> SUFFICES ASSUME v.map[t] # Null, Find(v, k) # Null
             PROVE  Apart(v, v.map[t], Find(v, k))
  BY DEF Fit
<1>1. v.map = w.map /\ Alive(v) = Alive(w)
  BY DEF Reordered, Kin
<1>2. v.map[t] = w.map[t] /\ Find(v, k) = Find(w, k)
  BY <1>1 DEF Find
<1>3. PICK D \in SUBSET Cells : Closed(w, D) /\ w.map[t] \in D /\ Find(w, k) \notin D
  BY <1>2 DEF Fit, Apart
<1>4. Closed(v, D)
  BY <1>1, <1>3 DEF Closed, Reordered
<1> QED BY <1>2, <1>3, <1>4 DEF Apart

(* Once s is known, fresh or not, it may be added to k. *)
LEMMA GrownApart ==
  ASSUME NEW w, Sound(w), NEW s \in Serials, NEW u, Grown(w, s, u),
         NEW k \in Serials, w.map[k] # Null, Fit(w, s, k)
  PROVE  /\ u.map[s] \in Alive(u) /\ u.obj[u.map[s]].serial = s
         /\ u.map[k] = w.map[k] /\ u.map[k] \in Alive(u) /\ u.map[k] \in Keepers(u)
         /\ Apart(u, u.map[s], u.map[k])
<1> DEFINE c == u.map[s]
           K == w.map[k]
<1>1. K \in Alive(w) /\ K \in Cells
  BY Found
<1>2. Sound(u) /\ u.map[k] = K /\ K \in Alive(u) /\ K \in Keepers(u) /\ c \in Alive(u)
  BY <1>1 DEF Grown, Fit, Keepers
<1>3. u.obj[c].serial = s
  BY <1>2 DEF Sound, Mapped, Alive
<1>4. Apart(u, c, K)
  <2>1. CASE w.map[s] # Null
    <3>1. u = w
      BY <2>1 DEF Grown
    <3> QED BY <1>2, <2>1, <3>1 DEF Fit, Find
  <2>2. CASE w.map[s] = Null
    <3>1. c \notin Alive(w) /\ Home(u, c) = Ground /\ c # Ground /\ c \in Cells
      BY <1>2, <2>2 DEF Grown, Alive
    <3>2. Closed(u, {c})
      <4> SUFFICES ASSUME NEW x \in Alive(u), Home(u, x) = c PROVE x = c
        BY DEF Closed
      <4> SUFFICES ASSUME x # c PROVE FALSE
        OBVIOUS
      <4>1. x \in Alive(w) /\ Home(w, x) = c
        BY DEF Grown
      <4>2. c \in Keepers(w)
        BY <4>1 DEF Sound, Housed
      <4> QED BY <3>1, <4>2 DEF Keepers
    <3>3. K \notin {c}
      BY <1>1, <3>1
    <3> QED BY <3>1, <3>2, <3>3 DEF Apart
  <2> QED BY <2>1, <2>2
<1> QED BY <1>2, <1>3, <1>4

(* Who dies with c lies in it. *)
LEMMA BranchLeast ==
  ASSUME NEW w, Sound(w), NEW c \in Alive(w), NEW D, Branch(w, c, D),
         NEW E \in SUBSET Cells, Closed(w, E), c \in E
  PROVE  D \subseteq E
<1> SUFFICES ASSUME D \ E # {} PROVE FALSE
  OBVIOUS
<1>1. D \ E \in SUBSET Alive(w)
  BY DEF Branch
<1>2. PICK x \in D \ E : Home(w, x) \notin D \ E
  BY <1>1 DEF Sound, HomesEnd
<1>3. x \in Alive(w) /\ x # c /\ Home(w, x) \in D
  BY <1>1, <1>2 DEF Branch
<1>4. x \in E
  BY <1>2, <1>3 DEF Closed
<1> QED BY <1>2, <1>4

(* k outlives s when it does not lie in it. *)
LEMMA RemoveSpares ==
  ASSUME NEW w, Sound(w), NEW s \in Serials, w.map[s] # Null,
         NEW k \in Serials, w.map[k] # Null, Fit(w, s, k),
         NEW v, v = RemoveObject(w, w.map[s])
  PROVE  Pruned(w, v) /\ v.map[k] = w.map[k] /\ v.map[s] = Null
<1> DEFINE c == w.map[s]
<1>1. c \in Alive(w) /\ w.map[k] \in Alive(w)
  BY Found
<1>2. Pruned(w, v)
  BY <1>1, RemovePruned
<1>3. PICK D : Branch(w, c, D) /\ Alive(v) = Alive(w) \ D
  BY <1>1, RemovePruned
<1>4. PICK E \in SUBSET Cells : Closed(w, E) /\ c \in E /\ w.map[k] \notin E
  BY DEF Fit, Apart, Find
<1> HIDE DEF c
<1>5. D \subseteq E
  BY <1>1, <1>3, <1>4, BranchLeast
<1>6. w.map[k] \in Alive(v) /\ c \notin Alive(v)
  BY <1>1, <1>3, <1>4, <1>5 DEF Branch
<1> QED BY <1>2, <1>6 DEF Pruned, c

LEMMA UpdateContainedTidy ==
  ASSUME NEW w, Good(w), NEW s \in Items, NEW k, Fit(w, s, k),
         NEW v, v = UpdateContained(w, s, k)
  PROVE  /\ Tidy(w, v)
         /\ \A t \in Serials \ {s} : Fit(w, t, k) => Fit(v, t, k)
<1>1. CASE Find(w, k) = Null
  <2>1. v = w
    BY <1>1 DEF UpdateContained
  <2> QED BY <2>1, TidyRefl
<1>2. CASE Find(w, k) # Null
  <2> DEFINE stale == /\ w.map[s] # Null
                      /\ k \in Corpses => w.obj[w.map[s]].layer = "none"
             w1 == IF stale THEN RemoveObject(w, w.map[s]) ELSE w
             u == GetWorld(w1, s)
             c == u.map[s]
             a == Add(u, u.map[k], c)
  <2>1. v = MoveToTop(a, c)
    BY <1>2 DEF UpdateContained
  <2>2. k \in Serials /\ w.map[k] # Null /\ Find(w, k) = w.map[k] /\ s \in Serials
    BY <1>2 DEF Find, Serials
  <2>3. Pruned(w, w1) /\ w1.map[k] = w.map[k]
    <3>1. CASE stale
      <4> HIDE DEF stale
      <4>1. w1 = RemoveObject(w, w.map[s])
        BY <3>1
      <4> QED BY <2>2, <3>1, <4>1, RemoveSpares DEF Good, stale
    <3>2. CASE ~stale
      <4> HIDE DEF stale
      <4>1. w1 = w
        BY <3>2
      <4> QED BY <4>1, PrunedRefl DEF Good
    <3> QED BY <3>1, <3>2
  <2>4. \A t \in Serials : Fit(w, t, k) => Fit(w1, t, k)
    <3> HIDE DEF w1
    <3> QED BY <2>3, PrunedFit
  <2>5. Tidy(w, w1)
    <3>1. CASE stale
      <4>1. w.map[s] \in Alive(w) /\ w.obj[w.map[s]].serial = s /\ s # Player
        BY <2>2, <3>1, Found DEF Good
      <4>2. w1 = RemoveObject(w, w.map[s])
        BY <3>1
      <4> HIDE DEF w1, stale
      <4> QED BY <4>1, <4>2, RemoveSparesPlayer
    <3>2. CASE ~stale
      <4> HIDE DEF stale
      <4>1. w1 = w
        BY <3>2
      <4> QED BY <4>1, TidyRefl
    <3> QED BY <3>1, <3>2
  <2> HIDE DEF w1
  <2>6. Sound(w1) /\ Good(w1)
    BY <2>5 DEF Tidy, Good
  <2>7. Grown(w1, s, u)
    BY <2>2, <2>6, GetWorldGrown
  <2>8. Tidy(w1, u)
    BY <2>2, <2>6, <2>7, GrownTidy
  <2> HIDE DEF u
  <2>9. /\ c \in Alive(u) /\ u.obj[c].serial = s
        /\ u.map[k] = w.map[k] /\ u.map[k] \in Alive(u) /\ u.map[k] \in Keepers(u)
        /\ Apart(u, c, u.map[k])
    BY <2>2, <2>3, <2>4, <2>6, <2>7, GrownApart
  <2> HIDE DEF c
  <2>10. Good(u) /\ Sound(u)
    BY <2>8 DEF Tidy, Good
  <2>11. Moved(u, c, u.map[k], a)
    BY <2>9, <2>10, AddMoved
  <2> HIDE DEF a
  <2>12. Tidy(u, a)
    BY <2>9, <2>10, <2>11, MovedTidy
  <2>13. Sound(a) /\ Good(a) /\ c \in Alive(a)
    BY <2>9, <2>11, <2>12 DEF Moved, Kin, Tidy
  <2>14. Reordered(a, v)
    BY <2>1, <2>13, MoveToTopReorders
  <2>15. Tidy(a, v)
    BY <2>13, <2>14, ReorderedTidy
  <2>16. ASSUME NEW t \in Serials \ {s}, Fit(w, t, k) PROVE Fit(v, t, k)
    <3>1. Fit(w1, t, k)
      BY <2>4, <2>16
    <3>2. k # s
      BY DEF Fit
    <3>3. Fit(u, t, k)
      BY <2>2, <2>6, <2>7, <3>1, <3>2, GrownFit
    <3>4. Find(u, k) = u.map[k]
      BY <2>2 DEF Find
    <3>5. Fit(a, t, k)
      BY <2>9, <2>11, <3>3, <3>4, MovedFit
    <3> QED BY <2>14, <3>5, ReorderedFit
  <2>17. Tidy(w, u)
    BY <2>5, <2>8, TidyTrans
  <2>18. Tidy(w, a)
    BY <2>12, <2>17, TidyTrans
  <2>19. Tidy(w, v)
    BY <2>15, <2>18, TidyTrans
  <2> QED BY <2>16, <2>19
<1> QED BY <1>1, <1>2

LEMMA UpdateContainedItemsTidy ==
  ASSUME NEW w, Good(w), NEW k, NEW s \in Items, NEW t \in Items, s # t,
         Fit(w, s, k), Fit(w, t, k),
         NEW u, u = (IF Find(w, k) = Null THEN w ELSE Empty(w, w.map[k])),
         NEW v, v = UpdateContained(UpdateContained(u, s, k), t, k)
  PROVE  Tidy(w, v)
<1> DEFINE a == UpdateContained(u, s, k)
<1>1. s \in Serials /\ t \in Serials \ {s}
  BY DEF Serials
<1>2. Pruned(w, u) /\ Tidy(w, u)
  <2>1. CASE Find(w, k) = Null
    BY <2>1, PrunedRefl, TidyRefl DEF Good
  <2>2. CASE Find(w, k) # Null
    <3>1. k \in Serials /\ w.map[k] # Null
      BY <2>2 DEF Find
    <3>2. w.map[k] \in Alive(w)
      BY <3>1, Found DEF Good
    <3>3. Pruned(w, u) /\ GroundSpared(w, u)
      BY <2>2, <3>2, EmptyPruned DEF Good
    <3> QED BY <3>3, SparedTidy
  <2> QED BY <2>1, <2>2
<1>3. Fit(u, s, k) /\ Fit(u, t, k)
  BY <1>1, <1>2, PrunedFit
<1>4. Tidy(w, u)
  BY <1>2
<1>5. Tidy(u, a) /\ Fit(a, t, k)
  BY <1>1, <1>3, <1>4, UpdateContainedTidy DEF Tidy
<1> HIDE DEF a
<1>6. v = UpdateContained(a, t, k)
  BY DEF a
<1>7. Tidy(a, v)
  BY <1>5, <1>6, UpdateContainedTidy DEF Tidy
<1>8. Tidy(w, a)
  BY <1>4, <1>5, TidyTrans
<1> QED BY <1>7, <1>8, TidyTrans

-----------------------------------------------------------------------------
(* What is worn.                                                           *)

LEMMA EquipTidy ==
  ASSUME NEW w, Good(w), NEW s \in Items, w.map[s] # Null,
         NEW k \in Serials, w.map[k] # Null, Apart(w, w.map[s], w.map[k]),
         NEW layer \in Layers, NEW v, v = PutEquipment(w, w.map[s], w.map[k], layer)
  PROVE  Tidy(w, v) /\ v.map = w.map
<1>1. s \in Serials
  BY DEF Serials
<1>2. w.map[s] \in Alive(w) /\ w.obj[w.map[s]].serial = s /\ w.map[k] \in Keepers(w)
  BY <1>1, Found DEF Good
<1>3. Moved(w, w.map[s], w.map[k], v)
  BY <1>2, EquipMoved DEF Good
<1>4. Tidy(w, v)
  BY <1>2, <1>3, MovedTidy
<1> QED BY <1>3, <1>4 DEF Moved, Kin

EquipItemHeap(w, s, k, layer) ==
  LET u == GetWorld(w, s)
      c == u.map[s]
      v == IF w.map[s] # Null /\ u.obj[c].layer # "backpack" THEN Clear(u, c) ELSE u
      x == IF v.map[k] = Null THEN v ELSE PutEquipment(v, c, v.map[k], layer)
  IN  IF layer = "shop" THEN Clear(x, c) ELSE x

LEMMA EquipItemTidy ==
  ASSUME NEW w, Good(w), NEW s \in Items, NEW k \in Serials, Fit(w, s, k),
         NEW layer \in Layers, NEW v, v = EquipItemHeap(w, s, k, layer)
  PROVE  Tidy(w, v)
<1> DEFINE u == GetWorld(w, s)
           c == u.map[s]
           h == IF w.map[s] # Null /\ u.obj[c].layer # "backpack" THEN Clear(u, c) ELSE u
           x == IF h.map[k] = Null THEN h ELSE PutEquipment(h, c, h.map[k], layer)
<1>1. v = IF layer = "shop" THEN Clear(x, c) ELSE x
  BY DEF EquipItemHeap
<1>2. s \in Serials
  BY DEF Serials
<1>3. Grown(w, s, u)
  BY <1>2, GetWorldGrown DEF Good
<1>4. Tidy(w, u) /\ Good(u) /\ c \in Alive(u) /\ c # Null
  BY <1>2, <1>3, GrownTidy DEF Tidy, Grown, Alive
<1>5. Pruned(u, h) /\ c \in Alive(h) /\ GroundSpared(u, h)
  <2> HIDE DEF c
  <2>1. CASE w.map[s] # Null /\ u.obj[c].layer # "backpack"
    <3>1. h = Clear(u, c)
      BY <2>1
    <3> HIDE DEF u, h
    <3> QED BY <1>4, <3>1, ClearPruned DEF Good
  <2>2. CASE ~(w.map[s] # Null /\ u.obj[c].layer # "backpack")
    <3>1. h = u
      BY <2>2
    <3> HIDE DEF u, h
    <3> QED BY <1>4, <3>1, PrunedRefl DEF Good, GroundSpared
  <2> QED BY <2>1, <2>2
<1> HIDE DEF h
<1>6. h.map[s] = c /\ (h.map[k] # Null => h.map[k] = u.map[k])
  BY <1>2, <1>5 DEF Pruned
<1>7. Tidy(u, h) /\ Good(h)
  BY <1>4, <1>5, SparedTidy DEF Tidy
<1>8. h.map[k] # Null => Apart(h, c, h.map[k])
  <2> SUFFICES ASSUME h.map[k] # Null PROVE Apart(h, c, h.map[k])
    OBVIOUS
  <2>1. w.map[k] # Null
    <3>1. k # s
      BY DEF Fit
    <3> QED BY <1>3, <1>6, <3>1 DEF Grown
  <2> HIDE DEF c, u
  <2>2. Apart(u, u.map[s], u.map[k])
    BY <1>2, <1>3, <2>1, GrownApart DEF Good
  <2>3. Fit(u, s, k)
    BY <2>2 DEF Fit, Find
  <2>4. Fit(h, s, k)
    BY <1>2, <1>5, <2>3, PrunedFit
  <2> QED BY <1>4, <1>6, <2>4 DEF Fit, Find
<1> HIDE DEF u, c
<1>9. Tidy(h, x) /\ c \in Alive(x)
  <2>1. CASE h.map[k] = Null
    BY <1>5, <1>7, <2>1, TidyRefl
  <2>2. CASE h.map[k] # Null
    <3>1. x = PutEquipment(h, h.map[s], h.map[k], layer)
      BY <1>6, <2>2
    <3> HIDE DEF x
    <3>2. Tidy(h, x) /\ x.map = h.map
      BY <1>4, <1>6, <1>7, <1>8, <2>2, <3>1, EquipTidy
    <3>3. x.map[s] = c /\ c # Null
      BY <1>4, <1>6, <3>2
    <3> QED BY <1>2, <3>2, <3>3, Found DEF Tidy, Good
  <2> QED BY <2>1, <2>2
<1> HIDE DEF x
<1>10. Tidy(x, v)
  <2>1. CASE layer = "shop"
    <3>1. v = Clear(x, c)
      BY <1>1, <2>1
    <3>2. Pruned(x, v) /\ GroundSpared(x, v)
      BY <1>9, <3>1, ClearPruned DEF Tidy, Good
    <3> QED BY <1>9, <3>2, SparedTidy DEF Tidy
  <2>2. CASE layer # "shop"
    BY <1>1, <1>9, <2>2, TidyRefl DEF Tidy
  <2> QED BY <2>1, <2>2
<1>11. Tidy(w, h)
  BY <1>4, <1>7, TidyTrans
<1>12. Tidy(w, x)
  BY <1>9, <1>11, TidyTrans
<1> QED BY <1>10, <1>12, TidyTrans

(* A corpse's item is already in the corpse. *)
LEMMA CorpseEquipmentTidy ==
  ASSUME NEW w, Good(w), NEW s \in Items, w.map[s] # Null,
         NEW k \in Serials, w.map[k] # Null, w.obj[w.map[s]].cont = k,
         NEW layer \in Layers, NEW v, v = PutEquipment(w, w.map[s], w.map[k], layer)
  PROVE  Tidy(w, v)
<1>1. s \in Serials
  BY DEF Serials
<1>2. w.map[s] \in Alive(w)
  BY <1>1, Found DEF Good
<1>3. Home(w, w.map[s]) = w.map[k]
  BY DEF Home, Find, NoSerial
<1>4. Apart(w, w.map[s], w.map[k])
  BY <1>2, <1>3, ApartFromHome DEF Good
<1> QED BY <1>4, EquipTidy

(* c is the mobile m. *)
Stands(h, c, m) == Good(h) /\ c \in Alive(h) /\ h.obj[c].serial = m

LEMMA WearTidy ==
  ASSUME NEW w, NEW c, NEW m \in Mobiles, Stands(w, c, m), NEW s \in Items,
         NEW layer \in Layers, NEW v, v = Wear(w, c, s, layer)
  PROVE  Tidy(w, v) /\ Stands(v, c, m)
<1> DEFINE u == GetWorld(w, s)
           i == u.map[s]
           x == PutEquipment(u, i, c, layer)
<1>1. v = MoveToTop(x, i)
  BY DEF Wear
<1>2. s \in Serials /\ m \in Serials /\ m \notin Items /\ s # m
  BY DEF Serials
<1>3. Grown(w, s, u)
  BY <1>2, GetWorldGrown DEF Good, Stands
<1>4. Tidy(w, u)
  BY <1>2, <1>3, GrownTidy DEF Stands
<1>5. Good(u) /\ Sound(u) /\ i \in Alive(u) /\ i # Null
  BY <1>3, <1>4 DEF Tidy, Grown, Good, Alive
<1>6. c \in Alive(u) /\ u.obj[c].serial = m /\ u.obj[c].cont = NoSerial
  BY <1>2, <1>3, <1>5 DEF Stands, Grown, Good, InGround
<1>7. u.obj[i].serial = s /\ u.map[m] = c /\ c # Null
  BY <1>2, <1>5, <1>6 DEF Sound, Mapped, Alive
<1> HIDE DEF u
<1>8. Apart(u, i, c)
  <2> DEFINE D == Subtree(u, i)
  <2>1. Branch(u, i, D) /\ Closed(u, D)
    BY <1>5, SubtreeBranch, SubtreeLeast
  <2> HIDE DEF D
  <2>2. Home(u, c) = Ground
    BY <1>5, <1>6, HomeOfAlive
  <2>3. c # i
    BY <1>2, <1>6, <1>7
  <2>4. D \in SUBSET Cells /\ i \in D /\ c \notin D
    BY <1>6, <2>1, <2>2, <2>3 DEF Branch, Alive
  <2> QED BY <2>1, <2>4 DEF Apart
<1>9. x = PutEquipment(u, u.map[s], u.map[m], layer)
  BY <1>7
<1>10. Tidy(u, x) /\ x.map = u.map
  BY <1>2, <1>5, <1>7, <1>8, <1>9, EquipTidy
<1> HIDE DEF x
<1>11. Sound(x) /\ Good(x) /\ i \in Alive(x)
  BY <1>2, <1>5, <1>10, Found DEF Tidy, Good
<1> HIDE DEF i
<1>12. Reordered(x, v)
  BY <1>1, <1>11, MoveToTopReorders
<1>13. Tidy(x, v)
  BY <1>11, <1>12, ReorderedTidy
<1>14. Tidy(w, x)
  BY <1>4, <1>10, TidyTrans
<1>15. Tidy(w, v)
  BY <1>13, <1>14, TidyTrans
<1>16. v.map[m] = c
  BY <1>7, <1>10, <1>12 DEF Reordered, Kin
<1> QED BY <1>2, <1>7, <1>15, <1>16, Found DEF Tidy, Good, Stands

Wears(w, c, worn, f) ==
  /\ f[0] = w
  /\ \A n \in 1..Len(worn) : f[n] = Wear(f[n - 1], c, worn[n][1], worn[n][2])

(* Pairs of an item and a layer. *)
IsOutfit(worn) ==
  /\ Len(worn) \in Nat
  /\ \A n \in 1..Len(worn) : worn[n][1] \in Items /\ worn[n][2] \in Layers

LEMMA WearingRun ==
  ASSUME NEW w, NEW c, NEW m \in Mobiles, Stands(w, c, m), NEW worn, IsOutfit(worn)
  PROVE  Wears(w, c, worn, Wearing(w, c, worn))
<1> DEFINE L == Len(worn)
           V == {h \in Heaps : Stands(h, c, m)}
           one(h, n) == Wear(h, c, worn[n][1], worn[n][2])
           step == [n \in 1..L |-> [h \in V |-> one(h, n)]]
           body(f, n) == IF n = 0 THEN w ELSE Wear(f[n - 1], c, worn[n][1], worn[n][2])
           Does(f) == f = [n \in 0..L |-> body(f, n)]
           A == Wearing(w, c, worn)
<1>1. L \in Nat
  BY DEF IsOutfit
<1>2. w \in V
  BY DEF Stands, Good, Sound
<1>3. ASSUME NEW h \in V, NEW n \in 1..L PROVE one(h, n) \in V
  <2>1. Stands(one(h, n), c, m)
    BY WearTidy DEF IsOutfit
  <2> HIDE DEF one
  <2> QED BY <2>1 DEF Stands, Good, Sound
<1>4. step \in [1..L -> [V -> V]]
  <2> HIDE DEF one, V
  <2> QED BY <1>3
<1>5. PICK f : IsRun(f, V, w, L, step)
  <2> HIDE DEF L, step, V
  <2> QED BY <1>1, <1>2, <1>4, RunExists
<1>6. /\ f \in [0..L -> V] /\ f[0] = w
      /\ \A n \in 1..L : f[n] = one(f[n - 1], n)
  <2>1. ASSUME NEW n \in 1..L PROVE f[n] = one(f[n - 1], n)
    <3>1. f[n - 1] \in V
      <4>1. n - 1 \in 0..L
        BY <1>1
      <4> HIDE DEF V
      <4> QED BY <1>5, <4>1 DEF IsRun
    <3> HIDE DEF one, V
    <3> QED BY <1>5, <3>1 DEF IsRun
  <2> HIDE DEF V, one, step
  <2> QED BY <1>5, <2>1 DEF IsRun
<1>7. Does(f)
  <2>1. ASSUME NEW n \in 0..L PROVE f[n] = body(f, n)
    <3>1. CASE n = 0
      BY <1>6, <3>1
    <3>2. CASE n # 0
      <4>1. n \in 1..L
        BY <1>1, <3>2
      <4> QED BY <1>6, <3>2, <4>1
    <3> QED BY <3>1, <3>2
  <2>2. f = [n \in 0..L |-> f[n]]
    <3> HIDE DEF V
    <3> QED BY <1>6
  <2> HIDE DEF body
  <2> QED BY <2>1, <2>2
<1>8. A = CHOOSE g : Does(g)
  BY DEF Wearing
<1>9. Does(A)
  <2> HIDE DEF Does, A
  <2> QED BY <1>7, <1>8
<1> HIDE DEF A
<1>10. \A n \in 0..L : A[n] = body(A, n)
  <2>1. A = [n \in 0..L |-> body(A, n)]
    BY <1>9
  <2> HIDE DEF body
  <2> QED BY <2>1
<1>11. A[0] = w
  BY <1>1, <1>10
<1>12. \A n \in 1..L : A[n] = Wear(A[n - 1], c, worn[n][1], worn[n][2])
  <2> SUFFICES ASSUME NEW n \in 1..L
               PROVE  A[n] = Wear(A[n - 1], c, worn[n][1], worn[n][2])
    OBVIOUS
  <2>1. n \in 0..L /\ n # 0
    BY <1>1
  <2> QED BY <1>10, <2>1
<1> QED BY <1>11, <1>12 DEF Wears, A

LEMMA WearAllTidy ==
  ASSUME NEW w, NEW c, NEW m \in Mobiles, Stands(w, c, m), NEW worn, IsOutfit(worn),
         NEW v, v = WearAll(w, c, worn)
  PROVE  Tidy(w, v)
<1> DEFINE L == Len(worn)
           A == Wearing(w, c, worn)
           T == {n \in Nat : n <= L => Tidy(w, A[n]) /\ Stands(A[n], c, m)}
<1>1. L \in Nat
  BY DEF IsOutfit
<1>2. Wears(w, c, worn, A)
  BY WearingRun
<1> HIDE DEF A
<1>3. 0 \in T
  <2>1. A[0] = w
    BY <1>2 DEF Wears
  <2>2. Tidy(w, w)
    BY TidyRefl DEF Stands
  <2> QED BY <2>1, <2>2
<1>4. ASSUME NEW n \in Nat, n \in T
      PROVE  n + 1 \in T
  <2> SUFFICES ASSUME n + 1 <= L PROVE Tidy(w, A[n + 1]) /\ Stands(A[n + 1], c, m)
    OBVIOUS
  <2>1. n + 1 \in 1..L /\ (n + 1) - 1 = n /\ n <= L
    BY <1>1
  <2>2. Tidy(w, A[n]) /\ Stands(A[n], c, m)
    BY <1>4, <2>1
  <2>3. A[n + 1] = Wear(A[n], c, worn[n + 1][1], worn[n + 1][2])
    BY <1>2, <2>1 DEF Wears
  <2>4. worn[n + 1][1] \in Items /\ worn[n + 1][2] \in Layers
    BY <2>1 DEF IsOutfit
  <2>5. Tidy(A[n], A[n + 1]) /\ Stands(A[n + 1], c, m)
    BY <2>2, <2>3, <2>4, WearTidy
  <2> QED BY <2>2, <2>5, TidyTrans
<1>5. Nat \subseteq T
  <2> HIDE DEF T
  <2> QED BY <1>3, <1>4, NatSetInduction
<1>6. Tidy(w, A[L])
  BY <1>1, <1>5
<1> QED BY <1>6 DEF WearAll, A

UpdateObjectHeap(w, m, opened, worn) ==
  LET u == IF m = Player THEN w ELSE UpdateGameObject(w, m)
      c == u.map[m]
      v == RemoveThose(u, Members(u, c), {x \in Cells :
             u.obj[x].serial \notin opened /\ u.obj[x].layer # "backpack"})
  IN  WearAll(v, c, worn)

LEMMA UpdateObjectTidy ==
  ASSUME NEW w, Good(w), w.map[Player] # Null, NEW m \in Mobiles, NEW opened,
         NEW worn, IsOutfit(worn), NEW v, v = UpdateObjectHeap(w, m, opened, worn)
  PROVE  Tidy(w, v)
<1> DEFINE u == IF m = Player THEN w ELSE UpdateGameObject(w, m)
           c == u.map[m]
           gone == {x \in Cells : u.obj[x].serial \notin opened /\ u.obj[x].layer # "backpack"}
           x == RemoveThose(u, Members(u, c), gone)
<1>1. v = WearAll(x, c, worn)
  BY DEF UpdateObjectHeap
<1>2. m \in Serials
  BY DEF Serials
<1>3. Tidy(w, u) /\ c \in Alive(u)
  <2>1. CASE m = Player
    <3>1. u = w
      BY <2>1
    <3> QED BY <1>2, <2>1, <3>1, TidyRefl, Found DEF Good
  <2>2. CASE m # Player
    <3>1. u = UpdateGameObject(w, m)
      BY <2>2
    <3> HIDE DEF u
    <3> QED BY <1>2, <3>1, UpdateGameObjectTidy
  <2> QED BY <2>1, <2>2
<1> HIDE DEF u, gone
<1>4. Good(u) /\ Sound(u) /\ c # Null
  BY <1>3 DEF Tidy, Good, Alive
<1>5. u.obj[c].serial = m
  BY <1>2, <1>4, Found
<1>6. c \in Keepers(u) /\ c # Ground
  BY <1>3 DEF Keepers, Alive
<1> HIDE DEF c
<1>7. Pruned(u, x) /\ c \in Keepers(x)
  BY <1>4, <1>6, RemoveThosePruned
<1>s. GroundSpared(u, x)
  <2>1. \A y \in Alive(u) : Home(u, y) = Ground /\ y \notin Inmates(u, c) \cap gone => y \in Alive(x)
    BY <1>4, <1>6, RemoveThosePruned
  <2> QED BY <1>6, <2>1 DEF GroundSpared, Inmates
<1> HIDE DEF x
<1>8. Tidy(u, x)
  BY <1>4, <1>7, <1>s, SparedTidy
<1>9. Stands(x, c, m)
  BY <1>5, <1>6, <1>7, <1>8 DEF Stands, Pruned, Keepers, Tidy
<1>10. Tidy(x, v)
  BY <1>1, <1>9, WearAllTidy
<1>11. Tidy(w, x)
  BY <1>3, <1>8, TidyTrans
<1> QED BY <1>10, <1>11, TidyTrans

-----------------------------------------------------------------------------
(* A mobile that dies becomes its body, and keeps what it held.            *)

LEMMA ReplaceShape ==
  ASSUME NEW w, Sound(w), NEW c \in Alive(w), NEW s \in Serials, w.obj[c].serial # s,
         NEW v, v = ReplaceObject(w, c, s)
  PROVE  /\ v \in Heaps
         /\ v.first = w.first
         /\ \A t \in Serials : v.map[t] = IF t = s THEN c
                                          ELSE IF t = w.obj[c].serial THEN Null ELSE w.map[t]
         /\ \A x \in Cells :
              /\ v.obj[x].live = w.obj[x].live
              /\ v.obj[x].next = w.obj[x].next /\ v.obj[x].prev = w.obj[x].prev
              /\ v.obj[x].layer = w.obj[x].layer
              /\ v.obj[x].serial = IF x = c THEN s ELSE w.obj[x].serial
              /\ v.obj[x].cont = IF x # c /\ x \in Inmates(w, c) THEN s ELSE w.obj[x].cont
         /\ \A x \in Cells : x # c /\ x \notin Inmates(w, c) => v.obj[x] = w.obj[x]
<1> DEFINE M == ToSet(Members(w, c))
           o(x) == IF x = c THEN [w.obj[x] EXCEPT !.serial = s]
                   ELSE IF x \in M THEN [w.obj[x] EXCEPT !.cont = s] ELSE w.obj[x]
           obj == [x \in Cells |-> o(x)]
           map == [[w.map EXCEPT ![w.obj[c].serial] = Null] EXCEPT ![s] = c]
<1>1. w \in Heaps /\ c \in Cells /\ w.obj[c].serial \in Serials /\ s \in Owners /\ c \in Pointers
  BY DEF Sound, Mapped, Alive, Owners, Pointers
<1>2. M = Inmates(w, c)
  BY <1>1, MembersSet
<1>3. v = [obj |-> obj, first |-> w.first, map |-> map]
  BY <1>1 DEF ReplaceObject, Heaps
<1>4. map \in [Serials -> Pointers] /\ w.first \in [Cells \cup {Ground} -> Pointers]
  BY <1>1 DEF Heaps, Pointers
<1>5. \A t \in Serials : map[t] = IF t = s THEN c ELSE IF t = w.obj[c].serial THEN Null ELSE w.map[t]
  BY <1>1 DEF Heaps
<1> HIDE DEF M, map
<1>6. ASSUME NEW x \in Cells
      PROVE  /\ o(x) \in Object
             /\ o(x).live = w.obj[x].live
             /\ o(x).next = w.obj[x].next /\ o(x).prev = w.obj[x].prev
             /\ o(x).layer = w.obj[x].layer
             /\ o(x).serial = IF x = c THEN s ELSE w.obj[x].serial
             /\ o(x).cont = IF x # c /\ x \in M THEN s ELSE w.obj[x].cont
             /\ x # c /\ x \notin M => o(x) = w.obj[x]
  <2>1. w.obj[x] \in Object
    BY <1>1 DEF Heaps
  <2>2. CASE x = c
    BY <1>1, <2>1, <2>2 DEF Object
  <2>3. CASE x # c /\ x \in M
    BY <1>1, <2>1, <2>3 DEF Object
  <2>4. CASE x # c /\ x \notin M
    BY <2>1, <2>4
  <2> QED BY <2>2, <2>3, <2>4
<1> HIDE DEF o
<1>7. obj \in [Cells -> Object] /\ \A x \in Cells : obj[x] = o(x)
  BY <1>6
<1> HIDE DEF obj
<1>8. v \in Heaps /\ v.obj = obj /\ v.first = w.first /\ v.map = map
  <2>1. v.obj = obj /\ v.first = w.first /\ v.map = map
    BY <1>3
  <2> QED BY <1>3, <1>4, <1>7 DEF Heaps
<1> QED BY <1>2, <1>5, <1>6, <1>7, <1>8

LEMMA ReplaceTidy ==
  ASSUME NEW w, Good(w), NEW m \in Others, w.map[m] # Null,
         NEW s \in Bodies, w.map[s] = Null,
         NEW v, v = ReplaceObject(w, w.map[m], s)
  PROVE  Tidy(w, v)
<1> DEFINE c == w.map[m]
<1>1. /\ m \in Serials /\ s \in Serials /\ m # s /\ m \notin Items /\ s \notin Items
      /\ m # NoSerial /\ s # NoSerial /\ Sound(w) /\ m # Player /\ s # Player
      /\ Player \in Serials
  BY DEF Serials, NoSerial, Good, Others
<1>2. c \in Alive(w) /\ c \in Cells /\ c # Null /\ w.obj[c].serial = m
  BY <1>1, Found DEF Alive
<1>3. w.obj[c].cont = NoSerial /\ ~Loose(w, c)
  BY <1>1, <1>2 DEF Good, InGround
<1>4. v = ReplaceObject(w, c, s)
  OBVIOUS
<1>5. w.map[m] = c
  OBVIOUS
<1> HIDE DEF c
<1>6. /\ v \in Heaps
      /\ v.first = w.first
      /\ \A t \in Serials : v.map[t] = IF t = s THEN c ELSE IF t = m THEN Null ELSE w.map[t]
      /\ \A x \in Cells :
           /\ v.obj[x].live = w.obj[x].live
           /\ v.obj[x].next = w.obj[x].next /\ v.obj[x].prev = w.obj[x].prev
           /\ v.obj[x].serial = IF x = c THEN s ELSE w.obj[x].serial
           /\ v.obj[x].cont = IF x # c /\ x \in Inmates(w, c) THEN s ELSE w.obj[x].cont
      /\ \A x \in Cells : x # c /\ x \notin Inmates(w, c) => v.obj[x] = w.obj[x]
  BY <1>1, <1>2, <1>4, ReplaceShape
<1>7. Alive(v) = Alive(w) /\ Keepers(v) = Keepers(w) /\ \A x \in Alive(w) : x \in Cells
  BY <1>6 DEF Alive, Keepers
<1>8. ASSUME NEW x \in Alive(w)
      PROVE  x # c /\ x \in Inmates(w, c) <=> w.obj[x].cont = m
  <2>1. CASE w.obj[x].cont = m
    <3>1. Home(w, x) = c
      BY <1>1, <1>5, <2>1 DEF Home, Find
    <3>2. ~Loose(w, x)
      BY <1>1, <2>1 DEF Sound, LooseSound
    <3> QED BY <1>1, <1>3, <2>1, <3>1, <3>2 DEF Inmates
  <2>2. CASE w.obj[x].cont # m
    <3> SUFFICES ASSUME x \in Inmates(w, c) PROVE FALSE
      BY <2>2
    <3>1. Home(w, x) = c /\ c # Ground
      BY <1>2 DEF Inmates
    <3> QED BY <1>1, <1>2, <2>2, <3>1, HomeOfAlive
  <2> QED BY <2>1, <2>2
<1>9. \A x \in Alive(w) : v.obj[x].cont = IF w.obj[x].cont = m THEN s ELSE w.obj[x].cont
  BY <1>6, <1>7, <1>8
<1>10. ASSUME NEW x \in Alive(w) PROVE Home(v, x) = Home(w, x)
  <2>1. CASE w.obj[x].cont = NoSerial
    BY <1>1, <1>9, <2>1 DEF Home
  <2>2. CASE w.obj[x].cont = m
    BY <1>1, <1>5, <1>6, <1>9, <2>2 DEF Home, Find
  <2>3. CASE w.obj[x].cont # NoSerial /\ w.obj[x].cont # m
    <3>1. v.obj[x].cont = w.obj[x].cont
      BY <1>9, <2>3
    <3>2. w.obj[x].cont # s
      <4> SUFFICES ASSUME w.obj[x].cont = s PROVE FALSE
        OBVIOUS
      <4>1. Home(w, x) = Null
        BY <1>1 DEF Home, Find
      <4> QED BY <1>1, <4>1, HomeOfAlive
    <3>3. \A t \in Serials : t # s /\ t # m => v.map[t] = w.map[t]
      BY <1>6
    <3> QED BY <2>3, <3>1, <3>2, <3>3 DEF Home, Find
  <2> QED BY <2>1, <2>2, <2>3
<1>11. \A x \in Alive(w) : Loose(v, x) <=> Loose(w, x)
  BY <1>6, <1>7, <1>10 DEF Loose
<1>12. Buried(v)
  <2> SUFFICES ASSUME NEW x \in Cells \ Alive(w) PROVE v.obj[x] = NoObject /\ v.first[x] = Null
    BY <1>7 DEF Buried
  <2>1. x # c /\ x \notin Inmates(w, c)
    BY <1>2 DEF Inmates
  <2> QED BY <1>1, <1>6, <2>1 DEF Sound, Buried
<1>13. \A x \in Alive(w) \ {c} : /\ w.obj[x].serial # m /\ w.obj[x].serial # s
                                 /\ w.obj[x].serial \in Serials /\ w.map[w.obj[x].serial] = x
                                 /\ v.obj[x].serial = w.obj[x].serial
  <2> SUFFICES ASSUME NEW x \in Alive(w) \ {c}
               PROVE /\ w.obj[x].serial # m /\ w.obj[x].serial # s
                     /\ w.obj[x].serial \in Serials /\ w.map[w.obj[x].serial] = x
                     /\ v.obj[x].serial = w.obj[x].serial
    OBVIOUS
  <2>1. w.obj[x].serial \in Serials /\ w.map[w.obj[x].serial] = x /\ x # Null
    BY <1>1 DEF Sound, Mapped, Alive
  <2> QED BY <1>5, <1>6, <1>7, <2>1
<1>14. Mapped(v)
  <2>1. ASSUME NEW x \in Alive(w)
        PROVE  v.obj[x].serial \in Serials /\ v.map[v.obj[x].serial] = x
    <3>1. CASE x = c
      BY <1>1, <1>2, <1>6, <3>1
    <3>2. CASE x # c
      BY <1>6, <1>13, <3>2
    <3> QED BY <3>1, <3>2
  <2>2. ASSUME NEW t \in Serials, v.map[t] # Null
        PROVE  v.map[t] \in Alive(w) /\ v.obj[v.map[t]].serial = t
    <3>1. CASE t = s
      BY <1>2, <1>6, <3>1
    <3>2. CASE t # s
      <4>1. t # m /\ v.map[t] = w.map[t]
        BY <1>6, <2>2, <3>2
      <4>2. w.map[t] \in Alive(w) /\ w.obj[w.map[t]].serial = t
        BY <1>1, <2>2, <4>1, Found
      <4>3. w.map[t] # c
        BY <1>2, <4>1, <4>2
      <4> QED BY <1>13, <4>1, <4>2, <4>3
    <3> QED BY <3>1, <3>2
  <2> QED BY <1>7, <2>1, <2>2 DEF Mapped
<1>15. Housed(v)
  BY <1>1, <1>7, <1>10 DEF Sound, Housed
<1>16. FirstsSound(v)
  BY <1>1, <1>6, <1>7, <1>10 DEF Sound, FirstsSound
<1>17. NextsSound(v)
  <2> SUFFICES ASSUME NEW x \in Alive(w), v.obj[x].next # Null
               PROVE  /\ v.obj[x].next \in Alive(w)
                      /\ v.obj[v.obj[x].next].prev = x
                      /\ v.obj[v.obj[x].next].cont = v.obj[x].cont
    BY <1>7 DEF NextsSound
  <2> DEFINE n == w.obj[x].next
  <2>1. v.obj[x].next = n
    BY <1>6, <1>7
  <2>2. n \in Alive(w) /\ w.obj[n].prev = x /\ w.obj[n].cont = w.obj[x].cont
    BY <1>1, <2>1 DEF Sound, NextsSound
  <2> HIDE DEF n
  <2> QED BY <1>6, <1>7, <1>9, <2>1, <2>2
<1>18. PrevsSound(v)
  <2> SUFFICES ASSUME NEW x \in Alive(w), v.obj[x].prev # Null
               PROVE  v.obj[x].prev \in Alive(w) /\ v.obj[v.obj[x].prev].next = x
    BY <1>7 DEF PrevsSound
  <2> DEFINE p == w.obj[x].prev
  <2>1. v.obj[x].prev = p
    BY <1>6, <1>7
  <2>2. p \in Alive(w) /\ w.obj[p].next = x
    BY <1>1, <2>1 DEF Sound, PrevsSound
  <2> HIDE DEF p
  <2> QED BY <1>6, <1>7, <2>1, <2>2
<1>19. LooseSound(v)
  BY <1>1, <1>6, <1>7, <1>9, <1>11 DEF Sound, LooseSound
<1>20. ListsEnd(v)
  <2> SUFFICES ASSUME NEW S \in SUBSET Alive(w), S # {}
               PROVE  \E x \in S : v.obj[x].prev \notin S
    BY <1>7 DEF ListsEnd
  <2>1. PICK x \in S : w.obj[x].prev \notin S
    BY <1>1 DEF Sound, ListsEnd
  <2> QED BY <1>6, <1>7, <2>1
<1>21. HomesEnd(v)
  <2> SUFFICES ASSUME NEW S \in SUBSET Alive(w), S # {}
               PROVE  \E x \in S : Home(v, x) \notin S
    BY <1>7 DEF HomesEnd
  <2>1. PICK x \in S : Home(w, x) \notin S
    BY <1>1 DEF Sound, HomesEnd
  <2> QED BY <1>10, <2>1
<1>22. Sound(v)
  BY <1>6, <1>12, <1>14, <1>15, <1>16, <1>17, <1>18, <1>19, <1>20, <1>21 DEF Sound
<1>23. InGround(v)
  <2> SUFFICES ASSUME NEW x \in Alive(w), v.obj[x].serial \notin Items
               PROVE  v.obj[x].cont = NoSerial /\ ~Loose(v, x)
    BY <1>7 DEF InGround
  <2>1. CASE x = c
    BY <1>1, <1>2, <1>3, <1>9, <1>11, <2>1
  <2>2. CASE x # c
    <3>1. w.obj[x].cont = NoSerial /\ ~Loose(w, x)
      BY <1>13, <2>2 DEF Good, InGround
    <3> QED BY <1>1, <1>9, <1>11, <3>1
  <2> QED BY <2>1, <2>2
<1>24. ASSUME NEW t \in Serials, Strayed(v, t) PROVE Strayed(w, t)
  <2>1. CASE t = s
    <3>1. Loose(v, c)
      BY <1>6, <1>24, <2>1 DEF Strayed
    <3> QED BY <1>2, <1>3, <1>11, <3>1
  <2>2. CASE t # s
    <3>1. v.map[t] = w.map[t] /\ w.map[t] # Null
      BY <1>6, <1>24, <2>2 DEF Strayed
    <3>2. w.map[t] \in Alive(w)
      BY <1>1, <3>1, Found
    <3> QED BY <1>11, <1>24, <3>1, <3>2 DEF Strayed
  <2> QED BY <2>1, <2>2
<1>25. Stays(w, v)
  BY <1>1, <1>6 DEF Stays
<1> QED BY <1>22, <1>23, <1>24, <1>25 DEF Tidy, Good

-----------------------------------------------------------------------------
(* A refused item is put back.                                             *)

(* v is a good heap, and strands nobody but s. *)
TidyBut(w, s, v) ==
  /\ Good(v)
  /\ Stays(w, v)
  /\ \A t \in Serials \ {s} : Strayed(v, t) => Strayed(w, t)

LEMMA TidyThenBut ==
  ASSUME NEW w, NEW u, NEW s, NEW v, Tidy(w, u), TidyBut(u, s, v)
  PROVE  TidyBut(w, s, v)
BY DEF Tidy, TidyBut, Stays

LEMMA ButThenTidy ==
  ASSUME NEW w, NEW u, NEW s, NEW v, TidyBut(w, s, u), Tidy(u, v)
  PROVE  TidyBut(w, s, v)
BY DEF Tidy, TidyBut, Stays

LEMMA TidyIsBut ==
  ASSUME NEW w, NEW s, NEW v, Tidy(w, v)
  PROVE  TidyBut(w, s, v)
BY DEF Tidy, TidyBut, Stays

LEMMA UnlinkedStrands ==
  ASSUME NEW w, Good(w), NEW s \in Items, w.map[s] # Null,
         NEW v, v = RemoveFromContainer(w, w.map[s])
  PROVE  TidyBut(w, s, v) /\ v.map = w.map
<1> DEFINE c == w.map[s]
<1>1. s \in Serials /\ Sound(w)
  BY DEF Serials, Good
<1>2. c \in Alive(w) /\ w.obj[c].serial = s
  BY <1>1, Found
<1>3. v = RemoveFromContainer(w, c) /\ w.map[s] = c
  OBVIOUS
<1> HIDE DEF c
<1>4. Unlinked(w, c, v)
  BY <1>1, <1>2, <1>3, RemoveShape
<1>5. Sound(v)
  BY <1>1, <1>2, <1>4, UnlinkedSound
<1>6. /\ Alive(v) = Alive(w)
      /\ \A x \in Alive(w) \ {c} : Loose(v, x) <=> Loose(w, x)
  BY <1>1, <1>2, <1>4, UnlinkedLinks
<1>7. v.map = w.map
  BY <1>4 DEF Unlinked, Relinked
<1>8. \A x \in Alive(w) : x \in Cells /\ v.obj[x].serial = w.obj[x].serial
                          /\ (x # c => v.obj[x].cont = w.obj[x].cont)
  BY <1>4 DEF Unlinked, Relinked, Alive
<1>9. InGround(v)
  BY <1>2, <1>6, <1>8 DEF InGround, Good
<1>10. ASSUME NEW t \in Serials \ {s}, Strayed(v, t) PROVE Strayed(w, t)
  <2>1. w.map[t] # Null /\ Loose(v, w.map[t])
    BY <1>7, <1>10 DEF Strayed
  <2>2. w.map[t] \in Alive(w) /\ w.obj[w.map[t]].serial = t
    BY <1>1, <2>1, Found
  <2>3. w.map[t] # c
    BY <1>2, <2>2
  <2> QED BY <1>6, <2>1, <2>2, <2>3 DEF Strayed
<1> QED BY <1>5, <1>7, <1>9, <1>10 DEF TidyBut, Stays, Good

LEMMA TopTidy ==
  ASSUME NEW w, Good(w), NEW s \in Serials, w.map[s] # Null,
         NEW v, v = MoveToTop(w, w.map[s])
  PROVE  Tidy(w, v)
<1>1. w.map[s] \in Alive(w)
  BY Found DEF Good
<1>2. Reordered(w, v)
  BY <1>1, MoveToTopReorders DEF Good
<1> QED BY <1>2, ReorderedTidy

PutBackHeap(w, s, k, layer) ==
  LET u == GetWorld(w, s)
      c == u.map[s]
  IN  IF layer = "none" /\ k # NoSerial THEN UpdateContained(w, s, k)
      ELSE IF Find(u, k) = Null THEN MoveToTop(RemoveFromContainer(u, c), c)
      ELSE IF k \in Items THEN RemoveObject(u, c)
      ELSE MoveToTop(PutEquipment(u, c, u.map[k], layer), c)

LEMMA PutBackTidy ==
  ASSUME NEW w, Good(w), NEW s \in Items, NEW k, Fit(w, s, k), NEW layer \in Layers,
         NEW v, v = PutBackHeap(w, s, k, layer)
  PROVE  TidyBut(w, s, v)
<1> DEFINE u == GetWorld(w, s)
           c == u.map[s]
<1>1. s \in Serials
  BY DEF Serials
<1>2. Grown(w, s, u)
  BY <1>1, GetWorldGrown DEF Good
<1>3. CASE layer = "none" /\ k # NoSerial
  <2>1. v = UpdateContained(w, s, k)
    BY <1>3 DEF PutBackHeap
  <2> QED BY <2>1, UpdateContainedTidy, TidyIsBut
<1>4. CASE ~(layer = "none" /\ k # NoSerial)
  <2>1. v = IF Find(u, k) = Null THEN MoveToTop(RemoveFromContainer(u, c), c)
            ELSE IF k \in Items THEN RemoveObject(u, c)
            ELSE MoveToTop(PutEquipment(u, c, u.map[k], layer), c)
    BY <1>4 DEF PutBackHeap
  <2> HIDE DEF u
  <2>2. Tidy(w, u)
    BY <1>1, <1>2, GrownTidy
  <2>3. Good(u) /\ Sound(u) /\ c \in Alive(u) /\ c # Null
    BY <1>2, <2>2 DEF Tidy, Good, Grown, Alive
  <2>4. CASE Find(u, k) = Null
    <3> DEFINE x == RemoveFromContainer(u, u.map[s])
    <3>1. TidyBut(u, s, x) /\ x.map = u.map
      BY <2>3, UnlinkedStrands
    <3>2. v = MoveToTop(x, c)
      BY <2>1, <2>4
    <3> HIDE DEF x
    <3>3. v = MoveToTop(x, x.map[s]) /\ x.map[s] # Null
      BY <2>3, <3>1, <3>2
    <3>4. Tidy(x, v)
      BY <1>1, <3>1, <3>3, TopTidy DEF TidyBut
    <3>5. TidyBut(u, s, v)
      BY <3>1, <3>4, ButThenTidy
    <3> QED BY <2>2, <3>5, TidyThenBut
  <2>5. CASE Find(u, k) # Null /\ k \in Items
    <3>1. v = RemoveObject(u, c)
      BY <2>1, <2>5
    <3>2. u.obj[c].serial = s /\ s # Player
      BY <1>1, <2>3, Found
    <3>3. Tidy(u, v)
      BY <2>3, <3>1, <3>2, RemoveSparesPlayer
    <3>4. Tidy(w, v)
      BY <2>2, <3>3, TidyTrans
    <3> QED BY <3>4, TidyIsBut
  <2>6. CASE Find(u, k) # Null /\ k \notin Items
    <3> DEFINE x == PutEquipment(u, u.map[s], u.map[k], layer)
    <3>1. v = MoveToTop(x, c)
      BY <2>1, <2>6
    <3>2. k \in Serials /\ u.map[k] # Null
      BY <2>6 DEF Find
    <3>3. k # s
      BY DEF Fit
    <3>4. w.map[k] # Null
      BY <1>2, <3>2, <3>3 DEF Grown
    <3>5. Apart(u, u.map[s], u.map[k])
      BY <1>1, <1>2, <3>2, <3>4, GrownApart DEF Good
    <3>6. Tidy(u, x) /\ x.map = u.map
      BY <2>3, <3>2, <3>5, EquipTidy
    <3> HIDE DEF x
    <3>7. v = MoveToTop(x, x.map[s]) /\ x.map[s] # Null
      BY <2>3, <3>1, <3>6
    <3>8. Tidy(x, v)
      BY <1>1, <3>6, <3>7, TopTidy DEF Tidy
    <3>9. Tidy(w, x)
      BY <2>2, <3>6, TidyTrans
    <3>10. Tidy(w, v)
      BY <3>8, <3>9, TidyTrans
    <3> QED BY <3>10, TidyIsBut
  <2> QED BY <2>4, <2>5, <2>6
<1> QED BY <1>3, <1>4

-----------------------------------------------------------------------------
(* The first world, and the last.                                          *)

LEMMA EmptyHeapGood ==
  Good(EmptyHeap) /\ \A s \in Serials : EmptyHeap.map[s] = Null
<1> DEFINE obj == [c \in Cells |-> NoObject]
           first == [k \in Cells \cup {Ground} |-> Null]
           map == [s \in Serials |-> Null]
           w == EmptyHeap
<1>1. w.obj = obj /\ w.first = first /\ w.map = map
  BY DEF EmptyHeap
<1>2. /\ \A c \in Cells : obj[c] = NoObject
      /\ \A k \in Cells \cup {Ground} : first[k] = Null
      /\ \A s \in Serials : map[s] = Null
  OBVIOUS
<1>3. w \in Heaps
  BY NoObjectFields DEF EmptyHeap, Heaps, Pointers
<1> HIDE DEF obj, first, map, w
<1>4. Alive(w) = {}
  BY <1>1, <1>2, NoObjectFields DEF Alive
<1>5. Keepers(w) = {Ground}
  BY <1>4 DEF Keepers
<1>6. Buried(w)
  BY <1>1, <1>2 DEF Buried
<1>7. Mapped(w)
  BY <1>1, <1>2, <1>4 DEF Mapped
<1>8. Housed(w) /\ FirstsSound(w) /\ NextsSound(w) /\ PrevsSound(w) /\ LooseSound(w)
  BY <1>1, <1>2, <1>4, <1>5 DEF Housed, FirstsSound, NextsSound, PrevsSound, LooseSound
<1>9. ListsEnd(w) /\ HomesEnd(w) /\ InGround(w)
  BY <1>4 DEF ListsEnd, HomesEnd, InGround
<1>10. Good(w) /\ \A s \in Serials : w.map[s] = Null
  BY <1>1, <1>2, <1>3, <1>6, <1>7, <1>8, <1>9 DEF Sound, Good
<1> QED BY <1>10 DEF w

(* The player stands in the new world, and nothing else does. *)
LEMMA NewWorldGood ==
  /\ Good(NewWorld)
  /\ NewWorld.map[Player] # Null
  /\ \A s \in Serials : ~Strayed(NewWorld, s)
<1> DEFINE e == EmptyHeap
           u == New(e, Player)
<1>1. Player \in Serials
  BY DEF Serials
<1>2. Good(e) /\ e.map[Player] = Null /\ \A s \in Serials : e.map[s] = Null
  BY <1>1, EmptyHeapGood
<1>3. CellOf[Player] \in {c \in Cells : ~e.obj[c].live}
  BY <1>1, NoObjectFields DEF EmptyHeap
<1>4. e.map \in [Serials -> Pointers]
  BY <1>2 DEF Good, Sound, Heaps
<1>5. u.map[Player] = CellOf[Player]
  BY <1>1, <1>3, <1>4 DEF New
<1>6. NewWorld = GetWorld(e, Player)
  BY <1>2, <1>5 DEF NewWorld, GetWorld
<1> HIDE DEF e
<1>7. Grown(e, Player, NewWorld)
  BY <1>1, <1>2, <1>6, GetWorldGrown DEF Good
<1>8. Tidy(e, NewWorld)
  BY <1>1, <1>2, <1>7, GrownTidy
<1> QED BY <1>1, <1>2, <1>7, <1>8 DEF Tidy, Grown, Strayed, Alive

UnmapAll(w) == [w EXCEPT !.map = [s \in Serials |-> Null], !.first[Ground] = Null]

ClearWorldHeap(w) ==
  LET u == RemoveObject(w, w.map[Player])
  IN  RemoveThose(u, Members(u, Ground), Cells)

LEMMA ClearWorldEmpties ==
  ASSUME NEW w, Sound(w), w.map[Player] # Null, NEW v, v = ClearWorldHeap(w)
  PROVE  Pruned(w, v) /\ Inmates(v, Ground) = {} /\ v.first[Ground] = Null
<1> DEFINE u == RemoveObject(w, w.map[Player])
<1>1. v = RemoveThose(u, Members(u, Ground), Cells)
  BY DEF ClearWorldHeap
<1>2. w.map[Player] \in Alive(w)
  BY Found DEF Serials
<1>3. Pruned(w, u)
  BY <1>2, RemovePruned
<1> HIDE DEF u
<1>4. Sound(u) /\ Ground \in Keepers(u)
  BY <1>3 DEF Pruned, Keepers
<1>5. Pruned(u, v) /\ \A x \in Inmates(u, Ground) \cap Cells : x \notin Alive(v)
  BY <1>1, <1>4, RemoveThosePruned
<1>6. Inmates(v, Ground) = {}
  BY <1>5 DEF Pruned, Inmates, Alive
<1>7. Sound(v) /\ Ground \in Keepers(v)
  BY <1>5 DEF Pruned, Keepers
<1>8. v.first[Ground] = Null
  BY <1>6, <1>7, FirstOfEmpty
<1>9. Pruned(w, v)
  BY <1>3, <1>5, PrunedTrans
<1> QED BY <1>6, <1>8, <1>9

LEMMA UnmapShape ==
  ASSUME NEW w \in Heaps, w.first[Ground] = Null, NEW v, v = UnmapAll(w)
  PROVE  v \in Heaps /\ v.obj = w.obj /\ v.first = w.first /\ \A s \in Serials : v.map[s] = Null
<1>1. [w.first EXCEPT ![Ground] = Null] = w.first
  BY DEF Heaps
<1> DEFINE map == [s \in Serials |-> Null]
<1>2. map \in [Serials -> Pointers] /\ \A s \in Serials : map[s] = Null
  BY DEF Pointers
<1>3. v = [obj |-> w.obj, first |-> w.first, map |-> map]
  BY <1>1 DEF UnmapAll, Heaps
<1> HIDE DEF map
<1>4. v.obj = w.obj /\ v.first = w.first /\ v.map = map
  BY <1>3
<1> QED BY <1>2, <1>3, <1>4 DEF Heaps

-----------------------------------------------------------------------------
(* What the lists promise, of any heap.                                    *)

LinksSound(w) ==
  /\ \A k \in Keepers(w) : w.first[k] # Null =>
       w.first[k] \in Alive(w) /\ w.obj[w.first[k]].prev = Null
  /\ \A c, d \in Alive(w) : (w.obj[c].next = d) <=> (w.obj[d].prev = c)
  /\ \A c \in Alive(w) : {w.obj[c].next, w.obj[c].prev} \subseteq Alive(w) \cup {Null}
  /\ \A c \in Cells \ Alive(w) : w.obj[c] = NoObject /\ w.first[c] = Null

LEMMA SoundLinks ==
  ASSUME NEW w, Sound(w)
  PROVE  LinksSound(w)
<1>1. \A c \in Alive(w) : c # Null
  BY DEF Alive
<1>2. \A k \in Keepers(w) : w.first[k] # Null =>
        w.first[k] \in Alive(w) /\ w.obj[w.first[k]].prev = Null
  BY DEF Sound, FirstsSound
<1>3. \A c, d \in Alive(w) : (w.obj[c].next = d) <=> (w.obj[d].prev = c)
  BY <1>1 DEF Sound, NextsSound, PrevsSound
<1>4. \A c \in Alive(w) : {w.obj[c].next, w.obj[c].prev} \subseteq Alive(w) \cup {Null}
  BY DEF Sound, NextsSound, PrevsSound
<1>5. \A c \in Cells \ Alive(w) : w.obj[c] = NoObject /\ w.first[c] = Null
  BY DEF Sound, Buried
<1> QED BY <1>2, <1>3, <1>4, <1>5 DEF LinksSound

(* The lists are of the addresses and the links alone. *)
LEMMA SameLinks ==
  ASSUME NEW w, LinksSound(w), NEW v, v.obj = w.obj, v.first = w.first
  PROVE  LinksSound(v)
<1>1. Alive(v) = Alive(w) /\ Keepers(v) = Keepers(w)
  BY DEF Alive, Keepers
<1> QED BY <1>1 DEF LinksSound

-----------------------------------------------------------------------------
(* The inductive invariant, and what a step does to the world.             *)

WInv ==
  /\ TypeOK
  /\ LinksSound(world)
  /\ Playing => Good(world)
  /\ ~Playing => \A s \in Serials : world.map[s] = Null
  /\ hand.phase # "empty" => hand.serial \in Movable

LEMMA WornIsOutfit ==
  ASSUME NEW worn \in BoundedSeq(Wearable, 1)
  PROVE  IsOutfit(worn)
<1>1. PICK m \in 0..1 : worn \in [1..m -> Wearable]
  BY DEF BoundedSeq, SeqOf
<1>2. worn \in Seq(Wearable)
  BY <1>1, SeqDef
<1>3. Len(worn) \in Nat /\ \A n \in 1..Len(worn) : worn[n] \in Wearable
  BY <1>2, LenProperties
<1>4. \A e \in Wearable : e[1] \in Items /\ e[2] \in Layers
  BY DEF Wearable, Goods
<1> QED BY <1>3, <1>4 DEF IsOutfit

(* A handler that strands nobody. *)
Handled == Playing /\ Tidy(world, world')

LEMMA UpdateItemHandled ==
  ASSUME WInv, NEW s \in Items, UpdateItem(s)
  PROVE  Handled
<1>1. Playing /\ Good(world) /\ s \in Serials /\ world' = UpdateGameObject(world, s)
  BY DEF UpdateItem, WInv, Serials
<1> QED BY <1>1, UpdateGameObjectTidy DEF Handled

LEMMA UpdateObjectHandled ==
  ASSUME WInv, NEW m \in Mobiles, NEW opened, NEW worn \in BoundedSeq(Wearable, 1),
         UpdateObject(m, opened, worn)
  PROVE  Handled
<1>1. Playing /\ Good(world) /\ world.map[Player] # Null
  BY DEF UpdateObject, WInv, Playing
<1>2. world' = UpdateObjectHeap(world, m, opened, worn)
  BY DEF UpdateObject, UpdateObjectHeap
<1>3. IsOutfit(worn)
  BY WornIsOutfit
<1> QED BY <1>1, <1>2, <1>3, UpdateObjectTidy DEF Handled

LEMMA UpdateContainedItemHandled ==
  ASSUME WInv, NEW s \in Goods, NEW k, UpdateContainedItem(s, k)
  PROVE  Handled
<1>1. Playing /\ Good(world) /\ Sound(world) /\ s \in Items /\ s \in Serials
  BY DEF UpdateContainedItem, WInv, Good, Goods, Serials
<1>2. world' = UpdateContained(world, s, k) /\ MayHold(world, k, s)
  BY DEF UpdateContainedItem
<1>3. Fit(world, s, k)
  BY <1>1, <1>2, MayHoldFits
<1>4. Tidy(world, world')
  BY <1>1, <1>2, <1>3, UpdateContainedTidy
<1> QED BY <1>1, <1>4 DEF Handled

LEMMA UpdateContainedItemsHandled ==
  ASSUME WInv, NEW k, NEW s \in Goods, NEW t \in Goods, UpdateContainedItems(k, s, t)
  PROVE  Handled
<1> DEFINE u == IF Find(world, k) = Null THEN world ELSE Empty(world, world.map[k])
<1>1. /\ Playing /\ Good(world) /\ Sound(world)
      /\ s \in Items /\ s \in Serials /\ t \in Items /\ t \in Serials
  BY DEF UpdateContainedItems, WInv, Good, Goods, Serials
<1>2. /\ s # t /\ MayHold(world, k, s) /\ MayHold(world, k, t)
      /\ world' = UpdateContained(UpdateContained(u, s, k), t, k)
  BY DEF UpdateContainedItems
<1>3. Fit(world, s, k) /\ Fit(world, t, k)
  BY <1>1, <1>2, MayHoldFits
<1>4. u = IF Find(world, k) = Null THEN world ELSE Empty(world, world.map[k])
  OBVIOUS
<1> HIDE DEF u
<1>5. Tidy(world, world')
  BY <1>1, <1>2, <1>3, <1>4, UpdateContainedItemsTidy
<1> QED BY <1>1, <1>5 DEF Handled

LEMMA EquipItemHandled ==
  ASSUME WInv, NEW e \in Wearable, NEW k \in Mobiles, EquipItem(e[1], k, e[2])
  PROVE  Handled
<1> DEFINE s == e[1]
           layer == e[2]
<1>1. s \in Items /\ s \in Serials /\ layer \in Layers /\ k \in Serials
  BY DEF Wearable, Goods, Serials
<1>2. Playing /\ Good(world) /\ Sound(world)
  BY DEF EquipItem, WInv, Good
<1>3. world' = EquipItemHeap(world, s, k, layer) /\ MayHold(world, k, s)
  BY DEF EquipItem, EquipItemHeap
<1> HIDE DEF s, layer
<1>4. Fit(world, s, k)
  BY <1>1, <1>2, <1>3, MayHoldFits
<1>5. Tidy(world, world')
  BY <1>1, <1>2, <1>3, <1>4, EquipItemTidy
<1> QED BY <1>2, <1>5 DEF Handled

LEMMA CorpseEquipmentHandled ==
  ASSUME WInv, NEW e \in Wearable, NEW k \in Corpses, CorpseEquipment(e[1], k, e[2])
  PROVE  Handled
<1> DEFINE s == e[1]
           layer == e[2]
<1>1. s \in Items /\ layer \in Layers /\ k \in Serials
  BY DEF Wearable, Goods, Serials
<1>2. Playing /\ Good(world)
  BY DEF CorpseEquipment, WInv
<1>3. /\ world' = PutEquipment(world, world.map[s], world.map[k], layer)
      /\ world.map[s] # Null /\ world.map[k] # Null /\ world.obj[world.map[s]].cont = k
  BY <1>1 DEF CorpseEquipment, Find
<1> HIDE DEF s, layer
<1>4. Tidy(world, world')
  BY <1>1, <1>2, <1>3, CorpseEquipmentTidy
<1> QED BY <1>2, <1>4 DEF Handled

LEMMA DeleteObjectHandled ==
  ASSUME WInv, NEW s \in Items \cup Others, DeleteObject(s)
  PROVE  Handled
<1>1. Playing /\ Good(world) /\ Sound(world) /\ s \in Serials
  BY DEF DeleteObject, WInv, Good, Serials, Others
<1>2. world.map[s] # Null /\ world' = RemoveObject(world, world.map[s]) /\ s # Player
  BY DEF DeleteObject
<1>3. world.map[s] \in Alive(world) /\ world.obj[world.map[s]].serial = s
  BY <1>1, <1>2, Found
<1>4. Tidy(world, world')
  BY <1>1, <1>2, <1>3, RemoveSparesPlayer
<1> QED BY <1>1, <1>4 DEF Handled

LEMMA DisplayDeathHandled ==
  ASSUME WInv, ~TwiceDead, NEW m \in Others, DisplayDeath(m)
  PROVE  Handled
<1>1. Playing /\ Good(world) /\ BodyOf[m] \in Bodies
  BY DEF DisplayDeath, WInv
<1>2. /\ world.map[m] # Null /\ world.map[BodyOf[m]] = Null
      /\ world' = ReplaceObject(world, world.map[m], BodyOf[m])
  BY DEF DisplayDeath
<1>3. Tidy(world, world')
  BY <1>1, <1>2, ReplaceTidy
<1> QED BY <1>1, <1>3 DEF Handled

LEMMA ContainerHandled ==
  ASSUME WInv, NEW k \in Containers, OpenContainer(k) \/ CloseContainer(k)
  PROVE  Handled
<1>1. Playing /\ Good(world) /\ Sound(world) /\ k \in Serials /\ world.map[k] # Null
  BY DEF OpenContainer, CloseContainer, WInv, Good, Serials
<1>2. world.map[k] \in Alive(world)
  BY <1>1, Found
<1>3. \/ world' = Clear(world, world.map[k])
      \/ world' = Empty(world, world.map[k])
  BY DEF OpenContainer, CloseContainer
<1>4. Pruned(world, world') /\ GroundSpared(world, world')
  BY <1>1, <1>2, <1>3, ClearPruned, EmptyPruned
<1> QED BY <1>1, <1>4, SparedTidy DEF Handled

LEMMA RangeHandled ==
  ASSUME WInv, NEW gone, Player \notin gone,
         ProcessAnimation(gone) \/ RemoveRangedObjects(gone)
  PROVE  Handled
<1> DEFINE dead == {c \in Cells : world.obj[c].serial \in gone}
<1>1. Playing /\ Good(world) /\ Sound(world) /\ Ground \in Keepers(world)
  BY DEF ProcessAnimation, RemoveRangedObjects, WInv, Good, Keepers
<1>2. world' = RemoveThose(world, Members(world, Ground), dead)
  BY DEF ProcessAnimation, RemoveRangedObjects
<1>3. world.map[Player] # Null =>
        /\ world.map[Player] \in Alive(world) /\ world.map[Player] \notin dead
        /\ Home(world, world.map[Player]) = Ground
  BY <1>1, PlayerOnGround
<1> HIDE DEF dead
<1>4. /\ Pruned(world, world')
      /\ \A x \in Alive(world) :
           Home(world, x) = Ground /\ x \notin Inmates(world, Ground) \cap dead => x \in Alive(world')
  BY <1>1, <1>2, RemoveThosePruned
<1>5. Tidy(world, world')
  BY <1>1, <1>3, <1>4, PrunedTidy
<1> QED BY <1>1, <1>5 DEF Handled

LEMMA RemovePickedHandled ==
  ASSUME WInv, RemovePicked
  PROVE  Handled
<1>1. Playing /\ Good(world) /\ Sound(world) /\ toRemove \in Serials /\ toRemove # Player
  BY DEF RemovePicked, WInv, Good, TypeOK, Serials
<1>2. CASE world.map[toRemove] = Null
  BY <1>1, <1>2, TidyRefl DEF RemovePicked, Handled
<1>3. CASE world.map[toRemove] # Null
  <2>1. world' = RemoveObject(world, world.map[toRemove])
    BY <1>3 DEF RemovePicked
  <2>2. world.map[toRemove] \in Alive(world) /\ world.obj[world.map[toRemove]].serial = toRemove
    BY <1>1, <1>3, Found
  <2>3. Tidy(world, world')
    BY <1>1, <2>1, <2>2, RemoveSparesPlayer
  <2> QED BY <1>1, <2>3 DEF Handled
<1> QED BY <1>2, <1>3

LEMMA DenyMoveItemStrands ==
  ASSUME WInv, DenyMoveItem
  PROVE  Playing /\ TidyBut(world, hand.serial, world') /\ hand' = NoHand
<1>1. Playing /\ Good(world) /\ Sound(world) /\ hand' = NoHand
  BY DEF DenyMoveItem, WInv, Good
<1>2. hand.serial \in Items /\ hand.serial \in Serials /\ hand.layer \in Layers
  BY DEF DenyMoveItem, WInv, TypeOK, Serials
<1>3. CASE hand.updated
  <2>1. world' = world
    BY <1>3 DEF DenyMoveItem
  <2> QED BY <1>1, <2>1, TidyRefl, TidyIsBut
<1>4. CASE ~hand.updated
  <2>1. world' = PutBack(world, hand.serial, hand.cont) /\ MayHold(world, hand.cont, hand.serial)
    BY <1>4 DEF DenyMoveItem
  <2>2. world' = PutBackHeap(world, hand.serial, hand.cont, hand.layer)
    BY <2>1 DEF PutBack, PutBackHeap
  <2>3. Fit(world, hand.serial, hand.cont)
    BY <1>1, <1>2, <2>1, MayHoldFits
  <2>4. TidyBut(world, hand.serial, world')
    BY <1>1, <1>2, <2>2, <2>3, PutBackTidy
  <2> QED BY <1>1, <2>4
<1> QED BY <1>3, <1>4

HandOK(h) ==
  /\ h \in [phase : {"empty", "held", "dropped"}, updated : BOOLEAN,
            serial : Items \cup {NoSerial}, cont : Owners, layer : Layers]
  /\ h.phase # "empty" => h.serial \in Movable

LEMMA NoHandOK == HandOK(NoHand)
BY DEF HandOK, NoHand, Owners, Layers, NoSerial

LEMMA ShownOK ==
  ASSUME HandOK(hand), NEW s
  PROVE  HandOK(Shown(s)) /\ HandOK(Arrived(s))
<1>1. HandOK([hand EXCEPT !.updated = TRUE])
  BY DEF HandOK
<1> QED BY <1>1, NoHandOK DEF Shown, Arrived

LEMMA PickupOK ==
  ASSUME WInv, NEW s \in Movable, PickupItem(s)
  PROVE  HandOK(hand') /\ toRemove' \in Items
<1> DEFINE c == world.map[s]
           k == world.obj[c].cont
           l == world.obj[c].layer
<1>1. s \in Items /\ s \in Serials /\ world \in Heaps
  BY DEF Serials, WInv, TypeOK
<1>2. c \in Cells
  BY <1>1, HeapFields DEF PickupItem, Pointers
<1>3. k \in Owners /\ l \in Layers
  BY <1>1, <1>2, HeapFields
<1>4. /\ hand' = [NoHand EXCEPT !.phase = "held", !.serial = s, !.cont = k, !.layer = l]
      /\ toRemove' = s
  BY DEF PickupItem
<1> HIDE DEF k, l
<1>5. hand' = [phase |-> "held", updated |-> FALSE, serial |-> s, cont |-> k, layer |-> l]
  BY <1>4 DEF NoHand
<1>6. HandOK([phase |-> "held", updated |-> FALSE, serial |-> s, cont |-> k, layer |-> l])
  BY <1>1, <1>3 DEF HandOK
<1>7. HandOK(hand')
  BY <1>5, <1>6
<1> QED BY <1>1, <1>4, <1>7

(* What is on the cursor stays an item the player picked up. *)
LEMMA HandStep ==
  ASSUME WInv, Next
  PROVE  HandOK(hand') /\ toRemove' \in Items \cup {NoSerial}
<1>1. HandOK(hand) /\ toRemove \in Items \cup {NoSerial}
  BY DEF HandOK, WInv, TypeOK
<1>2. CASE \E s \in Movable : PickupItem(s)
  BY <1>2, PickupOK
<1>3. CASE \E s \in Items : UpdateItem(s) \/ DeleteObject(s)
  BY <1>1, <1>3, ShownOK, NoHandOK DEF UpdateItem, DeleteObject
<1>4. CASE \E m \in Others : DeleteObject(m) \/ DisplayDeath(m)
  BY <1>1, <1>4, NoHandOK DEF DeleteObject, DisplayDeath
<1>5. CASE \E s \in Goods, k \in Holders : UpdateContainedItem(s, k)
  BY <1>1, <1>5, ShownOK DEF UpdateContainedItem
<1>6. CASE \E e \in Wearable, m \in Mobiles : EquipItem(e[1], m, e[2])
  BY <1>1, <1>6 DEF EquipItem
<1>7. CASE \E e \in Wearable, k \in Corpses : CorpseEquipment(e[1], k, e[2])
  BY <1>1, <1>7 DEF CorpseEquipment
<1>8. CASE \E m \in Mobiles, worn \in BoundedSeq(Wearable, 1) :
             \E opened \in SUBSET (IF world.map[m] = Null THEN {} ELSE Held(world, world.map[m])) :
               UpdateObject(m, opened, worn)
  BY <1>1, <1>8 DEF UpdateObject
<1>9. CASE \E k \in Containers : OpenContainer(k) \/ CloseContainer(k)
  BY <1>1, <1>9 DEF OpenContainer, CloseContainer
<1>10. CASE \E k \in Containers : \E s, t \in Goods : UpdateContainedItems(k, s, t)
  BY <1>1, <1>10, ShownOK DEF UpdateContainedItems
<1>11. CASE \E gone \in SUBSET (Held(world, Ground) \cap Bodies) : ProcessAnimation(gone)
  BY <1>1, <1>11 DEF ProcessAnimation
<1>12. CASE \E far \in SUBSET (Held(world, Ground) \ {Player}) : RemoveRangedObjects(far)
  BY <1>1, <1>12 DEF RemoveRangedObjects
<1>13. CASE EndDraggingItem \/ ClearWorld
  BY <1>1, <1>13, NoHandOK DEF EndDraggingItem, ClearWorld
<1>14. CASE DenyMoveItem
  BY <1>1, <1>14, NoHandOK DEF DenyMoveItem
<1>15. CASE DropItem
  <2>1. HandOK([hand EXCEPT !.phase = "dropped"])
    BY <1>1, <1>15 DEF DropItem, HandOK
  <2> QED BY <1>1, <1>15, <2>1 DEF DropItem
<1>16. CASE RemovePicked
  BY <1>1, <1>16 DEF RemovePicked
<1>17. CASE Login
  BY <1>1, <1>17 DEF Login
<1> QED BY <1>2, <1>3, <1>4, <1>5, <1>6, <1>7, <1>8, <1>9, <1>10, <1>11, <1>12, <1>13, <1>14,
           <1>15, <1>16, <1>17 DEF Next

(* What a step does to the world. *)
LEMMA WorldStep ==
  ASSUME WInv, ~TwiceDead, Next
  PROVE  Handled \/ DenyMoveItem \/ ClearWorld \/ Login
<1>1. CASE \E s \in Movable : PickupItem(s)
  <2>1. Playing /\ Good(world) /\ world' = world
    BY <1>1 DEF PickupItem, WInv
  <2> QED BY <2>1, TidyRefl DEF Handled
<1>2. CASE \E s \in Items : UpdateItem(s)
  BY <1>2, UpdateItemHandled
<1>3. CASE \E s \in Items \cup Others : DeleteObject(s)
  BY <1>3, DeleteObjectHandled
<1>4. CASE \E m \in Others : DisplayDeath(m)
  BY <1>4, DisplayDeathHandled
<1>5. CASE \E s \in Goods, k \in Holders : UpdateContainedItem(s, k)
  BY <1>5, UpdateContainedItemHandled
<1>6. CASE \E e \in Wearable, m \in Mobiles : EquipItem(e[1], m, e[2])
  BY <1>6, EquipItemHandled
<1>7. CASE \E e \in Wearable, k \in Corpses : CorpseEquipment(e[1], k, e[2])
  BY <1>7, CorpseEquipmentHandled
<1>8. CASE \E m \in Mobiles, worn \in BoundedSeq(Wearable, 1) :
             \E opened \in SUBSET (IF world.map[m] = Null THEN {} ELSE Held(world, world.map[m])) :
               UpdateObject(m, opened, worn)
  BY <1>8, UpdateObjectHandled
<1>9. CASE \E k \in Containers : OpenContainer(k) \/ CloseContainer(k)
  BY <1>9, ContainerHandled
<1>10. CASE \E k \in Containers : \E s, t \in Goods : UpdateContainedItems(k, s, t)
  BY <1>10, UpdateContainedItemsHandled
<1>11. CASE \E gone \in SUBSET Bodies : ProcessAnimation(gone)
  BY <1>11, RangeHandled
<1>s. CASE \E far \in SUBSET (Held(world, Ground) \ {Player}) : RemoveRangedObjects(far)
  BY <1>s, RangeHandled
<1>12. CASE EndDraggingItem \/ DropItem
  <2>1. Playing /\ Good(world) /\ world' = world
    BY <1>12 DEF EndDraggingItem, DropItem, WInv
  <2> QED BY <2>1, TidyRefl DEF Handled
<1>13. CASE RemovePicked
  BY <1>13, RemovePickedHandled
<1> QED BY <1>1, <1>2, <1>3, <1>4, <1>5, <1>6, <1>7, <1>8, <1>9, <1>10, <1>11, <1>s, <1>12, <1>13
        DEF Next

LEMMA ClearWorldStep ==
  ASSUME WInv, ClearWorld
  PROVE  /\ Playing /\ Pruned(world, ClearWorldHeap(world))
         /\ Inmates(ClearWorldHeap(world), Ground) = {}
         /\ world' \in Heaps /\ LinksSound(world')
         /\ world'.obj = ClearWorldHeap(world).obj
         /\ \A s \in Serials : world'.map[s] = Null
<1> DEFINE v == ClearWorldHeap(world)
<1>1. Playing /\ Sound(world) /\ world.map[Player] # Null
  BY DEF ClearWorld, WInv, Good, Playing
<1>2. world' = UnmapAll(v)
  BY DEF ClearWorld, UnmapAll, ClearWorldHeap
<1>3. Pruned(world, v) /\ Inmates(v, Ground) = {} /\ v.first[Ground] = Null
  BY <1>1, ClearWorldEmpties
<1> HIDE DEF v
<1>4. Sound(v) /\ v \in Heaps
  BY <1>3 DEF Pruned, Sound
<1>5. /\ world' \in Heaps /\ world'.obj = v.obj /\ world'.first = v.first
      /\ \A s \in Serials : world'.map[s] = Null
  BY <1>2, <1>3, <1>4, UnmapShape
<1>6. LinksSound(world')
  BY <1>4, <1>5, SoundLinks, SameLinks
<1> QED BY <1>1, <1>3, <1>5, <1>6 DEF v

LEMMA WInvInit == Init => WInv
<1> SUFFICES ASSUME Init PROVE WInv
  OBVIOUS
<1>1. Good(world) /\ Playing
  BY NewWorldGood DEF Init, Playing
<1>2. world \in Heaps /\ LinksSound(world)
  BY <1>1, SoundLinks DEF Good, Sound
<1>3. hand = NoHand /\ toRemove = NoSerial
  BY DEF Init
<1>4. HandOK(hand)
  BY <1>3, NoHandOK
<1> QED BY <1>1, <1>2, <1>3, <1>4 DEF WInv, TypeOK, HandOK

(* Only ClearWorld takes the player away. *)
LEMMA PlayingStays ==
  ASSUME WInv, Handled \/ DenyMoveItem \/ Login
  PROVE  Good(world') /\ Playing'
<1>1. CASE Handled
  BY <1>1 DEF Handled, Tidy, Stays, Playing
<1>2. CASE DenyMoveItem
  BY <1>2, DenyMoveItemStrands DEF TidyBut, Stays, Playing
<1>3. CASE Login
  BY <1>3, NewWorldGood DEF Login, Playing
<1> QED BY <1>1, <1>2, <1>3

(* The invariant is inductive where no mobile dies twice. *)
LEMMA WInvStep ==
  ASSUME WInv, ~TwiceDead, [Next]_vars
  PROVE  WInv'
<1>1. CASE UNCHANGED vars
  BY <1>1 DEF vars, WInv, TypeOK, Playing
<1>2. CASE Next
  <2>1. HandOK(hand') /\ toRemove' \in Items \cup {NoSerial}
    BY <1>2, HandStep
  <2>2. /\ world' \in Heaps /\ LinksSound(world')
        /\ Playing' => Good(world')
        /\ ~Playing' => \A s \in Serials : world'.map[s] = Null
    <3>1. CASE Handled \/ DenyMoveItem \/ Login
      <4>1. Good(world') /\ Playing'
        BY <3>1, PlayingStays
      <4> QED BY <4>1, SoundLinks DEF Good, Sound
    <3>2. CASE ClearWorld
      <4>1. Player \in Serials
        BY DEF Serials
      <4>2. ~Playing'
        BY <3>2, <4>1, ClearWorldStep DEF Playing
      <4> QED BY <3>2, <4>2, ClearWorldStep
    <3> QED BY <1>2, <3>1, <3>2, WorldStep
  <2>3. TypeOK'
    BY <2>1, <2>2 DEF TypeOK, HandOK
  <2>4. hand'.phase # "empty" => hand'.serial \in Movable
    BY <2>1 DEF HandOK
  <2> QED BY <2>2, <2>3, <2>4 DEF WInv
<1> QED BY <1>1, <1>2

-----------------------------------------------------------------------------
(* The links, m_Map and the containers tell the same story.                *)

LEMMA StrayIsLoose ==
  ASSUME NEW w, Sound(w), NEW s \in Serials
  PROVE  Stray(w, s) <=> Strayed(w, s)
<1> SUFFICES ASSUME w.map[s] # Null PROVE Stray(w, s) <=> Loose(w, w.map[s])
  BY DEF Stray, Strayed
<1> DEFINE c == w.map[s]
<1>1. c \in Alive(w) /\ w.obj[c].serial = s
  BY Found
<1>2. Held(w, Ground) = {w.obj[x].serial : x \in Inmates(w, Ground)}
  BY MembersSet DEF Held
<1>3. \A x \in Inmates(w, Ground) : x \in Alive(w) /\ w.map[w.obj[x].serial] = x
  BY DEF Inmates, Sound, Mapped
<1>4. s \in Held(w, Ground) <=> c \in Inmates(w, Ground)
  BY <1>1, <1>2, <1>3
<1>5. Loose(w, c) => w.obj[c].cont = NoSerial
  BY <1>1 DEF Sound, LooseSound
<1>6. w.obj[c].cont = NoSerial => Home(w, c) = Ground
  BY DEF Home
<1> QED BY <1>1, <1>4, <1>5, <1>6 DEF Stray, Inmates

LEMMA StoryTold ==
  ASSUME Good(world)
  PROVE  ContainerTells
<1>1. Sound(world) /\ Live = Alive(world)
  BY DEF Good, Live, Alive
<1>2. \A s \in Serials : world.map[s] # Null =>
        world.map[s] \in Live /\ world.obj[world.map[s]].serial = s
  BY <1>1 DEF Sound, Mapped
<1>3. ASSUME NEW k \in Live \cup {Ground}
      PROVE  ToSet(Members(world, k)) = Inmates(world, k)
  <2>1. k \in Cells \cup {Ground}
    BY DEF Live
  <2> QED BY <1>1, <2>1, MembersSet
<1>4. ASSUME NEW c \in Live
      PROVE  /\ world.map[world.obj[c].serial] = c
             /\ Home(world, c) # Null
             /\ \/ Stray(world, world.obj[c].serial)
                \/ c \in ToSet(Members(world, Home(world, c)))
  <2>1. /\ world.obj[c].serial \in Serials /\ world.map[world.obj[c].serial] = c
        /\ c # Null
    BY <1>1 DEF Sound, Mapped, Alive
  <2>2. Home(world, c) # Null /\ Home(world, c) \in Live \cup {Ground}
    BY <1>1, HomeOfAlive DEF Keepers
  <2>3. CASE Loose(world, c)
    <3>1. Strayed(world, world.obj[c].serial)
      BY <2>1, <2>3 DEF Strayed
    <3> QED BY <1>1, <2>1, <2>2, <3>1, StrayIsLoose
  <2>4. CASE ~Loose(world, c)
    <3>1. c \in Inmates(world, Home(world, c))
      BY <1>1, <2>4 DEF Inmates
    <3> QED BY <1>3, <2>1, <2>2, <3>1
  <2> QED BY <2>3, <2>4
<1>5. \A k \in Live \cup {Ground} : \A c \in ToSet(Members(world, k)) : Home(world, c) = k
  BY <1>3 DEF Inmates
<1> QED BY <1>2, <1>4, <1>5 DEF ContainerTells

LEMMA WInvHeapSound == WInv => HeapSound
<1> SUFFICES ASSUME WInv PROVE HeapSound
  OBVIOUS
<1>1. ListsSound
  BY DEF WInv, LinksSound, ListsSound, Live, Alive, Keepers
<1>2. ContainerTells
  <2>1. CASE Playing
    BY <2>1, StoryTold DEF WInv
  <2>2. CASE ~Playing
    BY <2>2 DEF ContainerTells
  <2> QED BY <2>1, <2>2
<1> QED BY <1>1, <1>2 DEF HeapSound

(* WInv holds in every state the packets, the frames and the player reach, *)
(* in any order, where no mobile dies while its last body lies there.      *)
THEOREM WorldInductive ==
  ASSUME ~TwiceDead
  PROVE  Spec => []WInv
<1>1. Init => WInv
  BY WInvInit
<1>2. WInv /\ [Next]_vars => WInv'
  BY WInvStep
<1> QED BY <1>1, <1>2, PTL DEF Spec

(* The heap, the item on the cursor and the item to be removed keep their  *)
(* types: no handler writes through a null pointer.                        *)
THEOREM WorldTypeOK ==
  ASSUME ~TwiceDead
  PROVE  Spec => []TypeOK
<1>1. WInv => TypeOK
  BY DEF WInv
<1> QED BY <1>1, WorldInductive, PTL

(* HeapSound for every set of objects: whatever Reject, AddItem, AddObject,*)
(* MoveToTop, the clearing loops and the destructors have done, the lists  *)
(* are doubly linked, nothing points to what was freed, and m_Map, the     *)
(* Containers and the lists agree.                                         *)
THEOREM HeapStaysSound ==
  ASSUME ~TwiceDead
  PROVE  Spec => []HeapSound
<1> QED BY WInvHeapSound, WorldInductive, PTL

(* OnlyDenyStrands for every set of objects: a refused item, put back where*)
(* its old container is gone, is the only one that m_Map knows and no list *)
(* holds.                                                                  *)
THEOREM OnlyDenialStrands ==
  ASSUME ~TwiceDead
  PROVE  Spec => OnlyDenyStrands
<1> DEFINE Strands == \A s \in Serials : Stray(world', s) /\ ~Stray(world, s) =>
                        s = hand.serial /\ hand' = NoHand /\ DenyMoveItem
<1>1. ASSUME WInv, Next PROVE Strands
  <2> SUFFICES ASSUME NEW s \in Serials, Stray(world', s), ~Stray(world, s)
               PROVE  s = hand.serial /\ hand' = NoHand /\ DenyMoveItem
    OBVIOUS
  <2>1. CASE Handled
    <3>1. Sound(world) /\ Sound(world') /\ Tidy(world, world')
      BY <1>1, <2>1 DEF Handled, Tidy, Good, WInv
    <3>2. Strayed(world', s) /\ ~Strayed(world, s)
      BY <3>1, StrayIsLoose
    <3> QED BY <3>1, <3>2 DEF Tidy
  <2>2. CASE DenyMoveItem
    <3>1. Playing /\ TidyBut(world, hand.serial, world') /\ hand' = NoHand
      BY <1>1, <2>2, DenyMoveItemStrands
    <3>2. Sound(world) /\ Sound(world')
      BY <1>1, <3>1 DEF TidyBut, Good, WInv
    <3>3. Strayed(world', s) /\ ~Strayed(world, s)
      BY <3>2, StrayIsLoose
    <3>4. s = hand.serial
      BY <3>1, <3>3 DEF TidyBut
    <3> QED BY <2>2, <3>1, <3>4
  <2>3. CASE ClearWorld
    BY <1>1, <2>3, ClearWorldStep DEF Stray
  <2>4. CASE Login
    <3>1. Sound(world') /\ ~Strayed(world', s)
      BY <2>4, NewWorldGood DEF Login, Good
    <3> QED BY <3>1, StrayIsLoose
  <2> QED BY <1>1, <2>1, <2>2, <2>3, <2>4, WorldStep
<1>2. WInv /\ [Next]_vars => [Strands]_vars
  BY <1>1
<1> QED BY <1>2, WorldInductive, PTL DEF Spec, OnlyDenyStrands

-----------------------------------------------------------------------------
(* GetTopObject.                                                           *)

LEMMA ReachingRun ==
  ASSUME NEW w \in Heaps
  PROVE  \A n \in 1..Size, c \in Cells :
           Reaching(w)[n][c] <=> \/ w.obj[c].cont = NoSerial
                                 \/ Reaching(w)[n - 1][Find(w, w.obj[c].cont)]
<1> DEFINE V == [Pointers -> BOOLEAN]
           first == [c \in Pointers |-> FALSE]
           further(g) == [c \in Pointers |->
                            c # Null /\ (w.obj[c].cont = NoSerial \/ g[Find(w, w.obj[c].cont)])]
           step == [n \in 1..Size |-> [g \in V |-> further(g)]]
           body(g, n) == [c \in Pointers |->
                            /\ c # Null /\ n # 0
                            /\ w.obj[c].cont = NoSerial \/ g[n - 1][Find(w, w.obj[c].cont)]]
           Reaches(f) == f = [n \in 0..Size |-> body(f, n)]
           A == Reaching(w)
<1>1. first \in V
  OBVIOUS
<1>2. ASSUME NEW g \in V PROVE further(g) \in V
  OBVIOUS
<1>3. step \in [1..Size -> [V -> V]]
  <2> HIDE DEF further, V
  <2> QED BY <1>2
<1>4. Size \in Nat
  BY SizeNat
<1>5. PICK f : IsRun(f, V, first, Size, step)
  <2> HIDE DEF first, step, V
  <2> QED BY <1>1, <1>3, <1>4, RunExists
<1>6. /\ f \in [0..Size -> V] /\ f[0] = first
      /\ \A n \in 1..Size : f[n] = further(f[n - 1])
  <2>1. ASSUME NEW n \in 1..Size PROVE f[n] = further(f[n - 1])
    <3>1. f[n - 1] \in V
      <4>1. n - 1 \in 0..Size
        BY <1>4
      <4> HIDE DEF V
      <4> QED BY <1>5, <4>1 DEF IsRun
    <3> HIDE DEF further, V
    <3> QED BY <1>5, <3>1 DEF IsRun
  <2> HIDE DEF first, V, further, step
  <2> QED BY <1>5, <2>1 DEF IsRun
<1>7. Reaches(f)
  <2>1. ASSUME NEW n \in 0..Size PROVE f[n] = body(f, n)
    <3>1. CASE n = 0
      <4>1. body(f, 0) = first
        OBVIOUS
      <4> HIDE DEF first, body
      <4> QED BY <1>6, <3>1, <4>1
    <3>2. CASE n # 0
      <4>1. n \in 1..Size /\ f[n] = further(f[n - 1])
        <5> HIDE DEF further
        <5> QED BY <1>4, <1>6, <3>2
      <4>2. further(f[n - 1]) = body(f, n)
        BY <3>2
      <4> QED BY <4>1, <4>2
    <3> QED BY <3>1, <3>2
  <2>2. f = [n \in 0..Size |-> f[n]]
    <3> HIDE DEF V
    <3> QED BY <1>6
  <2> HIDE DEF body
  <2> QED BY <2>1, <2>2
<1>8. A = CHOOSE g : Reaches(g)
  BY DEF Reaching, Size
<1>9. Reaches(A)
  <2> HIDE DEF Reaches, A
  <2> QED BY <1>7, <1>8
<1> HIDE DEF A
<1>10. SUFFICES ASSUME NEW n \in 1..Size, NEW c \in Cells
                PROVE  A[n][c] <=> \/ w.obj[c].cont = NoSerial
                                   \/ A[n - 1][Find(w, w.obj[c].cont)]
  BY DEF A
<1>11. A[n] = body(A, n)
  <2>1. n \in 0..Size
    BY <1>4
  <2>2. A = [i \in 0..Size |-> body(A, i)]
    BY <1>9
  <2> HIDE DEF body
  <2> QED BY <2>1, <2>2
<1>12. c \in Pointers /\ c # Null /\ n # 0
  BY <1>4 DEF Pointers
<1>13. A[n][c] = (/\ c # Null /\ n # 0
                  /\ w.obj[c].cont = NoSerial \/ A[n - 1][Find(w, w.obj[c].cont)])
  BY <1>11, <1>12
<1> QED BY <1>12, <1>13

(* In a sound heap every object lies in one that nobody holds. *)
LEMMA HomesReach ==
  ASSUME NEW w, Sound(w)
  PROVE  \A n \in 0..Size : \A U \in SUBSET Alive(w) :
           Cardinality(U) <= n /\ (\A x \in U : Home(w, x) \in U \cup {Ground})
             => \A c \in U : Reaching(w)[n][c]
<1> DEFINE Fits(n, U) ==
             Cardinality(U) <= n /\ \A x \in U : Home(w, x) \in U \cup {Ground}
           P(n) == \A U \in SUBSET Alive(w) : Fits(n, U) => \A c \in U : Reaching(w)[n][c]
           T == {n \in Nat : n <= Size => P(n)}
<1>1. w \in Heaps /\ Size \in Nat /\ Alive(w) \subseteq Cells
  BY SizeNat DEF Sound, Alive
<1>2. \A U \in SUBSET Alive(w) : IsFiniteSet(U) /\ Cardinality(U) \in Nat
  BY <1>1, SizeNat
<1>3. 0 \in T
  <2> SUFFICES ASSUME NEW U \in SUBSET Alive(w), NEW c \in U, Cardinality(U) <= 0
               PROVE FALSE
    OBVIOUS
  <2>1. Cardinality(U) = 0
    BY <1>2
  <2> QED BY <1>2, <2>1, FS_EmptySet
<1>4. ASSUME NEW n \in Nat, n \in T PROVE n + 1 \in T
  <2> SUFFICES ASSUME n + 1 <= Size, NEW U \in SUBSET Alive(w), NEW c \in U, Fits(n + 1, U)
               PROVE  Reaching(w)[n + 1][c]
    OBVIOUS
  <2>1. n <= Size /\ n + 1 \in 1..Size /\ (n + 1) - 1 = n
    BY <1>1
  <2>2. P(n)
    <3> HIDE DEF P
    <3> QED BY <1>4, <2>1
  <2>3. c \in Cells /\ c \in Alive(w)
    BY <1>1
  <2>4. Reaching(w)[n + 1][c] <=> \/ w.obj[c].cont = NoSerial
                                  \/ Reaching(w)[n][Find(w, w.obj[c].cont)]
    <3> DEFINE m == n + 1
    <3>1. m \in 1..Size /\ m - 1 = n
      BY <2>1
    <3> HIDE DEF m
    <3>2. Reaching(w)[m][c] <=> \/ w.obj[c].cont = NoSerial
                                \/ Reaching(w)[m - 1][Find(w, w.obj[c].cont)]
      BY <1>1, <2>3, <3>1, ReachingRun
    <3> QED BY <3>1, <3>2 DEF m
  <2>5. CASE w.obj[c].cont = NoSerial
    BY <2>4, <2>5
  <2>6. CASE w.obj[c].cont # NoSerial
    <3> DEFINE h == Home(w, c)
               D == Subtree(w, c)
               W == U \ D
    <3>1. Find(w, w.obj[c].cont) = h
      BY <2>6 DEF Home
    <3>2. h # Ground
      BY <2>3, <2>6, HomeOfAlive
    <3>3. h \in U
      BY <3>2
    <3>4. Branch(w, c, D) /\ Closed(w, D)
      BY <2>3, SubtreeBranch, SubtreeLeast
    <3> HIDE DEF D
    <3>5. h \notin D
      BY <2>3, <3>4, BranchBeside
    <3>6. \A x \in W : Home(w, x) \in W \cup {Ground}
      BY <3>4 DEF Closed
    <3>7. W \in SUBSET Alive(w) /\ W \subseteq U \ {c}
      BY <3>4 DEF Branch
    <3>8. Cardinality(W) <= n
      <4>1. Cardinality(U \ {c}) = Cardinality(U) - 1
        BY <1>2, FS_RemoveElement
      <4>2. IsFiniteSet(U \ {c}) /\ Cardinality(U \ {c}) \in Nat
        BY <1>2
      <4>3. Cardinality(W) <= Cardinality(U \ {c})
        BY <3>7, <4>2, FS_Subset
      <4>4. Cardinality(W) \in Nat /\ Cardinality(U) \in Nat /\ Cardinality(U) <= n + 1
        BY <1>2, <3>7
      <4> HIDE DEF W
      <4> QED BY <4>1, <4>3, <4>4
    <3>9. Fits(n, W) /\ h \in W
      BY <3>3, <3>5, <3>6, <3>8
    <3> HIDE DEF h, W, Fits
    <3>10. Reaching(w)[n][h]
      BY <2>2, <3>7, <3>9
    <3> QED BY <2>4, <3>1, <3>10
  <2> QED BY <2>5, <2>6
<1>5. Nat \subseteq T
  <2> HIDE DEF T
  <2> QED BY <1>3, <1>4, NatSetInduction
<1> QED BY <1>1, <1>5

LEMMA TopReached ==
  ASSUME NEW w, Sound(w), NEW s \in Serials, w.map[s] # Null
  PROVE  Reaching(w)[Size][w.map[s]]
<1> DEFINE U == Alive(w)
<1>1. w.map[s] \in U
  BY Found
<1>2. U \in SUBSET Cells
  BY DEF Alive
<1>3. Cardinality(U) <= Size /\ Size \in 0..Size
  BY <1>2, SizeNat
<1>4. \A x \in U : Home(w, x) \in U \cup {Ground}
  BY DEF Sound, Housed, Keepers
<1> QED BY <1>1, <1>3, <1>4, HomesReach

LEMMA WInvTopResolves == WInv => TopResolves
<1> SUFFICES ASSUME WInv, NEW s \in Serials, world.map[s] # Null
             PROVE  Reaching(world)[Size][world.map[s]]
  BY DEF TopResolves, Size
<1>1. Playing
  BY DEF WInv
<1> QED BY <1>1, TopReached DEF WInv, Good

(* TopResolves for every set of objects: GetTopObject, which follows the   *)
(* Containers without a test for null, ends at an object nobody holds.     *)
THEOREM TopAlwaysResolves ==
  ASSUME ~TwiceDead
  PROVE  Spec => []TopResolves
<1> QED BY WInvTopResolves, WorldInductive, PTL

-----------------------------------------------------------------------------
(* ~CGameWorld.                                                            *)

(* Whoever is left when the ground is empty lies in someone who was in no  *)
(* list. *)
LEMMA SurvivorStrays ==
  ASSUME NEW w, Sound(w), NEW v, Pruned(w, v), Inmates(v, Ground) = {}, NEW c \in Alive(v)
  PROVE  \E s \in Serials : Strayed(w, s) /\ c \in Subtree(w, w.map[s])
<1> DEFINE Lost(x) == \E y \in Alive(w) : Loose(w, y) /\ x \in Subtree(w, y)
           S == {x \in Alive(v) : ~Lost(x)}
<1>1. Sound(v) /\ Alive(v) \subseteq Alive(w)
  BY DEF Pruned
<1>2. \A y \in Alive(w) : y \in Subtree(w, y) /\ Closed(w, Subtree(w, y))
  BY SubtreeLeast
<1>3. S = {}
  <2> SUFFICES ASSUME S # {} PROVE FALSE
    OBVIOUS
  <2>1. S \in SUBSET Alive(v)
    OBVIOUS
  <2>2. PICK x \in S : Home(v, x) \notin S
    <3> HIDE DEF S
    <3> QED BY <1>1, <2>1 DEF Sound, HomesEnd
  <2>3. x \in Alive(v) /\ x \in Alive(w) /\ ~Lost(x)
    BY <1>1, <2>2
  <2>4. Home(v, x) = Home(w, x) /\ (Loose(v, x) <=> Loose(w, x)) /\ Home(v, x) \in Keepers(v)
    BY <1>1, <2>3 DEF Pruned, Sound, Housed
  <2>5. CASE Home(v, x) = Ground
    <3>1. Loose(w, x)
      BY <2>3, <2>4, <2>5 DEF Inmates
    <3> QED BY <1>2, <2>3, <3>1
  <2>6. CASE Home(v, x) # Ground
    <3>1. Home(v, x) \in Alive(v)
      BY <2>4, <2>6 DEF Keepers
    <3>2. Lost(Home(w, x))
      BY <2>2, <2>4, <3>1
    <3>3. PICK y \in Alive(w) : Loose(w, y) /\ Home(w, x) \in Subtree(w, y)
      BY <3>2
    <3>4. x \in Subtree(w, y)
      BY <1>2, <2>3, <3>3 DEF Closed
    <3> QED BY <2>3, <3>3, <3>4
  <2> QED BY <2>5, <2>6
<1>4. Lost(c)
  <2> HIDE DEF Lost
  <2> QED BY <1>3
<1>5. PICK y \in Alive(w) : Loose(w, y) /\ c \in Subtree(w, y)
  BY <1>4
<1>6. w.obj[y].serial \in Serials /\ w.map[w.obj[y].serial] = y /\ y # Null
  BY DEF Sound, Mapped, Alive
<1> QED BY <1>5, <1>6 DEF Strayed

(* ClearWorldFrees for every set of objects: what outlives the world was   *)
(* left in no list by DenyMoveItem, or lies in such an object.             *)
THEOREM ClearingFrees ==
  ASSUME ~TwiceDead
  PROVE  Spec => ClearWorldFrees
<1> DEFINE Freed == ~Playing' => \A c \in Live' :
                      \E s \in Serials : Stray(world, s) /\ c \in Subtree(world, world.map[s])
<1>1. ASSUME WInv, Next PROVE Freed
  <2> SUFFICES ASSUME ~Playing', NEW c \in Live'
               PROVE  \E s \in Serials : Stray(world, s) /\ c \in Subtree(world, world.map[s])
    OBVIOUS
  <2>1. ClearWorld
    BY <1>1, PlayingStays, WorldStep
  <2> DEFINE v == ClearWorldHeap(world)
  <2>2. Playing /\ Pruned(world, v) /\ Inmates(v, Ground) = {} /\ world'.obj = v.obj
    BY <1>1, <2>1, ClearWorldStep
  <2> HIDE DEF v
  <2>3. Sound(world)
    BY <1>1, <2>2 DEF WInv, Good
  <2>4. c \in Alive(v)
    BY <2>2 DEF Live, Alive
  <2>5. PICK s \in Serials : Strayed(world, s) /\ c \in Subtree(world, world.map[s])
    BY <2>2, <2>3, <2>4, SurvivorStrays
  <2> QED BY <2>3, <2>5, StrayIsLoose
<1>2. WInv /\ [Next]_vars => [Freed]_vars
  BY <1>1
<1> QED BY <1>2, WorldInductive, PTL DEF Spec, ClearWorldFrees

=============================================================================
