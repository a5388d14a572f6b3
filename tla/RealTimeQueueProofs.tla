------------------------- MODULE RealTimeQueueProofs -------------------------
(***************************************************************************)
(* For every set of values and every largest size, a rotation of the       *)
(* Hood-Melville queue ends in time and a version is a queue of its        *)
(* contents.                                                               *)
(***************************************************************************)
EXTENDS RealTimeQueue, SequenceTheorems, TLAPS

List == Seq(Value)

RotationType ==
    [ state : {"Idle", "Reversing", "Appending", "Done"}, ok : Nat,
      front : List, front_reversed : List, rear : List, rear_reversed : List ]

QueueType ==
    [ front_size : Nat, front : List, rotation : RotationType,
      rear_size : Nat, rear : List ]

(* What a rotation is going to hold. *)
Product(r) ==
    ((Reversed(r.front_reversed, r.ok) \o r.front) \o Reversed(r.rear, Len(r.rear)))
        \o r.rear_reversed

(* The updates since a rotation began, without those of the rear list. *)
Popped(r) == Len(r.front_reversed) - r.ok

(* A rotation after some of its steps, when pops can still take kept       *)
(* values from the old front.                                              *)
Running(r, kept, steps) ==
    /\ r \in RotationType
    /\ r.ok \in 0 .. Len(r.front_reversed)
    /\ \/ /\ r.state = "Reversing"
          /\ Len(r.rear) = Len(r.front) + 1
          /\ Len(r.rear_reversed) = Len(r.front_reversed)
          /\ kept = r.ok + Len(r.front)
          /\ Len(r.front_reversed) = steps
       \/ /\ r.state = "Appending"
          /\ r.front = << >> /\ r.rear = << >>
          /\ Len(r.rear_reversed) = steps
          /\ 2 * (kept - r.ok) = Len(r.rear_reversed) - Len(r.front_reversed) - 1

IsPrefix(list, whole) ==
    Len(list) <= Len(whole) /\ \A i \in 1 .. Len(list) : list[i] = whole[i]

(* A version that an update may be made of: updates is twice the number of *)
(* updates since the rotation began, and steps how many have been executed.*)
Sound(q, steps) ==
    /\ q \in QueueType
    /\ q.rear_size = Len(q.rear)
    /\ q.front_size = Len(Rotated(q))
    /\ IsPrefix(q.front, Rotated(q))
    /\ \/ q.rotation = Idle
       \/ Running(q.rotation, Len(q.front), steps)

(* A version just before the steps of an update are executed. *)
Pending(q) ==
    /\ q \in QueueType
    /\ q.rear_size = Len(q.rear)
    /\ q.front_size = Len(Rotated(q))
    /\ IsPrefix(q.front, Rotated(q))
    /\ \/ q.rotation = Idle
       \/ q.rotation = Done(Rotated(q))
       \/ Running(q.rotation, Len(q.front), 2 * (Popped(q.rotation) + q.rear_size))

(* A version that is returned. *)
Returned(q) ==
    /\ Sound(q, 2 * (Popped(q.rotation) + q.rear_size + 1))
    /\ q.rear_size <= q.front_size

IInv == Returned(queue) /\ size(queue) <= SizeMax
-----------------------------------------------------------------------------
(* The list with a value before it. *)
LEMMA ConsProperties ==
    ASSUME NEW v \in Value, NEW list \in List
    PROVE  /\ Cons(v, list) \in List
           /\ Len(Cons(v, list)) = Len(list) + 1
           /\ Cons(v, list)[1] = v
           /\ \A i \in 1 .. Len(list) : Cons(v, list)[i + 1] = list[i]
  <1> QED
    BY ConcatProperties DEF Cons, List

(* The reversal of the first n values is a list of n values. *)
LEMMA ReversedProperties ==
    ASSUME NEW list \in List, NEW n \in 0 .. Len(list)
    PROVE  /\ Reversed(list, n) \in List
           /\ Len(Reversed(list, n)) = n
           /\ \A i \in 1 .. n : Reversed(list, n)[i] = list[n - i + 1]
  <1> QED
    BY SeqDef DEF Reversed, List

(* What is consed onto a list comes last in its reversal. *)
LEMMA ReversedCons ==
    ASSUME NEW v \in Value, NEW list \in List, NEW n \in 0 .. Len(list)
    PROVE  Reversed(Cons(v, list), n + 1) = Reversed(list, n) \o <<v>>
  <1> DEFINE left == Reversed(Cons(v, list), n + 1)
             right == Reversed(list, n) \o <<v>>
  <1>0. Len(list) \in Nat
    BY DEF List
  <1>1. /\ left \in List /\ Len(left) = n + 1
        /\ \A i \in 1 .. n + 1 : left[i] = Cons(v, list)[n + 1 - i + 1]
    <2>1. n + 1 \in 0 .. Len(Cons(v, list))
      BY <1>0, ConsProperties
    <2> QED BY <2>1, ConsProperties, ReversedProperties
  <1>2. <<v>> \in List /\ Len(<<v>>) = 1 /\ <<v>>[1] = v
    BY DEF List
  <1>3. /\ right \in List /\ Len(right) = n + 1
        /\ \A i \in 1 .. n + 1 : right[i] = IF i <= n THEN list[n - i + 1] ELSE v
    BY <1>0, <1>2, ReversedProperties, ConcatProperties DEF List
  <1>c. /\ Cons(v, list)[1] = v
        /\ \A i \in 1 .. Len(list) : Cons(v, list)[i + 1] = list[i]
    BY ConsProperties
  <1> HIDE DEF left, right
  <1>4. \A i \in 1 .. n + 1 : left[i] = right[i]
    <2> SUFFICES ASSUME NEW i \in 1 .. n + 1 PROVE left[i] = right[i]
      OBVIOUS
    <2>1. CASE i <= n
      <3>1. n - i + 1 \in 1 .. Len(list) /\ n + 1 - i + 1 = (n - i + 1) + 1
        BY <1>0, <2>1
      <3>2. left[i] = Cons(v, list)[(n - i + 1) + 1]
        BY <1>1, <3>1
      <3>3. Cons(v, list)[(n - i + 1) + 1] = list[n - i + 1]
        BY <1>c, <3>1
      <3> QED BY <1>3, <2>1, <3>2, <3>3
    <2>2. CASE i = n + 1
      <3>1. n + 1 - i + 1 = 1
        BY <1>0, <2>2
      <3>2. left[i] = v
        BY <1>1, <1>c, <3>1
      <3>3. ~(i <= n)
        BY <1>0, <2>2
      <3> QED BY <1>3, <3>2, <3>3
    <2> QED BY <1>0, <2>1, <2>2
  <1>5. left = right
    BY <1>1, <1>3, <1>4, SeqEqual DEF List
  <1> QED BY <1>5 DEF left, right

(* A list that is not empty is its head consed onto its tail. *)
LEMMA HeadAndTail ==
    ASSUME NEW list \in List, list # << >>
    PROVE  /\ Head(list) \in Value /\ Tail(list) \in List
           /\ Len(Tail(list)) = Len(list) - 1
           /\ list = Cons(Head(list), Tail(list))
  <1>a. Len(list) \in Nat /\ list # << >>
    BY DEF List
  <1>b. Head(list) \in Value /\ Tail(list) \in List /\ Len(Tail(list)) = Len(list) - 1
    BY <1>a, HeadTailProperties DEF List
  <1> DEFINE cons == Cons(Head(list), Tail(list))
  <1>1. /\ cons \in List /\ Len(cons) = Len(list) /\ cons[1] = Head(list)
        /\ \A i \in 1 .. Len(Tail(list)) : cons[i + 1] = Tail(list)[i]
    <2>1. /\ cons \in List /\ Len(cons) = Len(Tail(list)) + 1 /\ cons[1] = Head(list)
          /\ \A i \in 1 .. Len(Tail(list)) : cons[i + 1] = Tail(list)[i]
      BY <1>b, ConsProperties
    <2> QED BY <1>a, <1>b, <2>1
  <1> HIDE DEF cons
  <1>2. \A i \in 1 .. Len(list) : list[i] = cons[i]
    <2> SUFFICES ASSUME NEW i \in 1 .. Len(list) PROVE list[i] = cons[i]
      OBVIOUS
    <2>1. CASE i = 1
      BY <1>a, <1>1, <2>1 DEF List
    <2>2. CASE i # 1
      BY <1>a, <1>b, <2>2, HeadTailProperties, <1>1 DEF List
    <2> QED BY <2>1, <2>2
  <1> QED
    BY <1>b, <1>1, <1>2, SeqEqual DEF cons, List

(* The head of a list is the last value of its reversal. *)
LEMMA ReversedHead ==
    ASSUME NEW list \in List, NEW n \in 1 .. Len(list)
    PROVE  Reversed(list, n) = Reversed(Tail(list), n - 1) \o <<Head(list)>>
  <1>0. Len(list) \in Nat /\ list # << >>
    BY DEF List
  <1>1. Head(list) \in Value /\ Tail(list) \in List /\ Len(Tail(list)) = Len(list) - 1
    BY <1>0, HeadTailProperties DEF List
  <1>3. n - 1 \in 0 .. Len(Tail(list)) /\ (n - 1) + 1 = n
    BY <1>0, <1>1
  <1> QED
    BY <1>0, HeadAndTail, <1>3, <1>1, ReversedCons

(* The tail of a reversal leaves out the last of the values reversed. *)
LEMMA ReversedTail ==
    ASSUME NEW list \in List, NEW n \in 1 .. Len(list)
    PROVE  Tail(Reversed(list, n)) = Reversed(list, n - 1)
  <1> DEFINE r == Reversed(list, n)
  <1>0. Len(list) \in Nat /\ n \in Nat /\ n \in 0 .. Len(list) /\ n - 1 \in 0 .. Len(list)
    BY DEF List
  <1>1. r \in List /\ Len(r) = n /\ \A i \in 1 .. n : r[i] = list[n - i + 1]
    BY <1>0, ReversedProperties
  <1>2. /\ Reversed(list, n - 1) \in List
        /\ Len(Reversed(list, n - 1)) = n - 1
        /\ \A i \in 1 .. n - 1 : Reversed(list, n - 1)[i] = list[(n - 1) - i + 1]
    BY <1>0, ReversedProperties
  <1> HIDE DEF r
  <1>4. Tail(r) \in List /\ Len(Tail(r)) = n - 1 /\ \A i \in 1 .. n - 1 : Tail(r)[i] = r[i + 1]
    BY <1>1, <1>0, HeadTailProperties DEF List
  <1>5. \A i \in 1 .. n - 1 : Tail(r)[i] = Reversed(list, n - 1)[i]
    <2> SUFFICES ASSUME NEW i \in 1 .. n - 1 PROVE Tail(r)[i] = Reversed(list, n - 1)[i]
      OBVIOUS
    <2>1. i + 1 \in 1 .. n /\ n - (i + 1) + 1 = (n - 1) - i + 1
      BY <1>0
    <2> QED BY <1>1, <1>2, <1>4, <2>1, ZenonT(60)
  <1> QED
    BY <1>2, <1>4, <1>5, SeqEqual DEF r, List
-----------------------------------------------------------------------------
(* A value moves from one list to the next: the concatenation is the same. *)
LEMMA MovedLeft ==
    \A a, b \in List, v \in Value : (a \o <<v>>) \o b = a \o Cons(v, b)
  <1> SUFFICES ASSUME NEW a \in List, NEW b \in List, NEW v \in Value
               PROVE  (a \o <<v>>) \o b = a \o Cons(v, b)
    OBVIOUS
  <1> QED
    BY ConcatAssociative DEF Cons, List

(* A value that ends one list may begin the next one instead. *)
LEMMA MovedRight ==
    \A a, c, d \in List, v \in Value :
        (a \o (c \o <<v>>)) \o d = (a \o c) \o Cons(v, d)
  <1> SUFFICES ASSUME NEW a \in List, NEW c \in List, NEW d \in List, NEW v \in Value
               PROVE  (a \o (c \o <<v>>)) \o d = (a \o c) \o Cons(v, d)
    OBVIOUS
  <1>2. a \o (c \o <<v>>) = (a \o c) \o <<v>>
    BY ConcatAssociative DEF List
  <1>4. ((a \o c) \o <<v>>) \o d = (a \o c) \o Cons(v, d)
    BY ConcatProperties, MovedLeft DEF List
  <1> QED BY <1>2, <1>4

(* Lists make lists. *)
LEMMA ConcatList ==
    \A s, t \in List :
        /\ s \o t \in List
        /\ Len(s \o t) = Len(s) + Len(t)
        /\ \A i \in 1 .. Len(s) + Len(t) :
               (s \o t)[i] = IF i <= Len(s) THEN s[i] ELSE t[i - Len(s)]
  BY ConcatProperties DEF List

(* A list has a length. *)
LEMMA LenList == \A s \in List : Len(s) \in Nat
  BY DEF List

(* Four lists in a row make a list of all their lengths. *)
LEMMA ConcatFour ==
    \A a, b, c, d \in List :
        /\ ((a \o b) \o c) \o d \in List
        /\ Len(((a \o b) \o c) \o d) = Len(a) + Len(b) + Len(c) + Len(d)
  <1> SUFFICES ASSUME NEW a \in List, NEW b \in List, NEW c \in List, NEW d \in List
               PROVE  /\ ((a \o b) \o c) \o d \in List
                      /\ Len(((a \o b) \o c) \o d) = Len(a) + Len(b) + Len(c) + Len(d)
    OBVIOUS
  <1> QED
    BY ConcatList

(* What a rotation is going to hold is a list of the kept values and the rear. *)
LEMMA ProductProperties ==
    ASSUME NEW r \in RotationType, r.ok \in 0 .. Len(r.front_reversed)
    PROVE  /\ Product(r) \in List
           /\ Len(Product(r)) = r.ok + Len(r.front) + Len(r.rear) + Len(r.rear_reversed)
  <1> DEFINE a == Reversed(r.front_reversed, r.ok)
             b == r.front
             c == Reversed(r.rear, Len(r.rear))
             d == r.rear_reversed
  <1>1. r.front_reversed \in List /\ b \in List /\ r.rear \in List /\ d \in List
    BY DEF RotationType
  <1>2. Len(r.rear) \in 0 .. Len(r.rear)
    BY <1>1, LenList
  <1>3. a \in List /\ c \in List
    BY <1>1, <1>2, ReversedProperties
  <1>l. Len(a) = r.ok /\ Len(c) = Len(r.rear)
    BY <1>1, <1>2, ReversedProperties
  <1>4. Product(r) = ((a \o b) \o c) \o d
    BY DEF Product
  <1> HIDE DEF a, b, c, d
  <1>5. /\ ((a \o b) \o c) \o d \in List
        /\ Len(((a \o b) \o c) \o d) = Len(a) + Len(b) + Len(c) + Len(d)
    BY <1>1, <1>3, ConcatFour
  <1> QED BY <1>l, <1>4, <1>5 DEF b, d

(* Typing of what a step makes. *)
LEMMA RotationTyping ==
    \A ok \in Nat, f, fr, re, rr \in List :
        /\ Reversing(ok, f, fr, re, rr) \in RotationType
        /\ Appending(ok, fr, rr) \in RotationType
        /\ Done(f) \in RotationType
  <1> QED
    BY DEF Reversing, Appending, Done, Rotation, RotationType, List

(* A list is not empty if it has a length of one or more. *)
LEMMA NotEmpty == \A s \in List : s # << >> <=> Len(s) >= 1
  <1> SUFFICES ASSUME NEW s \in Seq(Value) PROVE s # << >> <=> Len(s) >= 1
    BY DEF List
  <1> QED
    BY EmptySeq

(* What lengths of one and of zero say of a list. *)
LEMMA EmptyOrOne == \A s \in List : (Len(s) = 1 => s # << >>) /\ (Len(s) = 0 => s = << >>)
  BY NotEmpty

(* Two lengths that shrink together keep their difference. *)
LEMMA BothShrink == \A x, y \in Nat : (x - 1) - (y - 1) = x - y
  OBVIOUS

(* A reversing step moves the head of each list to the reversed one. *)
LEMMA ReversingStepIsSound ==
    ASSUME NEW r, NEW kept \in Nat, NEW steps \in Nat, Running(r, kept, steps),
           r.state = "Reversing", r.front # << >>
    PROVE  /\ Running(ExecuteOnce(r), kept, steps + 1)
           /\ Product(ExecuteOnce(r)) = Product(r)
           /\ Popped(ExecuteOnce(r)) = Popped(r)
  <1> DEFINE h == Head(r.front)
             k == Head(r.rear)
             f == Tail(r.front)
             e == Tail(r.rear)
             fr == Cons(h, r.front_reversed)
             rr == Cons(k, r.rear_reversed)
             s == Reversing(r.ok + 1, f, fr, e, rr)
             a == Reversed(r.front_reversed, r.ok)
             c == Reversed(e, Len(e))
  <1>1. /\ r.front_reversed \in List /\ r.front \in List /\ r.rear \in List
        /\ r.rear_reversed \in List /\ r.ok \in Nat
    BY DEF Running, RotationType
  <1>2. /\ r.ok \in 0 .. Len(r.front_reversed)
        /\ Len(r.rear) = Len(r.front) + 1
        /\ Len(r.rear_reversed) = Len(r.front_reversed)
        /\ kept = r.ok + Len(r.front)
        /\ Len(r.front_reversed) = steps
    BY DEF Running
  <1>3. r.rear # << >>
    BY <1>1, <1>2, NotEmpty, LenList
  <1>4. ExecuteOnce(r) = s
    BY <1>3 DEF ExecuteOnce, ReversingStep
  <1>5. h \in Value /\ f \in List /\ Len(f) = Len(r.front) - 1 /\ r.front = Cons(h, f)
    BY <1>1, HeadAndTail
  <1>6. k \in Value /\ e \in List /\ Len(e) = Len(r.rear) - 1 /\ r.rear = Cons(k, e)
    BY <1>1, <1>3, HeadAndTail
  <1>7. fr \in List /\ Len(fr) = Len(r.front_reversed) + 1
    BY ONLY <1>1, <1>5, ConsProperties
  <1>8. rr \in List /\ Len(rr) = Len(r.rear_reversed) + 1
    BY ONLY <1>1, <1>6, ConsProperties
  <1>9. /\ s.state = "Reversing" /\ s.ok = r.ok + 1 /\ s.front = f /\ s.front_reversed = fr
        /\ s.rear = e /\ s.rear_reversed = rr
    BY DEF Reversing, Rotation
  <1>n. /\ Len(r.front) \in Nat /\ Len(r.front_reversed) \in Nat
        /\ Len(r.rear) \in Nat /\ Len(r.rear_reversed) \in Nat
    BY <1>1, LenList
  <1>10. s \in RotationType
    BY <1>1, <1>5, <1>6, <1>7, <1>8, RotationTyping, SMTT(30)
  <1>13. Reversed(r.rear, Len(r.rear)) = c \o <<k>>
    <2>1. Len(r.rear) \in 1 .. Len(r.rear)
      BY <1>n, <1>2
    <2> QED BY <1>1, <1>6, <2>1, ReversedHead
  <1>14. a \in List /\ c \in List
    <2>1. Len(e) \in 0 .. Len(e)
      BY <1>6, LenList
    <2> QED BY <1>1, <1>2, <1>6, <2>1, ReversedProperties
  <1>15. Product(r) = ((a \o Cons(h, f)) \o (c \o <<k>>)) \o r.rear_reversed
    BY <1>5, <1>13 DEF Product
  <1>16. Product(s) = (((a \o <<h>>) \o f) \o c) \o rr
    BY <1>9, <1>1, <1>2, <1>5, ReversedCons DEF Product
  <1>r. rr = Cons(k, r.rear_reversed)
    OBVIOUS
  <1> HIDE DEF a, c, h, k, f, e, fr, rr, s
  <1>11. Running(s, kept, steps + 1) /\ Popped(s) = Popped(r)
    <2> DEFINE n == Len(r.front_reversed)
               l == Len(r.front)
               i == r.ok
    <2>a. n \in Nat /\ l \in Nat /\ i \in 0 .. n
      BY <1>1, <1>n, <1>2
    <2>b. /\ n = steps /\ kept = i + l
          /\ Len(r.rear) = l + 1 /\ Len(r.rear_reversed) = n
      BY <1>2
    <2>c. /\ s.ok = i + 1 /\ Len(s.front_reversed) = n + 1 /\ Len(s.front) = l - 1
          /\ Len(s.rear) = Len(r.rear) - 1 /\ Len(s.rear_reversed) = Len(r.rear_reversed) + 1
      BY <1>5, <1>6, <1>7, <1>8, <1>9
    <2>d. Popped(r) = n - i /\ Popped(s) = (n + 1) - (i + 1)
      BY <2>c DEF Popped
    <2> HIDE DEF n, l, i
    <2>1. i + 1 \in 0 .. n + 1 /\ (n + 1) - (i + 1) = n - i
      BY <2>a
    <2>3. /\ s.ok \in 0 .. Len(s.front_reversed)
          /\ Len(s.rear) = Len(s.front) + 1
          /\ Len(s.rear_reversed) = Len(s.front_reversed)
          /\ kept = s.ok + Len(s.front)
          /\ Len(s.front_reversed) = steps + 1
      BY <2>b, <2>c, <2>1, <2>a
    <2> QED
      BY <2>d, <2>1, <1>10, <1>9, <2>3 DEF Running
  <1>17. Product(r) = Product(s)
    <2> DEFINE x == a \o Cons(h, f)
    <2>x. x \in List
      BY <1>5, <1>14, ConsProperties, ConcatList
    <2> HIDE DEF x
    <2>k. k \in Value /\ c \in List
      BY <1>6, <1>14
    <2> DEFINE y == r.rear_reversed
    <2> HIDE DEF y
    <2>w. y \in List
      BY <1>1 DEF y
    <2>z. (x \o (c \o <<k>>)) \o y = (x \o c) \o Cons(k, y)
      BY <2>k, <2>x, <2>w, MovedRight
    <2> QED
      BY <1>15, <1>16, <1>r, <2>z, <1>5, <1>14, MovedLeft DEF x, y
  <1> QED BY <1>4, <1>11, <1>17

(* No value of a list in reverse. *)
LEMMA ReversedNone == \A list \in List : Reversed(list, 0) = << >>
  <1> SUFFICES ASSUME NEW list \in List PROVE Reversed(list, 0) = << >>
    OBVIOUS
  <1> QED
    BY LenList, ReversedProperties, NotEmpty

(* The empty list. *)
LEMMA EmptyList == << >> \in List /\ Len(<< >>) = 0
  BY EmptySeq DEF List

(* The empty list adds nothing. *)
LEMMA ConcatEmpty == \A s \in List : s \o << >> = s /\ << >> \o s = s
  BY ConcatEmptySeq DEF List

(* What a rotation that is appending is going to hold. *)
LEMMA AppendingProduct ==
    ASSUME NEW r \in RotationType, r.front = << >>, r.rear = << >>,
           r.ok \in 0 .. Len(r.front_reversed)
    PROVE  Product(r) = Reversed(r.front_reversed, r.ok) \o r.rear_reversed
  <1> DEFINE a == Reversed(r.front_reversed, r.ok)
  <1> HIDE DEF a
  <1> QED
    BY EmptyList, ReversedNone, ReversedProperties, ConcatEmpty DEF a, RotationType,
       Product

(* The last reversing step takes the one value that the rear has more.     *)
LEMMA LastReversingStepIsSound ==
    ASSUME NEW r, NEW kept \in Nat, NEW steps \in Nat, Running(r, kept, steps),
           r.state = "Reversing", r.front = << >>
    PROVE  /\ Running(ExecuteOnce(r), kept, steps + 1)
           /\ Product(ExecuteOnce(r)) = Product(r)
           /\ Popped(ExecuteOnce(r)) = Popped(r)
  <1> DEFINE k == Head(r.rear)
             e == Tail(r.rear)
             rr == Cons(k, r.rear_reversed)
             s == Appending(r.ok, r.front_reversed, rr)
             a == Reversed(r.front_reversed, r.ok) \o r.front
             c == Reversed(e, Len(e))
  <1>1. /\ r.front_reversed \in List /\ r.front \in List /\ r.rear \in List
        /\ r.rear_reversed \in List /\ r.ok \in Nat
    BY DEF Running, RotationType
  <1>2. /\ r.ok \in 0 .. Len(r.front_reversed)
        /\ Len(r.rear) = 1
        /\ Len(r.rear_reversed) = Len(r.front_reversed)
        /\ kept = r.ok
        /\ Len(r.front_reversed) = steps
    BY <1>1, EmptyList DEF Running
  <1>3. r.rear # << >>
    BY <1>1, <1>2, EmptyOrOne, Zenon
  <1>6. k \in Value /\ e \in List /\ Len(e) = 0
    BY <1>1, <1>2, <1>3, HeadAndTail
  <1>7. e = << >>
    BY <1>6, EmptyOrOne, Zenon
  <1>4. ExecuteOnce(r) = s
    BY <1>3, <1>7 DEF ExecuteOnce, ReversingStep
  <1>8. rr \in List /\ Len(rr) = Len(r.rear_reversed) + 1
    BY <1>1, <1>6, ConsProperties
  <1>9. /\ s.state = "Appending" /\ s.ok = r.ok /\ s.front = << >>
        /\ s.front_reversed = r.front_reversed
        /\ s.rear = << >> /\ s.rear_reversed = rr
    BY DEF Appending, Rotation
  <1>10. s \in RotationType
    BY <1>1, <1>8, RotationTyping, EmptyList
  <1>13. Reversed(r.rear, Len(r.rear)) = c \o <<k>>
    <2>2. Len(e) = Len(r.rear) - 1
      BY <1>2, <1>6
    <2>3. Reversed(r.rear, Len(r.rear)) = Reversed(e, Len(r.rear) - 1) \o <<k>>
      BY <1>1, <1>2, ReversedHead
    <2> QED BY <2>2, <2>3
  <1>14. a \in List /\ c \in List
    <2>1. Len(e) \in 0 .. Len(e)
      BY <1>6
    <2> QED
      BY <1>1, <1>6, <2>1, <1>2, ReversedProperties, ConcatList
  <1>15. Product(r) = (a \o (c \o <<k>>)) \o r.rear_reversed
    BY ONLY <1>13 DEF Product
  <1>16. Product(s) = (a \o c) \o rr
    BY <1>7, <1>9 DEF Product
  <1>r. rr = Cons(k, r.rear_reversed)
    OBVIOUS
  <1> HIDE DEF a, c, k, e, rr, s
  <1>17. Product(r) = Product(s)
    <2>0. r.rear_reversed \in List /\ k \in Value
      BY <1>1, <1>6
    <2> QED
      BY <1>15, <1>16, <1>r, <1>14, <2>0, MovedRight
  <1> QED
    BY <1>4, <1>2, <1>9, <1>8, <1>1, <1>10, <1>17 DEF Running, Popped

(* An appending step takes a kept value from the reversed front, or is     *)
(* the last one.                                                           *)
LEMMA AppendingStepIsSound ==
    ASSUME NEW r, NEW kept \in Nat, NEW steps \in Nat, Running(r, kept, steps),
           r.state = "Appending"
    PROVE  \/ ExecuteOnce(r) = Done(Product(r))
           \/ /\ Running(ExecuteOnce(r), kept, steps + 1)
              /\ Product(ExecuteOnce(r)) = Product(r)
              /\ Popped(ExecuteOnce(r)) = Popped(r)
  <1> DEFINE h == Head(r.front_reversed)
             f == Tail(r.front_reversed)
             rr == Cons(h, r.rear_reversed)
             s == Appending(r.ok - 1, f, rr)
             a == Reversed(f, r.ok - 1)
  <1>1. /\ r.front_reversed \in List /\ r.rear_reversed \in List /\ r.ok \in Nat
        /\ r \in RotationType
    BY DEF Running, RotationType
  <1>2. /\ r.ok \in 0 .. Len(r.front_reversed)
        /\ r.front = << >> /\ r.rear = << >>
        /\ Len(r.rear_reversed) = steps
        /\ 2 * (kept - r.ok) = Len(r.rear_reversed) - Len(r.front_reversed) - 1
    BY DEF Running
  <1>n. Len(r.front_reversed) \in Nat /\ Len(r.rear_reversed) \in Nat
    BY <1>1, LenList
  <1>3. Product(r) = Reversed(r.front_reversed, r.ok) \o r.rear_reversed
    BY <1>1, <1>2, AppendingProduct
  <1>4. CASE r.ok = 0
    BY <1>1, <1>4, ReversedNone, <1>3, ConcatEmpty DEF ExecuteOnce, AppendingStep
  <1>5. CASE r.ok # 0
    <2>1. r.front_reversed # << >> /\ r.ok \in 1 .. Len(r.front_reversed)
      BY <1>1, <1>2, <1>n, <1>5, NotEmpty
    <2>2. ExecuteOnce(r) = s
      BY <1>5, <2>1 DEF ExecuteOnce, AppendingStep
    <2>3. h \in Value /\ f \in List /\ Len(f) = Len(r.front_reversed) - 1
      BY <1>1, <2>1, HeadAndTail
    <2>4. rr \in List /\ Len(rr) = Len(r.rear_reversed) + 1
      BY <1>1, <2>3, ConsProperties
    <2>5. /\ s.state = "Appending" /\ s.ok = r.ok - 1 /\ s.front = << >>
          /\ s.front_reversed = f /\ s.rear = << >> /\ s.rear_reversed = rr
      BY DEF Appending, Rotation
    <2>6. r.ok - 1 \in Nat /\ r.ok - 1 \in 0 .. Len(f)
      BY <1>1, <1>n, <2>1, <2>3
    <2>7. s \in RotationType
      BY <2>3, <2>4, <2>6, RotationTyping, EmptyList
    <2>8. Reversed(r.front_reversed, r.ok) = a \o <<h>>
      BY <1>1, <2>1, ReversedHead
    <2>9. a \in List
      BY <2>3, <2>6, ReversedProperties
    <2>10. s.ok \in 0 .. Len(s.front_reversed)
      BY <2>5, <2>6
    <2>11. Product(s) = a \o rr
      BY <2>5, <2>7, <2>10, AppendingProduct
    <2>r. rr = Cons(h, r.rear_reversed)
      OBVIOUS
    <2> HIDE DEF a, h, f, rr, s
    <2>12. Product(s) = Product(r)
      <3>1. (a \o <<h>>) \o r.rear_reversed = a \o Cons(h, r.rear_reversed)
        BY <1>1, <2>3, <2>9, MovedLeft
      <3> QED BY <1>3, <2>8, <2>11, <2>r, <3>1
    <2>13. Running(s, kept, steps + 1) /\ Popped(s) = Popped(r)
      <3>4. /\ Len(s.front_reversed) = Len(r.front_reversed) - 1
            /\ Len(s.rear_reversed) = Len(r.rear_reversed) + 1
            /\ s.ok = r.ok - 1
        BY <2>3, <2>4, <2>5
      <3>5. 2 * (kept - r.ok) = Len(r.rear_reversed) - Len(r.front_reversed) - 1
        BY <1>2
      <3>2. 2 * (kept - s.ok) = Len(s.rear_reversed) - Len(s.front_reversed) - 1
        <4> DEFINE x == Len(r.rear_reversed)
                   y == Len(r.front_reversed)
                   i == r.ok
        <4>1. x \in Nat /\ y \in Nat /\ i \in Nat
          BY <1>1, <1>n
        <4>2. Len(s.rear_reversed) = x + 1 /\ Len(s.front_reversed) = y - 1 /\ s.ok = i - 1
          BY <3>4
        <4>3. 2 * (kept - i) = x - y - 1
          BY <3>5
        <4> HIDE DEF x, y, i
        <4> QED
          BY <4>2, <4>1, <4>3
      <3>3. Len(s.front_reversed) - s.ok = Len(r.front_reversed) - r.ok
        BY <1>1, <1>n, <3>4, BothShrink, ZenonT(60)
      <3> QED
        BY <2>5, <2>7, <2>10, <1>2, <2>4, <3>2, <3>3 DEF Running, Popped
    <2> QED BY <2>2, <2>12, <2>13
  <1> QED BY <1>4, <1>5

(* A step of a rotation leaves what the rotation is going to hold alone,   *)
(* and never fails.                                                        *)
LEMMA StepIsSound ==
    ASSUME NEW r, NEW kept \in Nat, NEW steps \in Nat, Running(r, kept, steps)
    PROVE  \/ ExecuteOnce(r) = Done(Product(r))
           \/ /\ Running(ExecuteOnce(r), kept, steps + 1)
              /\ Product(ExecuteOnce(r)) = Product(r)
              /\ Popped(ExecuteOnce(r)) = Popped(r)
  <1>1. CASE r.state = "Reversing" /\ r.front # << >>
    BY <1>1, ReversingStepIsSound
  <1>2. CASE r.state = "Reversing" /\ r.front = << >>
    BY <1>2, LastReversingStepIsSound
  <1>3. CASE r.state = "Appending"
    BY <1>3, AppendingStepIsSound
  <1> QED BY <1>1, <1>2, <1>3 DEF Running

(* The two steps of an update. *)
LEMMA TwoStepsAreSound ==
    ASSUME NEW r, NEW kept \in Nat, NEW steps \in Nat, Running(r, kept, steps)
    PROVE  LET s == ExecuteOnce(ExecuteOnce(r))
           IN  \/ s = Done(Product(r))
               \/ /\ Running(s, kept, steps + 2)
                  /\ Product(s) = Product(r)
                  /\ Popped(s) = Popped(r)
  <1> DEFINE t == ExecuteOnce(r)
  <1>1. CASE t = Done(Product(r))
    <2>1. ExecuteOnce(Done(Product(r))) = Done(Product(r))
      BY DEF ExecuteOnce, Done, Rotation
    <2> QED BY <1>1, <2>1
  <1>2. CASE Running(t, kept, steps + 1) /\ Product(t) = Product(r) /\ Popped(t) = Popped(r)
    <2> HIDE DEF t
    <2> QED
      BY <1>2, StepIsSound DEF t
  <1> QED BY <1>1, <1>2, StepIsSound
-----------------------------------------------------------------------------
(* The rotation of a version that has none. *)
LEMMA IdleType == Idle \in RotationType /\ Idle.state = "Idle"
  BY EmptyList DEF Idle, Rotation, RotationType

(* How many values a running rotation is going to hold. *)
LEMMA RunningProduct ==
    ASSUME NEW r, NEW kept, NEW steps, Running(r, kept, steps)
    PROVE  /\ r \in RotationType /\ r.ok \in 0 .. Len(r.front_reversed)
           /\ r.state # "Idle"
           /\ Product(r) \in List
           /\ Len(Product(r)) >= steps + r.ok
           /\ steps \in Nat
  <1>4. Len(r.rear_reversed) = steps /\ r.state # "Idle"
    BY DEF Running
  <1> QED
    BY ProductProperties, LenList, <1>4 DEF RotationType, Running

(* A list begins with itself. *)
LEMMA PrefixOfItself == \A s \in List : IsPrefix(s, s)
  BY LenList DEF IsPrefix

(* Two steps of a rotation that is running, or has just ended, keep a version sound. *)
LEMMA ExecuteTwiceIsSound ==
    ASSUME NEW q, Pending(q), q.rear_size <= q.front_size
    PROVE  /\ Returned(ExecuteTwice(q))
           /\ Contents(ExecuteTwice(q)) = Contents(q)
           /\ ExecuteTwice(q).rotation.state # "Impossible"
  <1> DEFINE r == q.rotation
             t == ExecuteOnce(ExecuteOnce(r))
             p == ExecuteTwice(q)
  <1>1. /\ q \in QueueType /\ q.rear_size = Len(q.rear) /\ q.front_size = Len(Rotated(q))
        /\ IsPrefix(q.front, Rotated(q))
    BY DEF Pending
  <1>2. /\ r \in RotationType /\ q.front \in List /\ q.rear \in List
        /\ q.rear_size \in Nat /\ q.front_size \in Nat
    BY <1>1 DEF QueueType
  \* the rotation has ended
  <1>3. ASSUME NEW list \in List, list = Rotated(q), p = [q EXCEPT !.front = list, !.rotation = Idle]
        PROVE  Returned(p) /\ Contents(p) = Contents(q) /\ p.rotation.state # "Impossible"
    <2>1. /\ p \in QueueType /\ p.front = list /\ p.rotation = Idle
          /\ p.rear = q.rear /\ p.rear_size = q.rear_size /\ p.front_size = q.front_size
      BY <1>1, <1>2, <1>3, IdleType DEF QueueType
    <2> HIDE DEF p
    <2> QED
      BY <2>1, <1>3, IdleType, <1>1, PrefixOfItself DEF Contents, Returned, Sound, Rotated
  <1>4. CASE r = Idle
    <2>3. p = [q EXCEPT !.rotation = Idle]
      BY <1>4, IdleType DEF ExecuteTwice, ExecuteOnce, Idle, Rotation
    <2> QED
      BY <1>2, <1>3, <1>4, IdleType, <2>3, <1>1, ZenonT(60) DEF Rotated, QueueType
  <1>5. CASE r = Done(Rotated(q))
    <2>2. t.state = "Done" /\ t.front = Rotated(q)
      BY <1>5 DEF Done, Rotation, ExecuteOnce
    <2>4. Rotated(q) \in List
      BY <1>2, <1>5 DEF RotationType, Done, Rotation
    <2> QED
      BY <1>3, <2>2, <2>4 DEF ExecuteTwice
  <1>6. CASE Running(r, Len(q.front), 2 * (Popped(r) + q.rear_size))
    <2> DEFINE steps == 2 * (Popped(r) + q.rear_size)
    <2>1. /\ steps \in Nat /\ Len(q.front) \in Nat /\ r.state # "Idle" /\ Product(r) \in List
      BY <1>2, <1>6, RunningProduct, LenList
    <2>2. Rotated(q) = Product(r)
      BY <2>1 DEF Rotated, Product
    <2>4. CASE t = Done(Product(r))
      <3>2. p = [q EXCEPT !.front = Product(r), !.rotation = Idle]
        BY <2>4 DEF ExecuteTwice, Done, Rotation
      <3> QED BY <1>3, <2>1, <2>2, <3>2
    <2>5. CASE Running(t, Len(q.front), steps + 2) /\ Product(t) = Product(r) /\ Popped(t) = Popped(r)
      <3>1. t.state \in {"Reversing", "Appending"} /\ t \in RotationType
        BY <2>5 DEF Running
      <3>3. /\ p \in QueueType /\ p.front = q.front /\ p.rotation = t
            /\ p.rear = q.rear /\ p.rear_size = q.rear_size /\ p.front_size = q.front_size
        BY <1>1, <3>1 DEF QueueType, ExecuteTwice
      <3>4. Rotated(p) = Product(r)
        BY <2>5, <3>1, <3>3 DEF Rotated, Product
      <3>6. steps + 2 = 2 * (Popped(t) + q.rear_size + 1)
        BY <1>2, LenList, <2>5, SMTT(30) DEF Popped, RotationType
      <3> HIDE DEF p, t, steps
      <3>7. Returned(p)
        BY <1>1, <2>2, <2>5, <3>3, <3>4, <3>6 DEF Returned, Sound
      <3> QED
        BY <2>2, <3>3, <3>4, <3>7, <3>1 DEF p, Contents
    <2> QED
      BY <1>6, <2>1, TwoStepsAreSound, <2>4, <2>5
  <1> QED BY <1>4, <1>5, <1>6 DEF Pending

(* A rotation that is done holds its list. *)
LEMMA DoneProduct ==
    \A list \in List : Done(list) \in RotationType /\ Product(Done(list)) = list
  <1> SUFFICES ASSUME NEW list \in List
               PROVE  Done(list) \in RotationType /\ Product(Done(list)) = list
    OBVIOUS
  <1> QED
    BY EmptyList, ReversedNone, ConcatEmpty, RotationTyping DEF Product, Done, Rotation

(* The rotation that check() begins stands for the whole version. *)
LEMMA NewRotation ==
    ASSUME NEW front \in List, NEW rear \in List, Len(rear) = Len(front) + 1
    PROVE  LET r == Reversing(0, front, << >>, rear, << >>)
           IN  /\ Running(r, Len(front), 0) /\ Popped(r) = 0
               /\ r.state = "Reversing"
               /\ Product(r) = front \o Reversed(rear, Len(rear))
  <1> DEFINE r == Reversing(0, front, << >>, rear, << >>)
             c == Reversed(rear, Len(rear))
  <1>1. /\ r.state = "Reversing" /\ r.ok = 0 /\ r.front = front /\ r.front_reversed = << >>
        /\ r.rear = rear /\ r.rear_reversed = << >>
    BY DEF Reversing, Rotation
  <1>2. r \in RotationType
    BY RotationTyping, EmptyList
  <1>3. c \in List
    BY LenList, ReversedProperties
  <1>4. Product(r) = ((Reversed(<< >>, 0) \o front) \o c) \o << >>
    BY <1>1 DEF Product
  <1> HIDE DEF r, c
  <1>5. Product(r) = front \o c
    <2>4. (front \o c) \o << >> = front \o c
      BY <1>3, ConcatList, ConcatEmpty
    <2> QED
      BY <1>4, EmptyList, ReversedNone, ConcatEmpty, <2>4
  <1>6. Running(r, Len(front), 0)
    BY <1>1, EmptyList, LenList, <1>2 DEF Running
  <1> QED
    BY <1>1, <1>5, <1>6, EmptyList DEF r, c, Popped

(* A list begins what it is continued to. *)
LEMMA PrefixOfConcat == \A s, t \in List : IsPrefix(s, s \o t)
  BY ConcatList, LenList DEF IsPrefix

(* check() makes a version that can be returned: when it must begin a      *)
(* rotation, the one before has ended.                                     *)
LEMMA CheckIsSound ==
    ASSUME NEW q, Pending(q),
           q.rear_size <= q.front_size \/ (q.rotation = Idle /\ q.rear_size = q.front_size + 1)
    PROVE  /\ Returned(Check(q))
           /\ Contents(Check(q)) = Contents(q)
           /\ Check(q).rotation.state # "Impossible"
  <1>1. /\ q \in QueueType /\ q.rear_size = Len(q.rear) /\ q.front_size = Len(Rotated(q))
    BY DEF Pending
  <1>2. /\ q.front \in List /\ q.rear \in List /\ q.rear_size \in Nat /\ q.front_size \in Nat
    BY <1>1 DEF QueueType
  <1>3. CASE q.rear_size <= q.front_size
    BY <1>3, ExecuteTwiceIsSound DEF Check
  <1>4. CASE q.rotation = Idle /\ q.rear_size = q.front_size + 1
    <2> DEFINE r == Reversing(0, q.front, << >>, q.rear, << >>)
               c == Reversed(q.rear, Len(q.rear))
               p == [ front_size |-> q.front_size + q.rear_size, front |-> q.front,
                      rotation |-> r, rear_size |-> 0, rear |-> << >> ]
    <2>1. Check(q) = ExecuteTwice(p)
      BY <1>2, <1>4 DEF Check
    <2>2. Rotated(q) = q.front
      BY <1>4, IdleType DEF Rotated
    <2>3. Len(q.rear) = Len(q.front) + 1
      BY <1>1, <1>4, <2>2
    <2>4. /\ Running(r, Len(q.front), 0) /\ Popped(r) = 0
          /\ r.state = "Reversing" /\ Product(r) = q.front \o c
      BY <1>2, <2>3, NewRotation
    <2>5. c \in List /\ Len(c) = q.rear_size
      BY <1>1, <1>2, ReversedProperties
    <2>6. Contents(q) = q.front \o c
      BY <1>1, <2>2 DEF Contents
    <2>7. /\ p.rotation = r /\ p.front = q.front /\ p.rear_size = 0 /\ p.rear = << >>
          /\ p.front_size = q.front_size + q.rear_size
      OBVIOUS
    <2>8. p \in QueueType
      BY <2>4, <1>2, EmptyList DEF Running, QueueType
    <2> HIDE DEF p, r, c
    <2>9. Rotated(p) = q.front \o c
      BY <2>4, <2>7 DEF Rotated, Product
    <2>10. q.front \o c \in List /\ Len(q.front \o c) = p.front_size
      <3>2. q.front \o c \in List /\ Len(q.front \o c) = Len(q.front) + Len(c)
        BY <1>2, <2>5, ConcatList
      <3> QED
        BY <2>5, <2>7, <1>1, <2>2, <3>2
    <2>11. Contents(p) = Contents(q)
      BY <2>7, EmptyList, ReversedNone, <2>10, ConcatEmpty, <2>6, <2>9 DEF Contents
    <2>12. IsPrefix(p.front, Rotated(p))
      BY <1>2, <2>5, <2>7, <2>9, PrefixOfConcat
    <2>15. Pending(p)
      BY <2>8, <2>9, <2>10, <2>12, <2>4, <2>7, EmptyList DEF Pending
    <2> QED
      BY <2>1, <2>11, <2>15, <1>2, <2>7, ExecuteTwiceIsSound
  <1> QED BY <1>3, <1>4
-----------------------------------------------------------------------------
(* The parts of a version that a call returned. *)
LEMMA ReturnedType ==
    ASSUME NEW q, Returned(q)
    PROVE  /\ q \in QueueType /\ q.rear_size = Len(q.rear)
           /\ q.front_size = Len(Rotated(q)) /\ IsPrefix(q.front, Rotated(q))
           /\ q.rear_size <= q.front_size
           /\ q.rotation \in RotationType
           /\ q.front \in List /\ q.rear \in List /\ Rotated(q) \in List
           /\ q.rear_size \in Nat /\ q.front_size \in Nat
           /\ q.rotation.state = "Idle" => q.rotation = Idle /\ Rotated(q) = q.front
           /\ q.rotation.state # "Idle" =>
                 /\ Running(q.rotation, Len(q.front),
                            2 * (Popped(q.rotation) + q.rear_size + 1))
                 /\ Rotated(q) = Product(q.rotation)
  <1>1. /\ q \in QueueType /\ q.rear_size = Len(q.rear)
        /\ q.front_size = Len(Rotated(q)) /\ IsPrefix(q.front, Rotated(q))
        /\ q.rear_size <= q.front_size
    BY DEF Returned, Sound
  <1>2. /\ q.front \in List /\ q.rear \in List /\ q.rotation \in RotationType
        /\ q.rear_size \in Nat /\ q.front_size \in Nat
    BY <1>1 DEF QueueType
  <1>3. CASE q.rotation = Idle
    BY ONLY <1>3, IdleType, <1>1, <1>2 DEF Rotated
  <1>4. CASE Running(q.rotation, Len(q.front), 2 * (Popped(q.rotation) + q.rear_size + 1))
    BY <1>4, RunningProduct, <1>1, <1>2 DEF Rotated, Product
  <1> QED BY <1>3, <1>4 DEF Returned, Sound

(* The contents of a version are as many as its size says. *)
LEMMA ContentsProperties ==
    ASSUME NEW q, Returned(q)
    PROVE  /\ Contents(q) \in List
           /\ Len(Contents(q)) = size(q)
           /\ Reversed(q.rear, q.rear_size) \in List
  <1> DEFINE c == Reversed(q.rear, q.rear_size)
  <1>1. /\ q.rear_size = Len(q.rear) /\ q.front_size = Len(Rotated(q))
        /\ q.rear \in List /\ Rotated(q) \in List /\ q.rear_size \in Nat
    BY ReturnedType
  <1>3. c \in List /\ Len(c) = q.rear_size
    BY <1>1, ReversedProperties
  <1> HIDE DEF c
  <1>5. Rotated(q) \o c \in List /\ Len(Rotated(q) \o c) = Len(Rotated(q)) + Len(c)
    BY <1>1, <1>3, ConcatList
  <1> QED
    BY <1>3, <1>5, <1>1 DEF c, size, Contents

(* While a rotation runs, some value of the old front is left to pop. *)
LEMMA KeptArithmetic ==
    ASSUME NEW ok \in Nat, NEW copied \in Nat, NEW left \in Nat, NEW kept \in Nat,
           NEW pushed \in Nat, NEW done \in Int, ok <= copied,
           \/ kept = ok + left /\ copied = 2 * (copied - ok + pushed + 1)
           \/ 2 * (kept - ok) = done - copied - 1 /\ done = 2 * (copied - ok + pushed + 1)
    PROVE  kept # 0
  OBVIOUS

(* The list that pops take from is empty only in an empty queue, and its   *)
(* head is the first of the contents.                                      *)
LEMMA FrontIsFirst ==
    ASSUME NEW q, Returned(q)
    PROVE  /\ q.front = << >> <=> Contents(q) = << >>
           /\ q.front = << >> <=> size(q) = 0
           /\ q.front # << >> =>
                 /\ Head(q.front) = Head(Contents(q))
                 /\ Rotated(q) # << >> /\ Len(Rotated(q)) >= 1
  <1> DEFINE r == q.rotation
  <1>1. /\ q.rear_size = Len(q.rear) /\ q.front_size = Len(Rotated(q))
        /\ q.front \in List /\ Rotated(q) \in List /\ q.rear_size \in Nat
        /\ q.front_size \in Nat /\ q.rear_size <= q.front_size
        /\ IsPrefix(q.front, Rotated(q)) /\ r \in RotationType
        /\ r.state = "Idle" => Rotated(q) = q.front
        /\ r.state # "Idle" => Running(r, Len(q.front), 2 * (Popped(r) + q.rear_size + 1))
    BY ReturnedType
  <1>2. /\ Contents(q) \in List /\ Len(Contents(q)) = q.front_size + q.rear_size
        /\ Reversed(q.rear, q.rear_size) \in List
    BY ContentsProperties DEF size
  <1>3. Len(q.front) = 0 => q.front_size = 0
    <2>1. CASE r.state = "Idle"
      BY <1>1, <2>1
    <2>2. CASE r.state # "Idle"
      <3>1. Running(r, Len(q.front), 2 * (Popped(r) + q.rear_size + 1))
        BY <1>1, <2>2
      <3>2. /\ r.ok \in Nat /\ Len(r.front_reversed) \in Nat /\ Len(r.front) \in Nat
            /\ Len(q.front) \in Nat /\ r.ok <= Len(r.front_reversed)
        BY <1>1, <3>1, LenList DEF RotationType, Running
      <3>3. CASE r.state = "Reversing"
        <4>2. 0 \in Int
          OBVIOUS
        <4> HIDE DEF r
        <4> QED
          BY <3>2, <3>1, <3>3, <4>2, <1>1, KeptArithmetic DEF Running, Popped
      <3>4. CASE r.state = "Appending"
        <4> HIDE DEF r
        <4> QED
          BY <3>2, <3>1, <3>4, <1>1, LenList, KeptArithmetic, SMTT(30) DEF Running, Popped,
             RotationType
      <3> QED BY <3>1, <3>3, <3>4 DEF Running
    <2> QED BY <2>1, <2>2
  <1>4. Len(q.front) \in Nat /\ Len(q.front) <= q.front_size
    BY <1>1, LenList DEF IsPrefix
  <1>5. q.front = << >> <=> Len(q.front) = 0
    BY <1>1, <1>4, NotEmpty
  <1>8. ASSUME q.front # << >>
        PROVE  Head(q.front) = Head(Contents(q)) /\ Rotated(q) # << >> /\ Len(Rotated(q)) >= 1
    <2>1. Len(q.front) >= 1 /\ Len(Rotated(q)) >= 1 /\ 1 \in 1 .. Len(q.front)
      BY <1>1, <1>4, <1>5, <1>8
    <2>4. Contents(q)[1] = Rotated(q)[1]
      <3> DEFINE c == Reversed(q.rear, q.rear_size)
                 d == Rotated(q)
      <3>2. c \in List /\ d \in List /\ Len(d) >= 1
        BY <1>1, <1>2, <2>1
      <3> HIDE DEF c, d
      <3> QED
        BY <3>2, LenList, ConcatList DEF d, Contents
    <2> QED
      BY <2>1, <1>1, NotEmpty, <2>4 DEF IsPrefix
  <1> QED
    BY <1>2, <1>5, <1>1, NotEmpty, <1>3, <1>4, <1>8 DEF size
-----------------------------------------------------------------------------
Pushed(q, value) == [q EXCEPT !.rear = Cons(value, @), !.rear_size = @ + 1]

(* A push makes a version that check() can work on, with the value last. *)
LEMMA PushIsSound ==
    ASSUME NEW q, Returned(q), NEW value \in Value
    PROVE  /\ Pending(Pushed(q, value))
           /\ \/ Pushed(q, value).rear_size <= Pushed(q, value).front_size
              \/ /\ Pushed(q, value).rotation = Idle
                 /\ Pushed(q, value).rear_size = Pushed(q, value).front_size + 1
           /\ Contents(Pushed(q, value)) = Append(Contents(q), value)
  <1> DEFINE p == Pushed(q, value)
             r == q.rotation
             c == Reversed(q.rear, q.rear_size)
  <1>1. /\ q \in QueueType /\ q.rear_size = Len(q.rear) /\ q.front_size = Len(Rotated(q))
        /\ IsPrefix(q.front, Rotated(q)) /\ q.rear_size <= q.front_size
        /\ q.front \in List /\ q.rear \in List /\ Rotated(q) \in List
        /\ q.rear_size \in Nat /\ q.front_size \in Nat /\ r \in RotationType
        /\ r.state = "Idle" => r = Idle
        /\ r.state # "Idle" =>
              /\ Running(r, Len(q.front), 2 * (Popped(r) + q.rear_size + 1))
              /\ Rotated(q) = Product(r)
    BY ReturnedType
  <1>2. Cons(value, q.rear) \in List /\ Len(Cons(value, q.rear)) = q.rear_size + 1
    BY <1>1, ConsProperties
  <1>3. /\ p \in QueueType /\ p.front_size = q.front_size /\ p.front = q.front
        /\ p.rotation = r /\ p.rear_size = q.rear_size + 1 /\ p.rear = Cons(value, q.rear)
    <2> DEFINE list == Cons(value, q.rear)
               n == q.rear_size + 1
    <2>1. p = [q EXCEPT !.rear = list, !.rear_size = n]
      BY DEF Pushed
    <2>2. q \in QueueType /\ list \in List /\ n \in Nat
      BY <1>1, <1>2
    <2> HIDE DEF list, n, p
    <2> QED
      BY <2>1, <2>2 DEF list, n, QueueType
  <1>4. Rotated(p) = Rotated(q)
    BY <1>3 DEF Rotated
  <1>5. Reversed(Cons(value, q.rear), q.rear_size + 1) = c \o <<value>>
    <2>1. q.rear_size \in 0 .. Len(q.rear)
      BY <1>1
    <2> QED BY <1>1, <2>1, ReversedCons
  <1>6. Contents(p) = Append(Contents(q), value)
    <2>2. Contents(q) = Rotated(q) \o c
      BY DEF Contents
    <2>3. c \in List
      BY ContentsProperties
    <2> HIDE DEF c, p
    <2>5. Rotated(q) \o (c \o <<value>>) = (Rotated(q) \o c) \o <<value>>
      BY <1>1, <2>3, ConcatAssociative DEF List
    <2>7. Append(Rotated(q) \o c, value) = (Rotated(q) \o c) \o <<value>>
      BY <1>1, <2>3, ConcatList, AppendIsConcat DEF List
    <2> QED
      BY <1>3, <1>4, <1>5, <2>2, <2>5, <2>7 DEF Contents
  <1> HIDE DEF p
  <1>7. CASE r.state = "Idle"
    BY <1>1, <1>3, <1>7, <1>2, <1>4, <1>6 DEF Pending, p
  <1>8. CASE r.state # "Idle"
    <2>1. Running(r, Len(q.front), 2 * (Popped(r) + q.rear_size + 1))
      BY <1>1, <1>8
    <2>2. Len(r.front_reversed) \in Nat /\ r.ok \in Nat /\ r.ok <= Len(r.front_reversed)
      BY <1>1, <2>1, LenList DEF RotationType, Running
    <2>3. Popped(r) \in Nat
      BY <2>2 DEF Popped
    <2>5. Pending(p)
      BY <1>1, <1>2, <1>3, <1>4, <2>1, <2>3 DEF Pending
    <2>6. q.front_size >= 2 * (Popped(r) + q.rear_size + 1) + r.ok
      BY <1>1, <1>8, <2>1, RunningProduct
    <2> QED
      BY <1>6, <2>5, <1>1, <1>3, <2>2, <2>3, <2>6, SMTT(30) DEF p
  <1> QED BY <1>7, <1>8

(* Two lists in a row lose their head where the first one does. *)
LEMMA TailOfConcat ==
    \A s, t \in List : s # << >> => Tail(s \o t) = Tail(s) \o t
  <1> SUFFICES ASSUME NEW s \in List, NEW t \in List, s # << >>
               PROVE  Tail(s \o t) = Tail(s) \o t
    OBVIOUS
  <1> DEFINE h == Head(s)
             u == Tail(s)
             w == u \o t
  <1>1. h \in Value /\ u \in List /\ s = Cons(h, u)
    BY HeadAndTail
  <1>3. w \in List
    BY <1>1, ConcatList
  <1> HIDE DEF h, u
  <1> HIDE DEF w
  <1>5. Tail(<<h>> \o w) = w
    <2> DEFINE x == Cons(h, w)
    <2>1. /\ x \in List /\ Len(x) = Len(w) + 1
          /\ \A i \in 1 .. Len(w) : x[i + 1] = w[i]
      BY <1>1, <1>3, ConsProperties
    <2> HIDE DEF x
    <2>2. Len(w) \in Nat
      BY <1>3, LenList
    <2>7. Tail(x) = w
      BY <1>3, <2>1, <2>2, NotEmpty, HeadTailProperties, SeqEqual DEF List
    <2> QED BY <2>7 DEF x, Cons
  <1> QED
    BY <1>1, ConcatAssociative, <1>5 DEF w, u, List, Cons

(* A prefix stays one when both lists lose their head. *)
LEMMA TailOfPrefix ==
    \A s, t \in List : s # << >> /\ t # << >> /\ IsPrefix(s, t) => IsPrefix(Tail(s), Tail(t))
  <1> SUFFICES ASSUME NEW s \in List, NEW t \in List, s # << >>, t # << >>, IsPrefix(s, t)
               PROVE  IsPrefix(Tail(s), Tail(t))
    OBVIOUS
  <1>2. Len(s) \in Nat /\ Len(t) \in Nat
    BY LenList
  <1> QED
    BY HeadTailProperties, <1>2 DEF IsPrefix, List

(* invalidate() takes the first value away from what a rotation is going   *)
(* to hold: the rotation has not copied so many values that none is left.  *)
LEMMA InvalidateIsSound ==
    ASSUME NEW r, NEW kept \in Nat, NEW pushed \in Nat, kept >= 1,
           Running(r, kept, 2 * (Popped(r) + pushed + 1))
    PROVE  /\ \/ Invalidate(r) = Done(Tail(Product(r)))
              \/ /\ Running(Invalidate(r), kept - 1, 2 * (Popped(Invalidate(r)) + pushed))
                 /\ Product(Invalidate(r)) = Tail(Product(r))
           /\ Product(r) # << >>
           /\ pushed <= Len(Product(r)) - 1
  <1> DEFINE s == [r EXCEPT !.ok = @ - 1]
             a == Reversed(r.front_reversed, r.ok)
             steps == 2 * (Popped(r) + pushed + 1)
  <1>1. /\ r \in RotationType /\ r.ok \in 0 .. Len(r.front_reversed)
        /\ Product(r) \in List /\ Len(Product(r)) >= steps + r.ok
    BY RunningProduct
  <1>2. /\ r.front_reversed \in List /\ r.front \in List /\ r.rear \in List
        /\ r.rear_reversed \in List /\ r.ok \in Nat
    BY <1>1 DEF RotationType
  <1>3. Len(r.front_reversed) \in Nat /\ Popped(r) \in Nat /\ r.ok <= Len(r.front_reversed)
    BY ONLY <1>1, <1>2, LenList DEF Popped
  <1>4. Len(Product(r)) >= 2 /\ pushed <= Len(Product(r)) - 1
    BY <1>1, LenList, <1>2, <1>3
  <1>5. Product(r) # << >>
    BY <1>1, <1>4, LenList, NotEmpty
  <1>6. CASE r.ok # 0
    <2>1. /\ s \in RotationType /\ s.state = r.state /\ s.ok = r.ok - 1 /\ s.front = r.front
          /\ s.front_reversed = r.front_reversed /\ s.rear = r.rear
          /\ s.rear_reversed = r.rear_reversed
      BY <1>1, <1>2, <1>6 DEF RotationType
    <2>2. Invalidate(r) = s
      BY <1>6 DEF Invalidate, Running
    <2>3. r.ok \in 1 .. Len(r.front_reversed)
      BY <1>2, <1>3, <1>6
    <2>4. Tail(a) = Reversed(s.front_reversed, s.ok)
      BY <1>2, <2>1, <2>3, ReversedTail
    <2>5. a \in List /\ a # << >>
      <3>1. a \in List /\ Len(a) = r.ok
        BY <1>1, <1>2, ReversedProperties
      <3> HIDE DEF a
      <3> QED BY <2>3, <3>1, <1>2, <1>3, NotEmpty
    <2>6. Product(s) = Tail(Product(r))
      <3> DEFINE c == Reversed(r.rear, Len(r.rear))
      <3>1. c \in List
        BY <1>2, LenList, ReversedProperties
      <3>2. Product(s) = ((Tail(a) \o r.front) \o c) \o r.rear_reversed
        BY <2>1, <2>4 DEF Product
      <3>3. Product(r) = ((a \o r.front) \o c) \o r.rear_reversed
        BY DEF Product
      <3> HIDE DEF a, c, s
      <3>4. a \o r.front \in List /\ a \o r.front # << >>
        BY <1>2, <2>5, ConcatList, ConcatEqualIffEmpty DEF List
      <3>5. (a \o r.front) \o c \in List /\ (a \o r.front) \o c # << >>
        BY <3>1, <3>4, ConcatList, ConcatEqualIffEmpty DEF List
      <3>7. Tail((a \o r.front) \o c) = (Tail(a) \o r.front) \o c
        BY <3>1, <3>4, <1>2, <2>5, TailOfConcat
      <3> QED
        BY <3>2, <3>3, <1>2, <3>5, <3>7, TailOfConcat
    <2>7. 2 * (Popped(s) + pushed) = steps
      BY <1>2, <1>3, <2>1, SMTT(30) DEF Popped
    <2> HIDE DEF s, steps
    <2>8. Running(s, kept - 1, steps)
      <3>1. s.ok \in 0 .. Len(s.front_reversed)
        BY <1>2, <1>3, <2>1, <2>3
      <3>2. CASE r.state = "Reversing"
        BY <3>2, <1>2, LenList, <2>1, <3>1, SMTT(30) DEF Running, steps
      <3>3. CASE r.state = "Appending"
        <4>1. /\ r.front = << >> /\ r.rear = << >> /\ Len(r.rear_reversed) = steps
              /\ 2 * (kept - r.ok) = Len(r.rear_reversed) - Len(r.front_reversed) - 1
          BY <3>3 DEF Running, steps
        <4> QED
          BY <2>1, <3>1, <3>3, <4>1, <1>2 DEF Running
      <3> QED BY <3>2, <3>3 DEF Running
    <2> QED BY <1>4, <1>5, <2>2, <2>6, <2>7, <2>8
  <1>7. CASE r.ok = 0
    <2>1. r.state = "Appending" /\ r.front = << >> /\ r.rear = << >>
      <3>1. ~(Len(r.front_reversed) = steps)
        BY <1>2, <1>3, <1>7 DEF Popped
      <3> QED BY <3>1 DEF Running
    <2>3. Invalidate(r) = Done(Tail(Product(r)))
      BY <1>5, <1>7, <2>1, <1>1, AppendingProduct, <1>2, ReversedNone, ConcatEmpty DEF
         Invalidate
    <2> QED BY <1>4, <1>5, <2>3
  <1> QED BY <1>6, <1>7

Popping(q) ==
    [q EXCEPT !.front_size = @ - 1, !.front = Tail(@), !.rotation = Invalidate(@)]

(* A pop makes a version that check() can work on, without the first value. *)
LEMMA PopIsSound ==
    ASSUME NEW q, Returned(q), q.front # << >>
    PROVE  /\ Pending(Popping(q))
           /\ \/ Popping(q).rear_size <= Popping(q).front_size
              \/ /\ Popping(q).rotation = Idle
                 /\ Popping(q).rear_size = Popping(q).front_size + 1
           /\ Contents(Popping(q)) = Tail(Contents(q))
  <1> DEFINE p == Popping(q)
             r == q.rotation
             i == Invalidate(q.rotation)
             f == Tail(q.front)
             n == q.front_size - 1
             c == Reversed(q.rear, q.rear_size)
  <1>1. /\ q \in QueueType /\ q.rear_size = Len(q.rear) /\ q.front_size = Len(Rotated(q))
        /\ IsPrefix(q.front, Rotated(q)) /\ q.rear_size <= q.front_size
        /\ q.front \in List /\ q.rear \in List /\ Rotated(q) \in List
        /\ q.rear_size \in Nat /\ q.front_size \in Nat /\ r \in RotationType
        /\ r.state = "Idle" => r = Idle /\ Rotated(q) = q.front
        /\ r.state # "Idle" =>
              /\ Running(r, Len(q.front), 2 * (Popped(r) + q.rear_size + 1))
              /\ Rotated(q) = Product(r)
    BY ReturnedType
  <1>2. Rotated(q) # << >> /\ Len(Rotated(q)) >= 1
    BY FrontIsFirst
  <1>3. /\ f \in List /\ Len(f) = Len(q.front) - 1 /\ IsPrefix(f, Tail(Rotated(q)))
        /\ Tail(Rotated(q)) \in List /\ Len(Tail(Rotated(q))) = n
    BY <1>1, HeadAndTail, <1>2, TailOfPrefix
  <1>n. n \in Nat /\ Len(q.front) \in Nat /\ Len(q.front) >= 1
    BY <1>1, <1>2, LenList, NotEmpty
  <1>4. ASSUME i \in RotationType
        PROVE  /\ p \in QueueType /\ p.front_size = n /\ p.front = f /\ p.rotation = i
               /\ p.rear_size = q.rear_size /\ p.rear = q.rear
    <2>1. p = [q EXCEPT !.front_size = n, !.front = f, !.rotation = i]
      BY DEF Popping
    <2> HIDE DEF f, n, p, i, r, c
    <2> QED
      BY <1>4, <2>1, <1>1, <1>3, <1>n DEF QueueType
  <1>5. ASSUME i \in RotationType, Rotated(p) = Tail(Rotated(q))
        PROVE  Contents(p) = Tail(Contents(q))
    <2>1. Contents(p) = Tail(Rotated(q)) \o c
      BY <1>4, <1>5 DEF Contents
    <2>2. Contents(q) = Rotated(q) \o c
      BY DEF Contents
    <2> HIDE DEF c, p
    <2>4. Tail(Rotated(q) \o c) = Tail(Rotated(q)) \o c
      BY ONLY <1>1, <1>2, ContentsProperties, TailOfConcat
    <2> QED BY <2>1, <2>2, <2>4
  <1>6. CASE r.state = "Idle"
    <2>1. i = Idle /\ r = Idle /\ Rotated(q) = q.front
      BY <1>1, <1>6, IdleType DEF Invalidate
    <2>2. i \in RotationType
      BY <2>1, IdleType
    <2>3. /\ p \in QueueType /\ p.front_size = n /\ p.front = f /\ p.rotation = Idle
          /\ p.rear_size = q.rear_size /\ p.rear = q.rear
      BY <1>4, <2>1, <2>2
    <2>4. Rotated(p) = f
      BY <2>3, IdleType DEF Rotated
    <2>5. Contents(p) = Tail(Contents(q))
      BY <1>5, <2>1, <2>2, <2>4
    <2>8. IsPrefix(f, f) /\ Len(f) = n
      BY <1>3, <2>1
    <2> HIDE DEF p, n, f
    <2> QED
      BY <2>3, <2>5, <1>1, <2>4, <2>8 DEF p, Pending, n
  <1>7. CASE r.state # "Idle"
    <2>1. /\ Running(r, Len(q.front), 2 * (Popped(r) + q.rear_size + 1))
          /\ Rotated(q) = Product(r)
      BY <1>1, <1>7
    <2>2. /\ \/ i = Done(Tail(Product(r)))
             \/ /\ Running(i, Len(q.front) - 1, 2 * (Popped(i) + q.rear_size))
                /\ Product(i) = Tail(Product(r))
          /\ Product(r) # << >>
          /\ q.rear_size <= Len(Product(r)) - 1
      BY <1>1, <1>n, <2>1, InvalidateIsSound
    <2>3. q.rear_size <= n
      BY <1>1, <2>1, <2>2
    <2>4. CASE i = Done(Tail(Product(r)))
      <3>1. i \in RotationType /\ Product(i) = Tail(Rotated(q))
        BY <1>3, <2>1, <2>4, DoneProduct
      <3>2. i.state # "Idle"
        BY <2>4 DEF Done, Rotation
      <3>3. /\ p \in QueueType /\ p.front_size = n /\ p.front = f /\ p.rotation = i
            /\ p.rear_size = q.rear_size /\ p.rear = q.rear
        BY <1>4, <3>1
      <3>4. Rotated(p) = Tail(Rotated(q))
        BY <3>1, <3>2, <3>3 DEF Rotated, Product
      <3> HIDE DEF p, n, f, i
      <3>6. Pending(p)
        BY <1>1, <1>3, <2>1, <2>4, <3>3, <3>4 DEF Pending
      <3> QED
        BY <2>3, <3>3, <1>5, <3>1, <3>4, <3>6 DEF p
    <2>5. CASE /\ Running(i, Len(q.front) - 1, 2 * (Popped(i) + q.rear_size))
               /\ Product(i) = Tail(Product(r))
      <3>1. i \in RotationType /\ Product(i) = Tail(Rotated(q)) /\ i.state # "Idle"
        BY <2>1, <2>5 DEF Running
      <3>3. /\ p \in QueueType /\ p.front_size = n /\ p.front = f /\ p.rotation = i
            /\ p.rear_size = q.rear_size /\ p.rear = q.rear
        BY <1>4, <3>1
      <3>4. Rotated(p) = Tail(Rotated(q))
        BY <3>1, <3>3 DEF Rotated, Product
      <3> HIDE DEF p, n, f, i
      <3>7. Pending(p)
        BY <1>1, <1>3, <3>3, <3>4, <2>5 DEF Pending
      <3> QED
        BY <2>3, <3>3, <1>5, <3>1, <3>4, <3>7 DEF p
    <2> QED BY <2>2, <2>4, <2>5
  <1> QED BY <1>6, <1>7
-----------------------------------------------------------------------------
(* The empty queue is sound, and empty. *)
LEMMA InitEstablishes == Init => IInv /\ Contents(queue) = << >>
  <1> SUFFICES ASSUME Init PROVE IInv /\ Contents(queue) = << >>
    OBVIOUS
  <1>1. /\ queue.front_size = 0 /\ queue.front = << >> /\ queue.rotation = Idle
        /\ queue.rear_size = 0 /\ queue.rear = << >>
    BY DEF Init
  <1>3. Rotated(queue) = << >>
    BY <1>1, IdleType DEF Rotated
  <1>5. Returned(queue)
    BY <1>1, EmptyList, IdleType, <1>3, PrefixOfItself DEF Returned, Sound, Init, QueueType
  <1>7. Contents(queue) = << >>
    BY EmptyList, ReversedNone, <1>1, <1>3, ConcatEmpty DEF Contents
  <1> QED
    BY <1>5, <1>1, SizeAssumption, <1>7 DEF IInv, size

(* The size of a version counts its contents. *)
LEMMA SizeOfContents ==
    ASSUME NEW q, Returned(q)
    PROVE  Len(Contents(q)) = size(q) /\ size(q) \in Nat
  BY ContentsProperties, ReturnedType DEF size

(* Every call implements the one of FifoQueue. *)
LEMMA PushBackIsFifo ==
    ASSUME IInv, NEW value \in Value, PushBack(value)
    PROVE  IInv' /\ Fifo!PushBack(value)
  <1> DEFINE p == Pushed(queue, value)
  <1>1. Returned(queue) /\ size(queue) <= SizeMax
    BY DEF IInv
  <1>2. Len(Contents(queue)) = size(queue) /\ size(queue) \in Nat /\ Contents(queue) \in List
    BY <1>1, SizeOfContents, ContentsProperties
  <1>3. CASE size(queue) = SizeMax /\ Refused("length_error")
    BY <1>3, <1>2 DEF Refused, IInv, Fifo!Refused, Fifo!PushBack
  <1>4. CASE size(queue) # SizeMax /\ Return(Check(p))
    <2>1. /\ Returned(Check(p)) /\ Check(p).rotation.state # "Impossible"
          /\ Contents(Check(p)) = Append(Contents(queue), value)
      BY <1>1, PushIsSound, CheckIsSound
    <2>2. queue' = Check(p) /\ answer' = <<"updated">>
      BY <1>4, <2>1 DEF Return
    <2>5. size(queue) < SizeMax
      BY <1>1, <1>2, <1>4, SizeAssumption
    <2>7. IInv'
      BY <2>1, <2>2, <1>2, SizeOfContents, AppendProperties, <2>5, SizeAssumption DEF IInv,
         List
    <2> QED
      BY <1>2, <2>2, <2>1, <2>5, <2>7 DEF Fifo!PushBack
  <1> QED BY <1>3, <1>4 DEF PushBack, Pushed

(* A pop takes the first of the contents, or refuses when there is none. *)
LEMMA PopFrontIsFifo ==
    ASSUME IInv, PopFront
    PROVE  IInv' /\ Fifo!PopFront
  <1> DEFINE p == Popping(queue)
  <1>1. Returned(queue) /\ size(queue) <= SizeMax
    BY DEF IInv
  <1>2. /\ Len(Contents(queue)) = size(queue) /\ size(queue) \in Nat
        /\ Contents(queue) \in List
    BY <1>1, SizeOfContents, ContentsProperties
  <1>0. /\ queue.front = << >> <=> Contents(queue) = << >>
        /\ queue.front = << >> <=> size(queue) = 0
    BY <1>1, FrontIsFirst
  <1>3. CASE (size(queue) = 0 \/ queue.front = << >>) /\ Refused("out_of_range")
    BY <1>3, <1>0 DEF Refused, IInv, Fifo!Refused, Fifo!PopFront
  <1>4. CASE size(queue) # 0 /\ queue.front # << >> /\ Return(Check(p))
    <2>1. /\ Returned(Check(p)) /\ Check(p).rotation.state # "Impossible"
          /\ Contents(Check(p)) = Tail(Contents(queue))
      BY <1>1, <1>4, PopIsSound, CheckIsSound
    <2>2. queue' = Check(p) /\ answer' = <<"updated">>
      BY <1>4, <2>1 DEF Return
    <2>4. Contents(queue) # << >>
      BY <1>0, <1>4
    <2>7. IInv'
      BY <2>1, <2>2, <1>1, <1>2, SizeOfContents, <2>4, HeadAndTail, SizeAssumption DEF IInv
    <2> QED
      BY <2>2, <2>1, <2>4, <2>7 DEF Fifo!PopFront
  <1> QED BY <1>3, <1>4 DEF PopFront, Popping

(* A look at the front tells the first of the contents. *)
LEMMA FrontIsFifo ==
    ASSUME IInv, Front
    PROVE  IInv' /\ Fifo!Front
  <1>2. /\ queue.front = << >> <=> Contents(queue) = << >>
        /\ queue.front = << >> <=> size(queue) = 0
        /\ queue.front # << >> => Head(queue.front) = Head(Contents(queue))
    BY FrontIsFirst DEF IInv
  <1>4. IInv' /\ Contents(queue)' = Contents(queue)
    BY DEF IInv, Front, Refused
  <1>5. CASE (size(queue) = 0 \/ queue.front = << >>) /\ answer' = <<"out_of_range">>
    BY <1>2, <1>4, <1>5 DEF Fifo!Front, Fifo!Refused
  <1>6. CASE queue.front # << >> /\ answer' = <<"front", Head(queue.front)>>
    BY <1>2, <1>4, <1>6 DEF Fifo!Front
  <1> QED BY <1>4, <1>5, <1>6 DEF Front, Refused

(* Every call keeps the invariant and is a call of FifoQueue. *)
LEMMA NextIsFifo == IInv /\ [Next]_vars => IInv' /\ [Fifo!Next]_<<Contents(queue), answer>>
  <1> SUFFICES ASSUME IInv, [Next]_vars
               PROVE  IInv' /\ [Fifo!Next]_<<Contents(queue), answer>>
    OBVIOUS
  <1>1. ASSUME NEW value \in Value, PushBack(value)
        PROVE  IInv' /\ Fifo!Next
    BY <1>1, PushBackIsFifo DEF Fifo!Next
  <1>2. CASE PopFront
    BY <1>2, PopFrontIsFifo DEF Fifo!Next
  <1>3. CASE Front
    BY <1>3, FrontIsFifo DEF Fifo!Next
  <1>4. CASE UNCHANGED vars
    BY <1>4 DEF vars, IInv
  <1> QED BY <1>1, <1>2, <1>3, <1>4 DEF Next

(* Whatever the pushes and pops, every version that a call returns is sound. *)
THEOREM InductiveInvariant == Spec => []IInv
  <1>1. Init => IInv
    BY InitEstablishes
  <1>2. IInv /\ [Next]_vars => IInv'
    BY NextIsFifo
  <1> QED BY <1>1, <1>2, PTL DEF Spec

(* A sound version is one whose rotation ends in time. *)
LEMMA ReturnedInTime == IInv => RotationInTime
  <1> SUFFICES ASSUME IInv PROVE RotationInTime
    OBVIOUS
  <1> DEFINE q == queue
             r == queue.rotation
             whole == Rotated(queue)
  <1>1. /\ q.rear_size = Len(q.rear) /\ q.front_size = Len(whole) /\ q.rear_size <= q.front_size
        /\ q.front \in List /\ whole \in List /\ IsPrefix(q.front, whole)
        /\ r.state = "Idle" => r = Idle
        /\ r.state # "Idle" =>
              Running(r, Len(q.front), 2 * (Len(r.front_reversed) - r.ok + q.rear_size + 1))
    BY ReturnedType DEF IInv, Popped
  <1>2. Len(q.front) <= q.front_size
    BY <1>1 DEF IsPrefix
  <1>3. q.front = SubSeq(whole, 1, Len(q.front))
    <2> DEFINE f == q.front
               w == whole
               n == Len(f)
    <2>1. f \in Seq(Value) /\ w \in Seq(Value) /\ n <= Len(w) /\ \A i \in 1 .. n : f[i] = w[i]
      BY <1>1 DEF IsPrefix, List
    <2> HIDE DEF f, w
    <2>7. f = SubSeq(w, 1, n)
      BY <2>1, SubSeqProperties, SeqEqual
    <2> QED BY <2>7 DEF f, w
  <1>4. CASE r.state = "Idle"
    BY <1>1, <1>2, <1>3, <1>4 DEF RotationInTime
  <1>5. CASE r.state # "Idle"
    BY <1>1, <1>2, <1>3, <1>5 DEF RotationInTime, Running
  <1> QED BY <1>4, <1>5

(* A rotation of RealTimeQueue ends before either list can run out, the    *)
(* sizes are true and pops take what the rotation is going to hold first,  *)
(* whatever the pushes and pops.                                           *)
THEOREM RotationEndsInTime == Spec => []RotationInTime
  BY ReturnedInTime, InductiveInvariant, PTL

(* RealTimeQueue is a queue: no call meets a state the code calls          *)
(* impossible, and every answer is that of the sequence of values that     *)
(* were pushed and not popped.                                             *)
THEOREM QueueIsFifo == Spec => ImplementsFifo
  <1>1. Init => Fifo!Init
    BY InitEstablishes DEF Init, Fifo!Init
  <1>2. IInv /\ [Next]_vars => [Fifo!Next]_<<Contents(queue), answer>>
    BY NextIsFifo
  <1> QED BY <1>1, <1>2, InductiveInvariant, PTL DEF Spec, ImplementsFifo, Fifo!Spec
=============================================================================
