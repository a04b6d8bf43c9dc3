----------------------------- MODULE TextProofs -----------------------------
(***************************************************************************)
(* Proofs about the program on the text screen: the game never loses track *)
(* of its snake, and the shell, its line editor and the console agree on   *)
(* the line for every size of the screen, of the buffer and of the board.  *)
(* The game needs that its board keeps a free cell, which is counting; the *)
(* line needs to know what a text leaves on a screen that may scroll while *)
(* it is printed, which is an induction over the text.  The shell leaves   *)
(* its streams, variables and blocks in order for any lines: every command *)
(* is shown to give back what it switched, from the scans of a text up.    *)
(***************************************************************************)
EXTENDS TextSession, Shell, FiniteSets, FiniteSetTheorems, SequenceTheorems, WellFoundedInduction, TLAPS

LEMMA Least ==
  ASSUME NEW S, S \subseteq Nat, S # {}
  PROVE  \E x \in S : \A y \in S : x <= y
<1> DEFINE R == OpToRel(<, Nat)
<1>1. PICK x \in S : \A y \in S : ~(<<y, x>> \in R)
  <2> HIDE DEF R
  <2>1. IsWellFoundedOn(R, Nat)
    BY NatLessThanWellFounded DEF R
  <2> QED
    BY <2>1, WFMin
<1>2. \A y \in S : ~(y < x)
  BY <1>1 DEF OpToRel
<1> QED
  BY <1>2

(* Induction up to a bound, on a set: every number up to N is in a set that *)
(* 0 is in and that is closed under one more.                              *)
LEMMA UpTo ==
  ASSUME NEW N \in Nat, NEW S, 0 \in S, \A n \in 0 .. N : n \in S /\ n < N => n + 1 \in S
  PROVE  0 .. N \subseteq S
<1> DEFINE Left == {n \in 0 .. N : n \notin S}
<1>1. SUFFICES ASSUME Left # {} PROVE FALSE
  OBVIOUS
<1>2. PICK x \in Left : \A y \in Left : x <= y
  <2>1. Left \subseteq Nat
    OBVIOUS
  <2> HIDE DEF Left
  <2> QED
    BY <1>1, <2>1, Least
<1>3. x \in 1 .. N
  OBVIOUS
<1>4. x - 1 \in S
  BY <1>2, <1>3
<1> QED
  BY <1>3, <1>4

LEMMA SequenceOf ==
  ASSUME NEW S, NEW n \in Nat, NEW f \in [1 .. n -> S]
  PROVE  f \in Seq(S) /\ Len(f) = n
  OBVIOUS

-----------------------------------------------------------------------------
(***************************************************************************)
(* The game.                                                               *)
(***************************************************************************)
(* What SnakeInv rests on: the food lies inside the walls from the moment  *)
(* a game starts, and a game starts with the snake it draws.               *)
SnakeIInv ==
  /\ SnakeInv
  /\ phase # "off" => food \in Inside
  /\ phase = "start" => score = 0

LEMMA AheadMoves ==
  ASSUME NEW c \in Inside, NEW d \in Direction
  PROVE  Ahead(c, d) # c /\ Ahead(c, d) \in Int \X Int
<1>1. PICK x \in Int, y \in Int : c = <<x, y>>
  BY SnakeAssumption DEF Inside
<1> QED
  BY <1>1 DEF Ahead, Direction

LEMMA SteersSomewhere ==
  ASSUME {direction, next_direction} \subseteq Direction, NEW k
  PROVE  /\ Steered(k) \in Direction
         /\ (IF k \in Direction THEN k ELSE next_direction) \in Direction
  BY DEF Steered, Turned

(* A snake that is not longer than the maximum leaves a cell for the food. *)
LEMMA RoomForFood ==
  ASSUME NEW s \in Seq(Inside), Len(s) <= MAX_SNAKE_LENGTH
  PROVE  FreeForFood(s) # {}
<1> DEFINE A == 1 .. GAME_WIDTH - 2
           B == 1 .. GAME_HEIGHT - 2
<1>1. Len(s) \in Nat /\ MAX_SNAKE_LENGTH \in Nat
  BY SnakeAssumption
<1>2. IsFiniteSet(A) /\ Cardinality(A) = GAME_WIDTH - 2
  <2>1. GAME_WIDTH - 2 \in Int /\ 1 \in Int /\ ~(1 > GAME_WIDTH - 2)
    BY SnakeAssumption
  <2>2. Cardinality(A) = (GAME_WIDTH - 2) - 1 + 1
    BY <2>1, FS_Interval
  <2> QED
    BY <2>1, <2>2, FS_Interval
<1>3. IsFiniteSet(B) /\ Cardinality(B) = GAME_HEIGHT - 2
  <2>1. GAME_HEIGHT - 2 \in Int /\ 1 \in Int /\ ~(1 > GAME_HEIGHT - 2)
    BY SnakeAssumption
  <2>2. Cardinality(B) = (GAME_HEIGHT - 2) - 1 + 1
    BY <2>1, FS_Interval
  <2> QED
    BY <2>1, <2>2, FS_Interval
<1>4. IsFiniteSet(Inside) /\ Cardinality(Inside) = (GAME_WIDTH - 2) * (GAME_HEIGHT - 2)
  <2> HIDE DEF A, B
  <2>1. IsFiniteSet(A \X B) /\ Cardinality(A \X B) = Cardinality(A) * Cardinality(B)
    BY <1>2, <1>3, FS_Product
  <2>2. Inside = A \X B
    BY DEF Inside, A, B
  <2> QED
    BY <1>2, <1>3, <2>1, <2>2
<1>5. IsFiniteSet(Body(s)) /\ Cardinality(Body(s)) <= Len(s)
  <2> DEFINE I == 1 .. Len(s)
             f == [i \in I |-> s[i]]
  <2>1. IsFiniteSet(I) /\ Cardinality(I) = Len(s)
    <3>1. Len(s) \in Int /\ 1 \in Int
      BY <1>1
    <3>2. IsFiniteSet(I) /\ Cardinality(I) = IF 1 > Len(s) THEN 0 ELSE Len(s) - 1 + 1
      BY <3>1, FS_Interval
    <3> QED
      BY <1>1, <3>2
  <2>2. f \in Surjection(I, Body(s))
    BY DEF Surjection, Body
  <2> HIDE DEF I, f
  <2>3. IsFiniteSet(Body(s)) /\ Cardinality(Body(s)) <= Cardinality(I)
    BY <2>1, <2>2, FS_Surjection
  <2> QED
    BY <2>1, <2>3
<1>6. SUFFICES ASSUME Inside \subseteq Body(s) PROVE FALSE
  BY DEF FreeForFood
<1>7. Cardinality(Inside) <= Cardinality(Body(s))
  BY <1>5, <1>6, FS_Subset
<1>8. Cardinality(Body(s)) \in Nat
  BY <1>5, FS_CardinalityType
<1>9. MAX_SNAKE_LENGTH <= (GAME_WIDTH - 2) * (GAME_HEIGHT - 2) - 1
      /\ (GAME_WIDTH - 2) * (GAME_HEIGHT - 2) \in Int
  BY SnakeAssumption
<1> QED
  BY <1>1, <1>4, <1>5, <1>7, <1>8, <1>9

LEMMA StartSnakeInside == StartSnake \in Seq(Inside) /\ Len(StartSnake) = 3
<1> DEFINE x == GAME_WIDTH \div 2
           y == GAME_HEIGHT \div 2
<1>1. x \in 3 .. GAME_WIDTH - 2 /\ y \in 1 .. GAME_HEIGHT - 2
  BY SnakeAssumption
<1>2. StartSnake = [i \in 1 .. 3 |-> <<x - (i - 1), y>>]
  BY DEF StartSnake
<1>3. \A i \in 1 .. 3 : <<x - (i - 1), y>> \in Inside
  BY <1>1, SnakeAssumption DEF Inside
<1> HIDE DEF x, y
<1>4. StartSnake \in [1 .. 3 -> Inside]
  BY <1>2, <1>3
<1> DEFINE n == 3
<1>5. n \in Nat /\ StartSnake \in [1 .. n -> Inside]
  BY <1>4
<1> HIDE DEF n
<1>6. StartSnake \in Seq(Inside) /\ Len(StartSnake) = n
  BY <1>5, SequenceOf
<1> QED
  BY <1>6 DEF n

LEMMA NewGameStarts ==
  ASSUME NewGame
  PROVE  SnakeIInv'
<1> USE DEF NewGame
<1> DEFINE x == GAME_WIDTH \div 2
           y == GAME_HEIGHT \div 2
<1>1. x \in 3 .. GAME_WIDTH - 2 /\ y \in 1 .. GAME_HEIGHT - 2
  BY SnakeAssumption
<1>2. StartSnake = [i \in 1 .. 3 |-> <<x - (i - 1), y>>]
  BY DEF StartSnake
<1>3. snake' \in Seq(Inside) /\ Len(snake') = 3 /\ snake' = StartSnake
  BY StartSnakeInside
<1>4. food' \in Inside
  BY DEF FreeForFood
<1>5. SnakeTypeOK'
  <2>1. food' \in Cell
    BY <1>4, SnakeAssumption DEF Inside, Cell
  <2> QED
    BY <1>3, <2>1, SnakeAssumption DEF SnakeTypeOK, Direction
<1>6. BodyOK'
  <2> HIDE DEF x, y
  <2>1. \A i, j \in 1 .. 3 : snake'[i] = snake'[j] => i = j
    BY <1>1, <1>2, <1>3
  <2>2. \A i \in 1 .. 2 : snake'[i] = Ahead(snake'[i + 1], "RIGHT")
    BY <1>1, <1>2, <1>3 DEF Ahead
  <2>3. "RIGHT" \in Direction
    BY DEF Direction
  <2>4. 0 \div 10 = 0
    OBVIOUS
  <2> QED
    BY <1>3, <2>1, <2>2, <2>3, <2>4, SnakeAssumption DEF BodyOK
<1>7. BoardOK'
  BY DEF BoardOK
<1> QED
  BY <1>4, <1>5, <1>6, <1>7 DEF SnakeIInv, SnakeInv

LEMMA LeaveForgets ==
  ASSUME Leave
  PROVE  SnakeIInv'
<1> USE SnakeAssumption DEF Leave
<1>1. SnakeTypeOK'
  BY DEF SnakeTypeOK, Direction, Cell
<1>2. BodyOK' /\ BoardOK'
  BY DEF BodyOK, BoardOK
<1> QED
  BY <1>1, <1>2 DEF SnakeIInv, SnakeInv

LEMMA StartKeyKeeps ==
  ASSUME SnakeIInv, StartKey
  PROVE  SnakeIInv'
<1> USE DEF SnakeIInv, SnakeInv, SnakeTypeOK, StartKey
<1>1. snake \in Seq(Inside) /\ food \in Inside /\ score = 0 /\ Len(snake) = 3
  <2>1. 0 \div 10 = 0
    OBVIOUS
  <2>2. score = 0 /\ food \in Inside /\ snake \in Seq(Inside)
    OBVIOUS
  <2>3. Len(snake) = IF 3 + 0 < MAX_SNAKE_LENGTH THEN 3 + 0 ELSE MAX_SNAKE_LENGTH
    BY <2>1, <2>2 DEF BodyOK
  <2> QED
    BY <2>2, <2>3, SnakeAssumption
<1>2. SnakeTypeOK'
  <2>0. \A i \in 1 .. Len(snake) : snake[i] \in Inside
    BY ONLY <1>1
  <2>1. Body(snake) \subseteq Inside
    BY ONLY <2>0 DEF Body
  <2>2. Direction' = Direction /\ shown' \subseteq Inside /\ snake' = snake /\ food' = food
        /\ {direction', next_direction'} \subseteq Direction
    BY <1>1, <2>1
  <2> QED
    BY <1>1, <2>2
<1>3. FreeForFood(snake) # {}
  BY <1>1, RoomForFood, SnakeAssumption
<1>4. BodyOK'
  BY <1>3 DEF BodyOK
<1>5. BoardOK'
  BY DEF BoardOK
<1> QED
  BY <1>1, <1>2, <1>4, <1>5

LEMMA CollideKeeps ==
  ASSUME SnakeIInv, NEW k, Collide(k)
  PROVE  SnakeIInv'
<1> USE DEF SnakeIInv, SnakeInv, SnakeTypeOK, Collide
<1>1. SnakeTypeOK'
  BY SteersSomewhere
<1>2. BodyOK'
  BY DEF BodyOK
<1>3. BoardOK'
  BY DEF BoardOK
<1> QED
  BY <1>1, <1>2, <1>3

(* What the body becomes when the head moves onto a free cell and n of the *)
(* segments stay behind it.                                                *)
IsMoved(t, head, n) ==
  /\ t \in Seq(Inside) /\ Len(t) = n + 1
  /\ \A i, j \in 1 .. Len(t) : t[i] = t[j] => i = j
  /\ \A i \in 1 .. Len(t) - 1 : \E e \in Direction : t[i] = Ahead(t[i + 1], e)
  /\ Body(t) = {head} \cup {snake[i] : i \in 1 .. n}

LEMMA MovedBody ==
  ASSUME SnakeTypeOK, BodyOK, NEW d \in Direction, NEW n \in 1 .. Len(snake),
         NEW head, head = Ahead(snake[1], d), ~CheckCollision(head)
  PROVE  IsMoved(Moved(head, n + 1), head, n)
<1> DEFINE t == Moved(head, n + 1)
<1>1. snake \in Seq(Inside) /\ n + 1 - 1 = n /\ Len(snake) \in Nat
  BY DEF SnakeTypeOK
<1>2. head \in Inside /\ \A i \in 2 .. Len(snake) : snake[i] # head
  BY DEF CheckCollision
<1>3. head # snake[1]
  BY <1>1, AheadMoves
<1>4. \A i \in 1 .. n : snake[i] # head /\ snake[i] \in Inside
  BY <1>1, <1>2, <1>3
<1>5. t = <<head>> \o SubSeq(snake, 1, n)
  BY <1>1 DEF Moved
<1> HIDE DEF t
<1>6. SubSeq(snake, 1, n) \in Seq(Inside) /\ Len(SubSeq(snake, 1, n)) = n
      /\ \A i \in 1 .. n : SubSeq(snake, 1, n)[i] = snake[i]
  BY <1>1
<1>7. t \in Seq(Inside) /\ Len(t) = n + 1 /\ t[1] = head
      /\ \A i \in 2 .. n + 1 : t[i] = snake[i - 1]
  <2> DEFINE r == SubSeq(snake, 1, n)
  <2> HIDE DEF r
  <2>1. t = <<head>> \o r /\ r \in Seq(Inside) /\ Len(r) = n
        /\ \A i \in 1 .. n : r[i] = snake[i]
    BY <1>5, <1>6 DEF r
  <2>2. t \in Seq(Inside) /\ Len(t) = n + 1 /\ t[1] = head
        /\ \A i \in 2 .. n + 1 : t[i] = r[i - 1]
    <3> DEFINE h == <<head>>
    <3>1. h \in Seq(Inside) /\ Len(h) = 1 /\ h[1] = head
      BY <1>2
    <3> HIDE DEF h
    <3>2. /\ h \o r \in Seq(Inside) /\ Len(h \o r) = Len(h) + Len(r)
          /\ \A i \in 1 .. Len(h) + Len(r) : (h \o r)[i] = IF i <= Len(h) THEN h[i] ELSE r[i - Len(h)]
      BY <2>1, <3>1, ConcatProperties
    <3>3. t = h \o r
      BY <2>1 DEF h
    <3>4. Len(h) + Len(r) = n + 1 /\ 1 \in 1 .. n + 1 /\ n \in Nat
      BY <2>1, <3>1
    <3>5. \A i \in 1 .. n + 1 : t[i] = IF i <= 1 THEN h[i] ELSE r[i - 1]
      BY <3>1, <3>2, <3>3, <3>4
    <3>6. t[1] = head /\ \A i \in 2 .. n + 1 : t[i] = r[i - 1]
      BY <3>1, <3>4, <3>5
    <3> QED
      BY <3>2, <3>3, <3>4, <3>6
  <2> QED
    BY <2>1, <2>2
<1>8. \A i, j \in 1 .. n : snake[i] = snake[j] => i = j
  BY <1>1 DEF BodyOK
<1>9. \A i, j \in 1 .. Len(t) : t[i] = t[j] => i = j
  <2> SUFFICES ASSUME NEW i \in 1 .. n + 1, NEW j \in 1 .. n + 1, t[i] = t[j] PROVE i = j
    BY <1>7
  <2>1. \A m \in 2 .. n + 1 : m - 1 \in 1 .. n /\ t[m] = snake[m - 1]
    BY <1>7
  <2>2. CASE i = 1 \/ j = 1
    <3>1. \A m \in 2 .. n + 1 : t[m] # head
      BY <1>4, <2>1
    <3> QED
      BY <1>7, <2>2, <3>1
  <2>3. CASE i > 1 /\ j > 1
    <3>1. i - 1 \in 1 .. n /\ j - 1 \in 1 .. n /\ snake[i - 1] = snake[j - 1]
      BY <2>1, <2>3
    <3>2. i - 1 = j - 1
      BY <1>8, <3>1
    <3> QED
      BY <3>2
  <2> QED
    BY <2>2, <2>3
<1>10. ASSUME NEW i \in 1 .. Len(t) - 1
       PROVE  \E e \in Direction : t[i] = Ahead(t[i + 1], e)
  <2>1. CASE i = 1
    BY <1>7, <2>1
  <2>2. CASE i > 1
    <3>1. i - 1 \in 1 .. Len(snake) - 1 /\ t[i] = snake[i - 1] /\ t[i + 1] = snake[i - 1 + 1]
      BY <1>1, <1>7, <2>2
    <3> QED
      BY <3>1 DEF BodyOK
  <2> QED
    BY <1>7, <2>1, <2>2
<1>11. Body(t) = {head} \cup {snake[i] : i \in 1 .. n}
  <2>1. ASSUME NEW c \in Body(t) PROVE c \in {head} \cup {snake[i] : i \in 1 .. n}
    <3>1. PICK i \in 1 .. n + 1 : c = t[i]
      BY <1>7 DEF Body
    <3>2. CASE i = 1
      BY <1>7, <3>1, <3>2
    <3>3. CASE i > 1
      <4>1. i \in 2 .. n + 1 /\ i - 1 \in 1 .. n
        BY <3>1, <3>3
      <4>2. c = snake[i - 1]
        BY <1>7, <3>1, <4>1
      <4> QED
        BY <4>1, <4>2
    <3> QED
      BY <3>2, <3>3
  <2>2. head \in Body(t)
    BY <1>7 DEF Body
  <2>3. ASSUME NEW i \in 1 .. n PROVE snake[i] \in Body(t)
    <3>1. i + 1 \in 1 .. Len(t) /\ t[i + 1] = snake[i]
      BY <1>7
    <3> QED
      BY <3>1 DEF Body
  <2> QED
    BY <2>1, <2>2, <2>3
<1>12. IsMoved(t, head, n)
  BY ONLY <1>7, <1>9, <1>10, <1>11 DEF IsMoved
<1> QED
  BY <1>12 DEF t

(* One more food, one more segment, until the maximum.                     *)
LEMMA LengthCounts ==
  ASSUME NEW n \in Nat
  PROVE  (n + 10) \div 10 = n \div 10 + 1 /\ n \div 10 \in Nat
  OBVIOUS

LEMMA LengthOK ==
  ASSUME SnakeTypeOK, BodyOK, phase # "off"
  PROVE  Len(snake) \in 3 .. MAX_SNAKE_LENGTH
  BY LengthCounts, SnakeAssumption DEF SnakeTypeOK, BodyOK

LEMMA AdvanceKeeps ==
  ASSUME SnakeIInv, NEW k, Advance(k)
  PROVE  SnakeIInv'
<1> DEFINE d == Steered(k)
           head == Ahead(snake[1], d)
           L == Len(snake)
<1>1. SnakeTypeOK /\ BodyOK /\ BoardOK /\ food \in Inside /\ phase = "play" /\ phase' = "play"
  BY DEF SnakeIInv, SnakeInv, Advance
<1>2. d \in Direction /\ {direction', next_direction'} \subseteq Direction
      /\ game_over' = game_over
  BY <1>1, SteersSomewhere DEF Advance, SnakeTypeOK
<1>3. L \in 3 .. MAX_SNAKE_LENGTH /\ MAX_SNAKE_LENGTH \in Nat
  BY <1>1, LengthOK, SnakeAssumption
<1>4. ~CheckCollision(head) /\ Move(head)
  BY DEF Advance
<1>5. score \in 0 .. MaxScore /\ game_over \in 0 .. 2 /\ shown \subseteq Inside
      /\ snake \in Seq(Inside) /\ MaxScore \in Nat /\ Inside \subseteq Cell
  BY <1>1, SnakeAssumption DEF SnakeTypeOK, Inside, Cell
<1> HIDE DEF d
<1>6. Body(snake) = {snake[i] : i \in 1 .. L}
  BY DEF Body
<1>7. CASE head = food
  <2> DEFINE n == IF L < MAX_SNAKE_LENGTH THEN L ELSE L - 1
  <2>1. n \in 1 .. L
    BY <1>3
  <2>2. score' = score + 10 /\ score' \in 0 .. MaxScore /\ food' \in Inside
        /\ shown' = shown \cup Body(snake') \cup {food'}
    BY <1>4, <1>5, <1>7 DEF Move, FreeForFood
  <2>3. snake' = Moved(head, n + 1)
    BY <1>3, <1>4, <1>7 DEF Move
  <2>0. head = Ahead(snake[1], d) /\ L = Len(snake)
    OBVIOUS
  <2> HIDE DEF n, head
  <2>4. /\ snake' \in Seq(Inside) /\ Len(snake') = n + 1
        /\ \A i, j \in 1 .. Len(snake') : snake'[i] = snake'[j] => i = j
        /\ \A i \in 1 .. Len(snake') - 1 : \E e \in Direction : snake'[i] = Ahead(snake'[i + 1], e)
        /\ Body(snake') = {head} \cup {snake[i] : i \in 1 .. n}
    <3>1. SnakeTypeOK /\ BodyOK /\ d \in Direction /\ n \in 1 .. Len(snake)
          /\ ~CheckCollision(head)
      BY <1>1, <1>2, <1>4, <2>0, <2>1
    <3>2. IsMoved(Moved(head, n + 1), head, n)
      BY ONLY <2>0, <3>1, MovedBody
    <3> QED
      BY ONLY <2>3, <3>2 DEF IsMoved
  <2>5. Body(snake') \subseteq Inside
    BY <2>4 DEF Body
  <2>6. SnakeTypeOK'
    <3>1. snake' \in Seq(Inside) /\ {direction', next_direction'} \subseteq Direction
      BY <1>2, <2>4
    <3>2. food' \in Cell /\ score' \in 0 .. MaxScore /\ game_over' \in 0 .. 2
      BY <1>1, <1>2, <1>5, <2>2
    <3>3. shown' \subseteq Inside
      BY <1>1, <1>5, <2>2, <2>5
    <3> QED
      BY <1>1, <3>1, <3>2, <3>3 DEF SnakeTypeOK
  <2>7. Len(snake') = IF 3 + score' \div 10 < MAX_SNAKE_LENGTH THEN 3 + score' \div 10 ELSE MAX_SNAKE_LENGTH
    <3>1. L = IF 3 + score \div 10 < MAX_SNAKE_LENGTH THEN 3 + score \div 10 ELSE MAX_SNAKE_LENGTH
      BY <1>1 DEF BodyOK
    <3>2. score' \div 10 = score \div 10 + 1 /\ score \div 10 \in Nat
      BY <1>5, <2>2, LengthCounts
    <3> HIDE DEF L
    <3> QED
      BY <1>3, <2>4, <3>1, <3>2 DEF n
  <2>8. FreeForFood(snake') # {}
    <3>1. Len(snake') <= MAX_SNAKE_LENGTH
      BY <1>3, <2>4 DEF n
    <3> QED
      BY <2>4, <3>1, RoomForFood
  <2>9. BodyOK'
    BY <2>4, <2>7, <2>8 DEF BodyOK
  <2>10. ASSUME 3 + score' \div 10 <= MAX_SNAKE_LENGTH
         PROVE  shown' = Body(snake') \cup {food'}
    <3>1. 3 + score \div 10 < MAX_SNAKE_LENGTH
      BY <1>3, <1>5, <2>2, <2>10, LengthCounts
    <3>2. n = L
      BY <1>1, <1>3, <3>1 DEF n, BodyOK
    <3>3. shown = Body(snake) \cup {food}
      BY <1>1, <1>3, <1>5, <3>1, LengthCounts DEF BoardOK
    <3> QED
      BY <1>6, <1>7, <2>2, <2>4, <3>2, <3>3
  <2>11. BoardOK'
    BY <2>2, <2>10 DEF BoardOK
  <2> QED
    BY <1>1, <2>2, <2>6, <2>9, <2>11 DEF SnakeIInv, SnakeInv
<1>8. CASE head # food
  <2> DEFINE n == L - 1
  <2>1. n \in 1 .. L
    BY <1>3
  <2>2. score' = score /\ food' = food
        /\ shown' = (shown \ {snake[L]}) \cup Body(snake') \cup {food}
    BY <1>4, <1>8 DEF Move, Erased
  <2>3. snake' = Moved(head, n + 1)
    BY <1>3, <1>4, <1>8 DEF Move
  <2>0. head = Ahead(snake[1], d) /\ L = Len(snake)
    OBVIOUS
  <2> HIDE DEF n, head
  <2>4. /\ snake' \in Seq(Inside) /\ Len(snake') = n + 1
        /\ \A i, j \in 1 .. Len(snake') : snake'[i] = snake'[j] => i = j
        /\ \A i \in 1 .. Len(snake') - 1 : \E e \in Direction : snake'[i] = Ahead(snake'[i + 1], e)
        /\ Body(snake') = {head} \cup {snake[i] : i \in 1 .. n}
    <3>1. SnakeTypeOK /\ BodyOK /\ d \in Direction /\ n \in 1 .. Len(snake)
          /\ ~CheckCollision(head)
      BY <1>1, <1>2, <1>4, <2>0, <2>1
    <3>2. IsMoved(Moved(head, n + 1), head, n)
      BY ONLY <2>0, <3>1, MovedBody
    <3> QED
      BY ONLY <2>3, <3>2 DEF IsMoved
  <2>5. Body(snake') \subseteq Inside
    BY <2>4 DEF Body
  <2>6. SnakeTypeOK'
    <3>1. snake' \in Seq(Inside) /\ {direction', next_direction'} \subseteq Direction
      BY <1>2, <2>4
    <3>2. food' \in Cell /\ score' \in 0 .. MaxScore /\ game_over' \in 0 .. 2
      BY <1>1, <1>2, <1>5, <2>2
    <3>3. shown' \subseteq Inside
      BY <1>1, <1>5, <2>2, <2>5
    <3> QED
      BY <1>1, <3>1, <3>2, <3>3 DEF SnakeTypeOK
  <2>7. Len(snake') = L
    BY <1>3, <2>4 DEF n
  <2>8. FreeForFood(snake') # {}
    BY <1>3, <2>4, <2>7, RoomForFood
  <2>9. BodyOK'
    BY <1>1, <2>2, <2>4, <2>7, <2>8 DEF BodyOK
  <2>10. ASSUME shown = Body(snake) \cup {food}
         PROVE  shown' = Body(snake') \cup {food'}
    <3>1. \A i \in 1 .. L : i \in 1 .. n \/ i = L
      BY <1>3 DEF n
    <3>2. Body(snake) \ {snake[L]} \subseteq Body(snake')
      BY <1>6, <2>4, <3>1
    <3> QED
      BY <2>2, <2>10, <3>2
  <2>11. BoardOK'
    BY <1>1, <2>2, <2>10 DEF BoardOK
  <2> QED
    BY <1>1, <2>2, <2>6, <2>9, <2>11 DEF SnakeIInv, SnakeInv
<1> QED
  BY <1>7, <1>8

LEMMA SnakeStep ==
  ASSUME SnakeIInv, SnakeNext
  PROVE  SnakeIInv'
<1>1. CASE StartKey
  BY <1>1, StartKeyKeeps
<1>2. ASSUME NEW k \in Key \cup {"none"}, Advance(k) PROVE SnakeIInv'
  BY <1>2, AdvanceKeeps
<1>3. ASSUME NEW k \in Key \cup {"none"}, Collide(k) PROVE SnakeIInv'
  BY <1>3, CollideKeeps
<1>4. CASE Quit
  BY <1>4, LeaveForgets DEF Quit
<1>5. ASSUME NEW k \in Key, OverKey(k) PROVE SnakeIInv'
  BY <1>5, LeaveForgets, NewGameStarts DEF OverKey
<1> QED
  BY <1>1, <1>2, <1>3, <1>4, <1>5 DEF SnakeNext

(* Whatever keys come between two frames and wherever rand() puts the food, *)
(* the cells that are drawn, the segments that collide and the score agree, *)
(* on a board of any size.                                                 *)
THEOREM SnakeIsTracked == Spec => []SnakeInv
<1>1. Init => SnakeIInv
  <2> SUFFICES ASSUME Init PROVE SnakeIInv
    OBVIOUS
  <2> USE SnakeAssumption DEF Init, SnakeInit
  <2>1. SnakeTypeOK
    BY DEF SnakeTypeOK, Direction, Cell
  <2>2. BodyOK /\ BoardOK
    BY DEF BodyOK, BoardOK
  <2> QED
    BY <2>1, <2>2 DEF SnakeIInv, SnakeInv
<1>2. SnakeIInv /\ [Next]_vars => SnakeIInv'
  <2> SUFFICES ASSUME SnakeIInv, [Next]_vars PROVE SnakeIInv'
    OBVIOUS
  <2>1. CASE UNCHANGED snakeVars
    BY <2>1 DEF snakeVars, SnakeIInv, SnakeInv, SnakeTypeOK, BodyOK, BoardOK
  <2>2. CASE Play
    BY <2>2, NewGameStarts DEF Play
  <2>3. CASE InGame
    BY <2>3, SnakeStep DEF InGame
  <2> QED
    BY <2>1, <2>2, <2>3 DEF Next, MenuTick, ChooseDesktop, ChooseShell, Boot, EditLine, EnterLine, vars
<1>3. SnakeIInv => SnakeInv
  BY DEF SnakeIInv
<1> QED
  BY <1>1, <1>2, <1>3, PTL DEF Spec

-----------------------------------------------------------------------------
(***************************************************************************)
(* The console.                                                            *)
(***************************************************************************)
LEMMA ConsoleSize ==
  /\ FB_WIDTH \in Nat \ {0} /\ Size \in Nat /\ Size >= FB_WIDTH
  /\ Size - FB_WIDTH \in Position /\ 0 \in Position
<1>1. \A w, h \in Nat \ {0} : w * h \in Nat /\ w * h >= w
  OBVIOUS
<1>2. FB_WIDTH \in Nat \ {0} /\ Size \in Nat /\ Size >= FB_WIDTH
  BY <1>1, ConsoleAssumption DEF Size
<1> QED
  BY <1>2 DEF Position

LEMMA ScrolledFits ==
  ASSUME NEW cells \in [Position -> Glyph]
  PROVE  Scrolled(cells) \in Screen
<1> DEFINE up == [i \in Position |-> IF i < Size - FB_WIDTH THEN cells[i + FB_WIDTH] ELSE BLANK]
<1>1. \A i \in Position : i < Size - FB_WIDTH => i + FB_WIDTH \in Position
  BY ConsoleSize DEF Position
<1>2. up \in [Position -> Glyph]
  BY <1>1, ConsoleAssumption
<1>3. Scrolled(cells) = [cells |-> up, pos |-> Size - FB_WIDTH]
  BY DEF Scrolled
<1> HIDE DEF up
<1> QED
  BY <1>2, <1>3, ConsoleSize DEF Screen

LEMMA PutcFits ==
  ASSUME NEW s \in Screen, NEW c \in Glyph \cup {NEWLINE}
  PROVE  Putc(s, c) \in Screen
<1> DEFINE cells == IF c = NEWLINE THEN s.cells ELSE [s.cells EXCEPT ![s.pos] = c]
           next == IF c = NEWLINE THEN (s.pos \div FB_WIDTH + 1) * FB_WIDTH ELSE s.pos + 1
<1>1. s.pos \in Position /\ s.cells \in [Position -> Glyph] /\ s.pos \in Nat
  BY ConsoleSize DEF Screen, Position
<1>2. cells \in [Position -> Glyph]
  BY <1>1
<1>3. next \in Nat
  <2>1. \A a \in Nat, w \in Nat \ {0} : a \div w \in Nat
    OBVIOUS
  <2>2. \A a, w \in Nat : a * w \in Nat
    OBVIOUS
  <2>3. s.pos \div FB_WIDTH + 1 \in Nat
    BY <1>1, <2>1, ConsoleSize
  <2>4. (s.pos \div FB_WIDTH + 1) * FB_WIDTH \in Nat
    BY <2>2, <2>3, ConsoleSize
  <2> QED
    BY <1>1, <2>4
<1>4. Putc(s, c) = IF next >= Size THEN Scrolled(cells) ELSE [cells |-> cells, pos |-> next]
  BY DEF Putc
<1> HIDE DEF cells, next
<1>5. next < Size => next \in Position
  BY <1>3, ConsoleSize DEF Position
<1> QED
  BY <1>2, <1>3, <1>4, <1>5, ScrolledFits, ConsoleSize DEF Screen

(* A text is printed one character after the other: the screens it passes  *)
(* through.                                                                *)
LEMMA PutsSteps ==
  ASSUME NEW s, NEW text, Len(text) \in Nat
  PROVE  \E f : /\ f[0] = s
                /\ \A n \in 1 .. Len(text) : f[n] = Putc(f[n - 1], text[n])
                /\ Puts(s, text) = f[Len(text)]
<1> DEFINE N == Len(text)
           Is(g, m) == g = [n \in 0 .. m |-> IF n = 0 THEN s ELSE Putc(g[n - 1], text[n])]
           S == {m \in 0 .. N : \E g : Is(g, m)}
           f == CHOOSE g : Is(g, N)
<1>1. Puts(s, text) = f[N]
  BY DEF Puts
<1>2. 0 \in S
  <2> DEFINE g == [n \in 0 .. 0 |-> s]
  <2>1. Is(g, 0)
    OBVIOUS
  <2>2. 0 \in 0 .. N
    OBVIOUS
  <2> HIDE DEF Is, g, N
  <2> QED
    BY <2>1, <2>2
<1>3. ASSUME NEW m \in 0 .. N, m \in S, m < N
      PROVE  m + 1 \in S
  <2>1. PICK g : Is(g, m)
    BY <1>3
  <2> DEFINE h == [n \in 0 .. m + 1 |-> IF n <= m THEN g[n] ELSE Putc(g[m], text[m + 1])]
  <2>2. \A n \in 0 .. m : g[n] = IF n = 0 THEN s ELSE Putc(g[n - 1], text[n])
    BY <2>1
  <2>3. \A n \in 0 .. m + 1 : h[n] = IF n = 0 THEN s ELSE Putc(h[n - 1], text[n])
    <3> SUFFICES ASSUME NEW n \in 0 .. m + 1
                 PROVE  h[n] = IF n = 0 THEN s ELSE Putc(h[n - 1], text[n])
      OBVIOUS
    <3>1. CASE n = 0
      BY <2>2, <3>1
    <3>2. CASE n \in 1 .. m
      <4>1. h[n] = g[n] /\ h[n - 1] = g[n - 1] /\ n \in 0 .. m /\ n # 0
        BY <3>2
      <4> HIDE DEF h
      <4> QED
        BY <2>2, <4>1
    <3>3. CASE n = m + 1
      <4>1. h[n] = Putc(g[m], text[m + 1]) /\ h[n - 1] = g[m] /\ n # 0
        BY <3>3
      <4> HIDE DEF h
      <4> QED
        BY <3>3, <4>1
    <3> QED
      BY <3>1, <3>2, <3>3
  <2>4. Is(h, m + 1)
    <3>1. h = [n \in 0 .. m + 1 |-> h[n]]
      OBVIOUS
    <3> HIDE DEF h
    <3> QED
      BY <2>3, <3>1
  <2>5. m + 1 \in 0 .. N
    BY <1>3
  <2> HIDE DEF Is, h
  <2> QED
    BY <2>4, <2>5
<1>4. N \in 0 .. N
  OBVIOUS
<1>5. \E g : Is(g, N)
  <2>1. 0 .. N \subseteq S
    <3> HIDE DEF S
    <3>1. N \in Nat
      OBVIOUS
    <3> HIDE DEF N
    <3> QED
      BY <1>2, <1>3, <3>1, UpTo
  <2> HIDE DEF Is
  <2> QED
    BY <1>4, <2>1
<1>6. Is(f, N)
  <2> HIDE DEF Is
  <2> QED
    BY <1>5
<1> HIDE DEF f
<1>7. \A n \in 0 .. N : f[n] = IF n = 0 THEN s ELSE Putc(f[n - 1], text[n])
  BY <1>6
<1>8. f[0] = s
  BY <1>7
<1>9. \A n \in 1 .. N : f[n] = Putc(f[n - 1], text[n])
  BY <1>7
<1> QED
  BY <1>1, <1>8, <1>9

LEMMA PutsFits ==
  ASSUME NEW s \in Screen, NEW text \in Seq(Glyph \cup {NEWLINE})
  PROVE  Puts(s, text) \in Screen
<1>1. Len(text) \in Nat /\ \A n \in 1 .. Len(text) : text[n] \in Glyph \cup {NEWLINE}
  OBVIOUS
<1>2. PICK f : /\ f[0] = s
               /\ \A n \in 1 .. Len(text) : f[n] = Putc(f[n - 1], text[n])
               /\ Puts(s, text) = f[Len(text)]
  BY <1>1, PutsSteps
<1> DEFINE S == {n \in 0 .. Len(text) : f[n] \in Screen}
<1>3. 0 \in S
  BY <1>1, <1>2
<1>4. ASSUME NEW n \in 0 .. Len(text), n \in S, n < Len(text)
      PROVE  n + 1 \in S
  <2>1. n + 1 \in 1 .. Len(text) /\ n + 1 - 1 = n
    BY <1>1, <1>4
  <2>2. f[n + 1] = Putc(f[n], text[n + 1])
    BY <1>2, <2>1
  <2>3. f[n + 1] \in Screen
    BY <1>1, <1>4, <2>1, <2>2, PutcFits
  <2> QED
    BY <2>1, <2>3
<1>5. 0 .. Len(text) \subseteq S
  <2> HIDE DEF S
  <2> QED
    BY <1>1, <1>3, <1>4, UpTo
<1> QED
  BY <1>1, <1>2, <1>5

(* A printed character is the one before the position, and everything else *)
(* keeps its distance from the position, whether or not the screen scrolled. *)
LEMMA PutcPushes ==
  ASSUME NEW s \in Screen, NEW c \in Glyph
  PROVE  /\ Putc(s, c).pos = s.pos + 1 \/ Putc(s, c).pos = Size - FB_WIDTH
         /\ Putc(s, c).pos >= 1 => Putc(s, c).cells[Putc(s, c).pos - 1] = c
         /\ \A i \in 1 .. s.pos : i + 1 <= Putc(s, c).pos =>
              Putc(s, c).cells[Putc(s, c).pos - (i + 1)] = s.cells[s.pos - i]
<1> DEFINE cells == [s.cells EXCEPT ![s.pos] = c]
           next == s.pos + 1
           p == Putc(s, c)
<1>1. s.pos \in Position /\ s.cells \in [Position -> Glyph] /\ s.pos \in Nat /\ next \in Nat
  BY ConsoleSize DEF Screen, Position
<1>2. p = IF next >= Size THEN Scrolled(cells) ELSE [cells |-> cells, pos |-> next]
  BY ConsoleAssumption DEF Putc
<1>3. cells \in [Position -> Glyph] /\ cells[s.pos] = c
      /\ \A i \in Position : i # s.pos => cells[i] = s.cells[i]
  BY <1>1
<1>4. \A i \in 1 .. s.pos : s.pos - i \in Position /\ cells[s.pos - i] = s.cells[s.pos - i]
  BY <1>1, <1>3, ConsoleSize DEF Position
<1> HIDE DEF cells, p
<1>5. CASE next >= Size
  <2> DEFINE up == [i \in Position |-> IF i < Size - FB_WIDTH THEN cells[i + FB_WIDTH] ELSE BLANK]
  <2>1. p = [cells |-> up, pos |-> Size - FB_WIDTH]
    BY <1>2, <1>5 DEF Scrolled
  <2>2. s.pos = Size - 1
    BY <1>1, <1>5, ConsoleSize DEF Position
  <2>3. \A i \in 1 .. Size - FB_WIDTH : up[Size - FB_WIDTH - i] = cells[Size - i]
    <3> SUFFICES ASSUME NEW i \in 1 .. Size - FB_WIDTH
                 PROVE  up[Size - FB_WIDTH - i] = cells[Size - i]
      OBVIOUS
    <3>1. Size - FB_WIDTH - i \in Position /\ Size - FB_WIDTH - i < Size - FB_WIDTH
          /\ Size - FB_WIDTH - i + FB_WIDTH = Size - i
      BY ConsoleSize DEF Position
    <3> QED
      BY <3>1
  <2> HIDE DEF up
  <2>4. p.pos = Size - FB_WIDTH /\ p.cells = up
    BY <2>1
  <2>5. p.pos >= 1 => p.cells[p.pos - 1] = c
    <3>1. ASSUME Size - FB_WIDTH >= 1 PROVE up[Size - FB_WIDTH - 1] = cells[Size - 1]
      BY <2>3, <3>1, ConsoleSize
    <3> QED
      BY <1>3, <2>2, <2>4, <3>1
  <2>6. ASSUME NEW i \in 1 .. s.pos, i + 1 <= p.pos
        PROVE  p.cells[p.pos - (i + 1)] = s.cells[s.pos - i]
    <3>1. i + 1 \in 1 .. Size - FB_WIDTH /\ Size - (i + 1) = s.pos - i
      BY <2>2, <2>4, <2>6, ConsoleSize
    <3>2. up[Size - FB_WIDTH - (i + 1)] = cells[s.pos - i]
      BY <2>3, <3>1
    <3> QED
      BY <1>4, <2>4, <3>2
  <2> QED
    BY <2>4, <2>5, <2>6 DEF p
<1>6. CASE ~(next >= Size)
  <2>1. p.pos = s.pos + 1 /\ p.cells = cells
    BY <1>2, <1>6
  <2>2. p.cells[p.pos - 1] = c
    BY <1>1, <1>3, <2>1
  <2>3. ASSUME NEW i \in 1 .. s.pos
        PROVE  p.cells[p.pos - (i + 1)] = s.cells[s.pos - i]
    <3>1. p.pos - (i + 1) = s.pos - i
      BY <1>1, <2>1
    <3> QED
      BY <1>4, <2>1, <3>1
  <2> QED
    BY <2>1, <2>2, <2>3 DEF p
<1> QED
  BY <1>5, <1>6

(* The prompt stands right before the position where its printing ends.    *)
LEMMA PromptStands ==
  ASSUME NEW s \in Screen
  PROVE  /\ Puts(s, Prompt) \in Screen
         /\ Puts(s, Prompt).pos >= Len(Prompt)
         /\ \A i \in 1 .. Len(Prompt) :
              Puts(s, Prompt).cells[Puts(s, Prompt).pos - i] = Prompt[Len(Prompt) + 1 - i]
<1>1. Len(Prompt) \in Nat /\ Prompt \in Seq(Glyph) /\ Len(Prompt) <= Size - FB_WIDTH
      /\ \A n \in 1 .. Len(Prompt) : Prompt[n] \in Glyph
  BY LineEditorAssumption
<1>2. PICK f : /\ f[0] = s
               /\ \A n \in 1 .. Len(Prompt) : f[n] = Putc(f[n - 1], Prompt[n])
               /\ Puts(s, Prompt) = f[Len(Prompt)]
  BY <1>1, PutsSteps
<1> DEFINE Good(n) == /\ f[n] \in Screen /\ f[n].pos >= n
                      /\ \A i \in 1 .. n : f[n].cells[f[n].pos - i] = Prompt[n + 1 - i]
           S == {n \in 0 .. Len(Prompt) : Good(n)}
<1>3. 0 \in S
  <2>1. f[0] \in Screen /\ f[0].pos >= 0
    BY <1>2, ConsoleSize DEF Screen, Position
  <2> QED
    BY <1>1, <2>1
<1>4. ASSUME NEW n \in 0 .. Len(Prompt), n \in S, n < Len(Prompt)
      PROVE  n + 1 \in S
  <2>1. n + 1 \in 1 .. Len(Prompt) /\ n + 1 - 1 = n /\ n \in Nat
    BY <1>1, <1>4
  <2> DEFINE a == f[n]
             b == f[n + 1]
             c == Prompt[n + 1]
  <2>2. b = Putc(a, c) /\ c \in Glyph
    BY <1>1, <1>2, <2>1
  <2>3. a \in Screen /\ a.pos >= n /\ \A i \in 1 .. n : a.cells[a.pos - i] = Prompt[n + 1 - i]
    BY <1>4
  <2> HIDE DEF a, b, c
  <2>4. b \in Screen
    BY <2>2, <2>3, PutcFits
  <2>5. /\ b.pos = a.pos + 1 \/ b.pos = Size - FB_WIDTH
        /\ b.pos >= 1 => b.cells[b.pos - 1] = c
        /\ \A i \in 1 .. a.pos : i + 1 <= b.pos => b.cells[b.pos - (i + 1)] = a.cells[a.pos - i]
    BY <2>2, <2>3, PutcPushes
  <2>6. a.pos \in Nat /\ b.pos \in Nat
    BY <2>3, <2>4, ConsoleSize DEF Screen, Position
  <2>7. b.pos >= n + 1
    BY <1>1, <2>1, <2>3, <2>5, <2>6, ConsoleSize
  <2>8. ASSUME NEW i \in 1 .. n + 1
        PROVE  b.cells[b.pos - i] = Prompt[n + 1 + 1 - i]
    <3>1. CASE i = 1
      <4>1. n + 1 + 1 - i = n + 1 /\ b.pos >= 1
        BY <2>1, <2>6, <2>7, <3>1
      <4> QED
        BY <2>5, <3>1, <4>1 DEF c
    <3>2. CASE i > 1
      <4> DEFINE j == i - 1
      <4>1. j \in 1 .. n /\ j \in 1 .. a.pos /\ j + 1 <= b.pos /\ i = j + 1
            /\ n + 1 + 1 - i = n + 1 - j
        BY <2>1, <2>3, <2>6, <2>7, <3>2
      <4> HIDE DEF j
      <4>2. b.cells[b.pos - (j + 1)] = Prompt[n + 1 - j]
        BY <2>3, <2>5, <4>1
      <4> QED
        BY <4>1, <4>2
    <3> QED
      BY <2>1, <3>1, <3>2
  <2>9. Good(n + 1)
    BY <2>4, <2>7, <2>8 DEF b
  <2> HIDE DEF Good
  <2> QED
    BY <2>1, <2>9
<1>5. 0 .. Len(Prompt) \subseteq S
  <2> HIDE DEF S
  <2> QED
    BY <1>1, <1>3, <1>4, UpTo
<1> QED
  BY <1>1, <1>2, <1>5

-----------------------------------------------------------------------------
(***************************************************************************)
(* The line.                                                               *)
(***************************************************************************)
LineShape ==
  /\ screen \in Screen
  /\ buf \in Seq(Char) /\ Len(buf) < BUF_SIZE
  /\ hist_buf \in [1 .. HISTORY_SIZE -> Seq(Char)]

(* While the shell reads keys the history is empty for the editor, whose   *)
(* lineedit_init() forgets the count, so that Enter puts a line at its     *)
(* front, and the prompt did not lose its beginning.                       *)
Ready ==
  /\ LineOK
  /\ le_hist_count = 0 /\ le_hist_idx = -1
  /\ le_line_start >= Len(Prompt)

(* What LineInv rests on: what the buffer holds when the shell starts and  *)
(* when a game gives the screen back.                                      *)
LineIInv ==
  /\ LineShape
  /\ mode = "menu" => buf = << >>
  /\ mode = "shell" => Ready
  /\ mode = "game" => buf = hist_buf[1]

LEMMA ClearedFits == Cleared \in Screen
<1> DEFINE blank == [i \in Position |-> BLANK]
<1>1. blank \in [Position -> Glyph] /\ Cleared = [cells |-> blank, pos |-> 0]
  BY ConsoleAssumption DEF Cleared
<1> HIDE DEF blank
<1> QED
  BY <1>1, ConsoleSize DEF Screen

LEMMA HistoryAdds ==
  ASSUME LineShape, le_hist_count = 0
  PROVE  /\ buf = << >> => HistoryAdd(buf) = hist_buf
         /\ buf # << >> => HistoryAdd(buf) = [hist_buf EXCEPT ![1] = buf]
         /\ HistoryAdd(buf) \in [1 .. HISTORY_SIZE -> Seq(Char)]
         /\ buf = << >> \/ buf = HistoryAdd(buf)[1]
<1>1. HISTORY_SIZE \in Nat /\ ~(le_hist_count >= HISTORY_SIZE) /\ 1 \in 1 .. HISTORY_SIZE
  BY LineEditorAssumption
<1>2. hist_buf \in [1 .. HISTORY_SIZE -> Seq(Char)] /\ buf \in Seq(Char)
  BY DEF LineShape
<1>3. buf = << >> => HistoryAdd(buf) = hist_buf
  BY DEF HistoryAdd
<1>4. buf # << >> => HistoryAdd(buf) = [hist_buf EXCEPT ![1] = buf]
  BY <1>1 DEF HistoryAdd
<1> QED
  BY <1>1, <1>2, <1>3, <1>4

(* Whatever was printed before, the next line starts ready.                *)
LEMMA StartLineReady ==
  ASSUME LineShape, NEW printed \in Screen, StartLine(printed),
         hist_buf' \in [1 .. HISTORY_SIZE -> Seq(Char)],
         buf = << >> \/ buf = hist_buf'[1]
  PROVE  LineShape' /\ Ready'
<1> USE DEF StartLine, LineShape
<1>1. screen' \in Screen /\ screen'.pos \in Position /\ screen'.pos >= Len(Prompt)
  BY PromptStands DEF Screen
<1>2. PromptBeforeLine'
  BY PromptStands DEF PromptBeforeLine
<1>3. LineTypeOK'
  <2>1. Len(buf) \in Nat /\ HISTORY_SIZE \in Nat \ {0}
    BY LineEditorAssumption
  <2> QED
    BY <1>1, <2>1 DEF LineTypeOK
<1>4. LineOnScreen'
  <2>1. buf = << >> => Len(buf) = 0
    OBVIOUS
  <2> QED
    BY <2>1 DEF LineOnScreen
<1> QED
  BY <1>1, <1>2, <1>3, <1>4 DEF Ready, LineOK

-----------------------------------------------------------------------------
(* What a key makes of the line: the same line, or one that is all shown.  *)
Good(r) ==
  /\ r.buf \in Seq(Char) /\ Len(r.buf) < BUF_SIZE
  /\ r.len \in 0 .. Len(r.buf) /\ r.cursor \in 0 .. r.len /\ r.idx = -1
  /\ r.len = Len(r.buf) \/ (r.len = 0 /\ r.buf = hist_buf[1])

LEMMA HereGood ==
  ASSUME Ready
  PROVE  Good(Here) /\ \A c \in 0 .. le_len : Good([Here EXCEPT !.cursor = c])
  BY DEF Ready, LineOK, LineTypeOK, LineOnScreen, Good, Here

LEMMA WithGood ==
  ASSUME Ready, NEW text \in Seq(Char), Len(text) < BUF_SIZE, NEW cursor \in 0 .. Len(text)
  PROVE  Good(With(text, cursor))
<1>1. /\ With(text, cursor).buf = text /\ With(text, cursor).len = Len(text)
      /\ With(text, cursor).cursor = cursor /\ With(text, cursor).idx = -1
  BY DEF With, Here, Ready
<1> QED
  BY <1>1 DEF Good

LEMMA Inserted ==
  ASSUME NEW S, NEW s \in Seq(S), NEW i \in 1 .. Len(s) + 1, NEW e \in S
  PROVE  InsertAt(s, i, e) \in Seq(S) /\ Len(InsertAt(s, i, e)) = Len(s) + 1
<1> DEFINE a == SubSeq(s, 1, i - 1)
           b == SubSeq(s, i, Len(s))
           one == <<e>>
<1>1. a \in Seq(S) /\ Len(a) = i - 1 /\ b \in Seq(S) /\ Len(b) = Len(s) + 1 - i
  OBVIOUS
<1>2. one \in Seq(S) /\ Len(one) = 1
  OBVIOUS
<1>3. InsertAt(s, i, e) = a \o one \o b
  BY DEF InsertAt
<1> HIDE DEF a, b, one
<1>4. a \o one \in Seq(S) /\ Len(a \o one) = Len(a) + Len(one)
  BY <1>1, <1>2, ConcatProperties
<1>5. (a \o one) \o b \in Seq(S) /\ Len((a \o one) \o b) = Len(a \o one) + Len(b)
  BY <1>1, <1>4, ConcatProperties
<1> QED
  BY <1>1, <1>2, <1>3, <1>4, <1>5

LEMMA Removed ==
  ASSUME NEW S, NEW s \in Seq(S), NEW i \in 1 .. Len(s)
  PROVE  RemoveAt(s, i) \in Seq(S) /\ Len(RemoveAt(s, i)) = Len(s) - 1
<1> DEFINE a == SubSeq(s, 1, i - 1)
           b == SubSeq(s, i + 1, Len(s))
<1>1. a \in Seq(S) /\ Len(a) = i - 1 /\ b \in Seq(S) /\ Len(b) = Len(s) - i
  OBVIOUS
<1>2. RemoveAt(s, i) = a \o b
  BY DEF RemoveAt
<1> HIDE DEF a, b
<1>3. a \o b \in Seq(S) /\ Len(a \o b) = Len(a) + Len(b)
  BY <1>1, ConcatProperties
<1> QED
  BY <1>1, <1>2, <1>3

LEMMA EditedGood ==
  ASSUME Ready, NEW ev \in EditKey
  PROVE  Good(Edited(ev))
<1>1. /\ buf \in Seq(Char) /\ Len(buf) < BUF_SIZE /\ BUF_SIZE \in Nat
      /\ le_len \in 0 .. Len(buf) /\ le_cursor \in 0 .. le_len /\ Len(buf) \in Nat
  BY LineEditorAssumption DEF Ready, LineOK, LineTypeOK
<1>2. Line \in Seq(Char) /\ Len(Line) = le_len
  BY <1>1 DEF Line
<1>3. CASE ev \in Char /\ le_len < BUF_SIZE - 1
  <2>1. Edited(ev) = Typed(ev)
    BY <1>3, LineEditorAssumption DEF Edited, EditCode
  <2> DEFINE text == InsertAt(Line, le_cursor + 1, ev)
  <2>2. text \in Seq(Char) /\ Len(text) = le_len + 1
    BY <1>1, <1>2, <1>3, Inserted
  <2>3. Edited(ev) = With(text, le_cursor + 1)
    BY <2>1 DEF Typed
  <2> HIDE DEF text
  <2> QED
    BY <1>1, <1>3, <2>2, <2>3, WithGood
<1>4. CASE ev = "backspace" /\ le_cursor > 0
  <2>1. Edited(ev) = With(RemoveAt(Line, le_cursor), le_cursor - 1)
    BY <1>4, LineEditorAssumption DEF Edited, EditCode
  <2> DEFINE text == RemoveAt(Line, le_cursor)
  <2>2. text \in Seq(Char) /\ Len(text) = le_len - 1
    BY <1>1, <1>2, <1>4, Removed
  <2>3. Edited(ev) = With(text, le_cursor - 1)
    BY <2>1
  <2> HIDE DEF text
  <2> QED
    BY <1>1, <1>4, <2>2, <2>3, WithGood
<1>5. CASE ev = "del" /\ le_cursor < le_len
  <2>1. Edited(ev) = With(RemoveAt(Line, le_cursor + 1), le_cursor)
    BY <1>5, LineEditorAssumption DEF Edited, EditCode
  <2> DEFINE text == RemoveAt(Line, le_cursor + 1)
  <2>2. text \in Seq(Char) /\ Len(text) = le_len - 1
    BY <1>1, <1>2, <1>5, Removed
  <2>3. Edited(ev) = With(text, le_cursor)
    BY <2>1
  <2> HIDE DEF text
  <2> QED
    BY <1>1, <1>5, <2>2, <2>3, WithGood
<1>6. ASSUME ~(ev \in Char /\ le_len < BUF_SIZE - 1), ~(ev = "backspace" /\ le_cursor > 0),
             ~(ev = "del" /\ le_cursor < le_len)
      PROVE  Good(Edited(ev))
  <2>1. ~(le_hist_count > 0) /\ ~(le_hist_idx >= 0)
    BY DEF Ready
  <2>2. \/ Edited(ev) = Here
        \/ Edited(ev) = [Here EXCEPT !.cursor = le_cursor - 1] /\ le_cursor > 0
        \/ Edited(ev) = [Here EXCEPT !.cursor = le_cursor + 1] /\ le_cursor < le_len
        \/ Edited(ev) = [Here EXCEPT !.cursor = 0]
        \/ Edited(ev) = [Here EXCEPT !.cursor = le_len]
    BY <1>6, <2>1 DEF Edited, Here
  <2>3. /\ 0 \in 0 .. le_len /\ le_len \in 0 .. le_len
        /\ le_cursor > 0 => le_cursor - 1 \in 0 .. le_len
        /\ le_cursor < le_len => le_cursor + 1 \in 0 .. le_len
    BY <1>1
  <2> QED
    BY <2>2, <2>3, HereGood
<1> QED
  BY <1>3, <1>4, <1>5, <1>6

LEMMA RedrawShows ==
  ASSUME NEW cells \in [Position -> Glyph], NEW text \in Seq(Char), le_line_start \in Position
  PROVE  /\ Redraw(cells, text) \in [Position -> Glyph]
         /\ \A i \in Position : i < le_line_start => Redraw(cells, text)[i] = cells[i]
         /\ \A i \in le_line_start .. Size - 1 :
              Redraw(cells, text)[i] = IF i - le_line_start < Len(text) THEN text[i - le_line_start + 1] ELSE BLANK
<1>1. Len(text) \in Nat /\ \A n \in 1 .. Len(text) : text[n] \in Glyph
  BY LineEditorAssumption
<1>2. \A i \in Position : ~(i < le_line_start) /\ i - le_line_start < Len(text) =>
        i - le_line_start + 1 \in 1 .. Len(text)
  BY <1>1, ConsoleSize DEF Position
<1>3. \A i \in le_line_start .. Size - 1 : i \in Position /\ ~(i < le_line_start)
  BY ConsoleSize DEF Position
<1> QED
  BY <1>1, <1>2, <1>3, ConsoleAssumption DEF Redraw

LEMMA PressKeeps ==
  ASSUME LineShape, Ready, NEW ev \in EditKey, Press(ev)
  PROVE  LineShape' /\ Ready'
<1> DEFINE r == Edited(ev)
           text == SubSeq(r.buf, 1, r.len)
<1>1. Good(r)
  BY EditedGood
<1>2. /\ screen' = [screen EXCEPT !.cells = Redraw(screen.cells, text)]
      /\ buf' = r.buf /\ le_len' = r.len /\ le_cursor' = r.cursor /\ le_hist_idx' = r.idx
      /\ le_line_start' = le_line_start /\ le_hist_count' = le_hist_count /\ hist_buf' = hist_buf
  BY DEF Press
<1> HIDE DEF r
<1>3. text \in Seq(Char) /\ Len(text) = r.len /\ \A n \in 1 .. r.len : text[n] = r.buf[n]
  BY <1>1 DEF Good
<1> HIDE DEF text
<1>4. screen \in Screen /\ screen.cells \in [Position -> Glyph] /\ screen.pos \in Position
      /\ le_line_start \in Position /\ le_line_start \in Nat
  BY ConsoleSize DEF LineShape, Screen, Position, Ready, LineOK, LineTypeOK
<1> DEFINE cells == Redraw(screen.cells, text)
<1>5. /\ cells \in [Position -> Glyph]
      /\ \A i \in Position : i < le_line_start => cells[i] = screen.cells[i]
      /\ \A i \in le_line_start .. Size - 1 :
           cells[i] = IF i - le_line_start < Len(text) THEN text[i - le_line_start + 1] ELSE BLANK
  BY <1>3, <1>4, RedrawShows
<1> HIDE DEF cells
<1>6. screen'.cells = cells /\ screen'.pos = screen.pos /\ screen' \in Screen
  <2>1. screen = [cells |-> screen.cells, pos |-> screen.pos]
    BY <1>4 DEF Screen
  <2>2. screen' = [cells |-> cells, pos |-> screen.pos]
    BY <1>2, <2>1 DEF cells
  <2> QED
    BY <1>4, <1>5, <2>2 DEF Screen
<1>7. LineShape'
  BY <1>1, <1>2, <1>6 DEF LineShape, Good
<1>8. LineTypeOK'
  BY <1>1, <1>2, <1>6, LineEditorAssumption DEF LineTypeOK, Ready, LineOK, Good
<1>9. PromptBeforeLine'
  <2>1. \A i \in 1 .. Len(Prompt) : le_line_start - i \in Position /\ le_line_start - i < le_line_start
    BY <1>4, LineEditorAssumption, ConsoleSize DEF Ready, Position
  <2> QED
    BY <1>2, <1>5, <1>6, <2>1 DEF PromptBeforeLine, Ready, LineOK
<1>10. LineOnScreen'
  <2>1. ASSUME NEW i \in le_line_start .. Size - 1
        PROVE  cells[i] = IF i - le_line_start < r.len THEN r.buf[i - le_line_start + 1] ELSE BLANK
    <3>1. i - le_line_start < r.len => i - le_line_start + 1 \in 1 .. r.len
      BY <1>1, <1>4, ConsoleSize DEF Good
    <3> QED
      BY <1>3, <1>5, <3>1
  <2> QED
    BY <1>1, <1>2, <1>6, <2>1 DEF LineOnScreen, Good
<1> QED
  BY <1>1, <1>2, <1>7, <1>8, <1>9, <1>10 DEF Ready, LineOK, Good

-----------------------------------------------------------------------------
LEMMA LineInitHolds == Init => LineIInv
<1> SUFFICES ASSUME Init PROVE LineIInv
  OBVIOUS
<1> USE DEF Init, LineInit
<1>1. << >> \in Seq(Char) /\ Len(<< >>) = 0 /\ BUF_SIZE > 0
  BY LineEditorAssumption
<1>2. hist_buf \in [1 .. HISTORY_SIZE -> Seq(Char)]
  BY <1>1
<1>3. LineShape
  BY <1>1, <1>2, ClearedFits DEF LineShape
<1> QED
  BY <1>3 DEF LineIInv

LEMMA LineStepKeeps == LineIInv /\ [Next]_vars => LineIInv'
<1> SUFFICES ASSUME LineIInv, [Next]_vars PROVE LineIInv'
  OBVIOUS
<1> USE DEF LineIInv
<1>1. CASE UNCHANGED <<mode, lineVars>>
  BY <1>1 DEF lineVars, LineShape, Ready, LineOK, LineTypeOK, PromptBeforeLine, LineOnScreen
<1>2. CASE MenuTick
  BY <1>1, <1>2 DEF MenuTick
<1>3. ASSUME NEW m \in {"shell", "desktop"}, mode = "menu", Boot(m) PROVE LineIInv'
  <2>1. Puts(Cleared, Banner) \in Screen
    BY ClearedFits, PutsFits, TextSessionAssumption
  <2>2. StartLine(Puts(Cleared, Banner)) /\ hist_buf' = hist_buf /\ buf = << >> /\ mode' = m
    BY <1>3 DEF Boot, ShellInit
  <2>3. LineShape' /\ Ready'
    BY <2>1, <2>2, StartLineReady DEF LineShape
  <2> QED
    BY <2>2, <2>3
<1>4. ASSUME NEW key \in {"1", "other"}, NEW framebuffer \in BOOLEAN, ChooseDesktop(key, framebuffer)
      PROVE  LineIInv'
  BY <1>3, <1>4 DEF ChooseDesktop
<1>5. CASE ChooseShell
  BY <1>3, <1>5 DEF ChooseShell
<1>6. ASSUME NEW ev \in EditKey, EditLine(ev) PROVE LineIInv'
  <2>1. LineShape' /\ Ready'
    BY <1>6, PressKeeps DEF EditLine
  <2> QED
    BY <1>6, <2>1 DEF EditLine
<1>7. ASSUME NEW reply \in Reply, EnterLine(reply) PROVE LineIInv'
  <2>1. LineShape /\ le_hist_count = 0 /\ mode' = "shell" /\ mode = "shell"
    BY <1>7 DEF EnterLine, Ready
  <2>2. hist_buf' = HistoryAdd(buf)
    BY <1>7 DEF EnterLine, Enter, EnterClear
  <2>3. PICK printed \in Screen : StartLine(printed)
    <3>1. CASE Enter(reply)
      <4>1. Putc(screen, NEWLINE) \in Screen
        BY <2>1, PutcFits DEF LineShape
      <4>2. Puts(Putc(screen, NEWLINE), reply) \in Screen
        BY <4>1, PutsFits, LineEditorAssumption
      <4> QED
        BY <3>1, <4>2 DEF Enter
    <3>2. CASE EnterClear
      BY <3>2, ClearedFits DEF EnterClear
    <3> QED
      BY <1>7, <3>1, <3>2 DEF EnterLine
  <2>4. hist_buf' \in [1 .. HISTORY_SIZE -> Seq(Char)] /\ (buf = << >> \/ buf = hist_buf'[1])
    BY <2>1, <2>2, HistoryAdds
  <2>5. LineShape' /\ Ready'
    BY <2>1, <2>3, <2>4, StartLineReady
  <2> QED
    BY <2>1, <2>5
<1>8. CASE Play
  <2>1. LineShape /\ le_hist_count = 0 /\ mode' = "game" /\ buf # << >> /\ buf' = buf
    BY <1>8, TextSessionAssumption DEF Play, Ready
  <2>2. hist_buf' \in [1 .. HISTORY_SIZE -> Seq(Char)] /\ buf = hist_buf'[1]
    BY <1>8, <2>1, HistoryAdds DEF Play
  <2>3. screen' \in Screen
    BY <1>8, ClearedFits DEF Play
  <2> QED
    BY <2>1, <2>2, <2>3 DEF LineShape
<1>9. CASE InGame
  <2>1. CASE phase' # "off"
    BY <1>1, <1>9, <2>1 DEF InGame
  <2>2. CASE phase' = "off"
    <3>1. Return /\ mode = "game" /\ mode' = "shell" /\ hist_buf' = hist_buf
      BY <1>9, <2>2 DEF InGame, Return
    <3>2. Cleared \in Screen /\ StartLine(Cleared)
      BY <3>1, ClearedFits DEF Return
    <3>3. LineShape' /\ Ready'
      BY <3>1, <3>2, StartLineReady DEF LineShape
    <3> QED
      BY <3>1, <3>3
  <2> QED
    BY <2>1, <2>2
<1> QED
  BY <1>1, <1>2, <1>4, <1>5, <1>6, <1>7, <1>8, <1>9 DEF Next, vars

LEMMA LineHolds == Spec => []LineIInv
  BY LineInitHolds, LineStepKeeps, PTL DEF Spec

(* Whatever is typed, printed, scrolled, cleared or played, on a screen of *)
(* any size: the prompt stands before the line, what was typed is what is  *)
(* seen, and it is what Enter executes.                                    *)
THEOREM LineIsShown == Spec => []LineInv
<1>1. LineIInv => LineInv
  BY DEF LineIInv, LineInv, Ready
<1> QED
  BY <1>1, LineHolds, PTL

(* No step puts a line into the history that the screen did not show.      *)
THEOREM HistoryHoldsWhatWasShown == Spec => HistoryWasShown
<1> DEFINE Shown == hist_buf' # hist_buf =>
                      \A i \in 1 .. Len(hist_buf'[1]) :
                        le_line_start + i <= Size => screen.cells[le_line_start + i - 1] = hist_buf'[1][i]
<1>1. LineIInv /\ [Next]_vars => [Shown]_vars
  <2> SUFFICES ASSUME LineIInv, Next, hist_buf' # hist_buf,
                      NEW i \in 1 .. Len(hist_buf'[1]), le_line_start + i <= Size
               PROVE  screen.cells[le_line_start + i - 1] = hist_buf'[1][i]
    BY DEF vars
  <2>1. hist_buf' = HistoryAdd(buf) /\ mode = "shell"
    BY DEF Next, MenuTick, ChooseDesktop, ChooseShell, Boot, ShellInit, EditLine, Press, EnterLine,
           Enter, EnterClear, Play, InGame, Return, lineVars
  <2>2. LineShape /\ Ready
    BY <2>1 DEF LineIInv
  <2>3. buf # << >> /\ hist_buf' = [hist_buf EXCEPT ![1] = buf]
    BY <2>1, <2>2, HistoryAdds DEF Ready
  <2>4. hist_buf'[1] = buf /\ buf # hist_buf[1]
    <3>1. hist_buf \in [1 .. HISTORY_SIZE -> Seq(Char)] /\ 1 \in 1 .. HISTORY_SIZE
      BY <2>2, LineEditorAssumption DEF LineShape
    <3> QED
      BY <2>3, <3>1
  <2>5. le_len = Len(buf) /\ Len(buf) \in Nat /\ le_line_start \in Nat
    BY <2>2, <2>4, ConsoleSize DEF Ready, LineOK, LineOnScreen, LineTypeOK, Position
  <2> DEFINE j == le_line_start + i - 1
  <2>6. j \in le_line_start .. Size - 1 /\ j - le_line_start + 1 = i
        /\ le_len > 0 /\ j - le_line_start < le_len
    BY <2>4, <2>5, ConsoleSize
  <2> HIDE DEF j
  <2>7. screen.cells[j] = buf[j - le_line_start + 1]
    BY <2>2, <2>6 DEF Ready, LineOK, LineOnScreen
  <2> QED
    BY <2>4, <2>6, <2>7 DEF j
<1> QED
  BY <1>1, LineHolds, PTL DEF Spec, HistoryWasShown

-----------------------------------------------------------------------------
(***************************************************************************)
(* The shell.                                                              *)
(***************************************************************************)
Word == Seq(Lexeme)

(* A function on 1 .. m whose values rest on those of later arguments      *)
(* exists.  st gives the value at a place, from the function.              *)
LaterOnly(st, m, X) ==
  \A g, h \in [1 .. m -> X], i \in 1 .. m :
    (\A j \in i + 1 .. m : g[j] = h[j]) => st[<<g, i>>] = st[<<h, i>>]

Settled(f, st, m) == f = [i \in 1 .. m |-> st[<<f, i>>]]

LEMMA FromTheEnd ==
  ASSUME NEW m \in Nat, NEW X, X # {}, NEW st \in [[1 .. m -> X] \X (1 .. m) -> X],
         LaterOnly(st, m, X)
  PROVE  \E f \in [1 .. m -> X] : Settled(f, st, m)
<1> DEFINE Right(f, k) == \A i \in 1 .. m : i > m - k => f[i] = st[<<f, i>>]
           S == {k \in 0 .. m : \E f \in [1 .. m -> X] : Right(f, k)}
<1>1. 0 \in S
  <2>1. PICK x \in X : TRUE
    OBVIOUS
  <2> DEFINE f == [i \in 1 .. m |-> x]
  <2>2. f \in [1 .. m -> X] /\ Right(f, 0)
    OBVIOUS
  <2>3. 0 \in 0 .. m
    OBVIOUS
  <2> HIDE DEF f, Right
  <2> QED
    BY <2>2, <2>3
<1>2. ASSUME NEW k \in 0 .. m, k \in S, k < m
      PROVE  k + 1 \in S
  <2>1. PICK f \in [1 .. m -> X] : Right(f, k)
    BY <1>2
  <2> DEFINE p == m - k
             g == [f EXCEPT ![p] = st[<<f, p>>]]
  <2>2. p \in 1 .. m
    BY <1>2
  <2>3. g \in [1 .. m -> X]
    BY <2>2
  <2>4. \A j \in p + 1 .. m : g[j] = f[j]
    BY <2>2
  <2>5. \A i \in p .. m : st[<<g, i>>] = st[<<f, i>>]
    <3> SUFFICES ASSUME NEW i \in p .. m PROVE st[<<g, i>>] = st[<<f, i>>]
      OBVIOUS
    <3> HIDE DEF g, p
    <3>1. i \in 1 .. m /\ \A j \in i + 1 .. m : j \in p + 1 .. m
      BY <2>2
    <3>2. \A j \in i + 1 .. m : g[j] = f[j]
      BY <2>4, <3>1
    <3> QED
      BY <2>3, <3>1, <3>2 DEF LaterOnly
  <2>6. g[p] = st[<<f, p>>]
    BY <2>2
  <2>7. \A i \in p + 1 .. m : f[i] = st[<<f, i>>]
    BY <2>1, <2>2
  <2>8. \A i \in p .. m : g[i] = st[<<g, i>>]
    <3> HIDE DEF g, p
    <3>1. \A i \in p .. m : i = p \/ i \in p + 1 .. m
      BY <2>2
    <3>2. p \in p .. m
      BY <2>2
    <3> QED
      BY <2>4, <2>5, <2>6, <2>7, <3>1, <3>2
  <2>9. Right(g, k + 1)
    <3>1. \A i \in 1 .. m : i > m - (k + 1) => i \in p .. m
      BY <1>2
    <3> HIDE DEF g
    <3> QED
      BY <2>8, <3>1
  <2> QED
    <3> HIDE DEF g, Right
    <3> QED
      BY <1>2, <2>3, <2>9
<1>3. m \in S
  <2>1. 0 .. m \subseteq S
    <3> HIDE DEF S
    <3> QED
      BY <1>1, <1>2, UpTo
  <2> HIDE DEF S
  <2> QED
    BY <2>1
<1>4. PICK f \in [1 .. m -> X] : Right(f, m)
  BY <1>3
<1>5. Settled(f, st, m)
  BY <1>4 DEF Settled
<1> QED
  BY <1>5

(* Such a function has its values in X as soon as st keeps them there.     *)
LEMMA Latest ==
  ASSUME NEW m \in Nat, NEW S, \A i \in 1 .. m : (\A j \in i + 1 .. m : j \in S) => i \in S
  PROVE  1 .. m \subseteq S
<1> DEFINE D == {k \in 0 .. m : m - k + 1 .. m \subseteq S}
<1>1. 0 \in D
  OBVIOUS
<1>2. ASSUME NEW k \in 0 .. m, k \in D, k < m
      PROVE  k + 1 \in D
  <2>1. m - k \in 1 .. m /\ (m - k) + 1 .. m \subseteq S
    BY <1>2
  <2>2. m - k \in S
    BY <2>1
  <2>3. \A j \in m - (k + 1) + 1 .. m : j = m - k \/ j \in m - k + 1 .. m
    BY <1>2
  <2>4. m - (k + 1) + 1 .. m \subseteq S
    BY <2>1, <2>2, <2>3
  <2> QED
    BY <1>2, <2>4
<1>3. 0 .. m \subseteq D
  <2> HIDE DEF D
  <2> QED
    BY <1>1, <1>2, UpTo
<1>4. m \in D
  <2> HIDE DEF D
  <2> QED
    BY <1>3
<1> QED
  BY <1>4

LEMMA UptoFacts ==
  ASSUME NEW line, Len(line) \in Nat, NEW i \in Nat \ {0}, NEW cs
  PROVE  /\ Upto(line, i, cs) \in 1 .. Len(line) + 1
         /\ i <= Len(line) + 1 => Upto(line, i, cs) >= i
         /\ Upto(line, i, cs) <= Len(line) => line[Upto(line, i, cs)] \in cs
         /\ Upto(line, i, cs) <= Len(line) => Upto(line, i, cs) >= i
         /\ \A j \in i .. Upto(line, i, cs) - 1 : j <= Len(line) => line[j] \notin cs
<1> DEFINE places == {j \in i .. Len(line) : line[j] \in cs}
           u == Upto(line, i, cs)
<1>1. CASE places = {}
  <2>1. u = Len(line) + 1
    BY <1>1 DEF Upto
  <2>2. \A j \in i .. Len(line) : line[j] \notin cs
    BY <1>1
  <2> HIDE DEF u
  <2>3. QED
    BY <2>1, <2>2 DEF u
<1>2. CASE places # {}
  <2>1. \E x \in places : \A y \in places : x <= y
    <3>1. places \subseteq Nat
      OBVIOUS
    <3> HIDE DEF places
    <3> QED
      BY <1>2, <3>1, Least
  <2>2. u = CHOOSE j \in places : \A k \in places : j <= k
    BY <1>2 DEF Upto
  <2>3. u \in places /\ \A k \in places : u <= k
    <3> HIDE DEF places, u
    <3> QED
      BY <2>1, <2>2
  <2>4. u \in i .. Len(line) /\ line[u] \in cs
    BY <2>3
  <2>5. \A j \in i .. Len(line) : line[j] \in cs => u <= j
    BY <2>3
  <2> HIDE DEF u
  <2> QED
    BY <2>4, <2>5 DEF u
<1> QED
  BY <1>1, <1>2

(***************************************************************************)
(* The environment.                                                        *)
(***************************************************************************)
LEMMA EntryFacts ==
  ASSUME NEW env \in Seq(Word), NEW name, Entries(env, name) # {}
  PROVE  /\ EntryOf(env, name) \in 1 .. Len(env)
         /\ IsPrefix(name \o <<"=">>, env[EntryOf(env, name)])
<1> DEFINE S == Entries(env, name)
<1>1. S \subseteq 1 .. Len(env) /\ S \subseteq Nat
  BY DEF Entries
<1>2. EntryOf(env, name) \in S
  <2>1. PICK x \in S : \A y \in S : x <= y
    <3> HIDE DEF S
    <3>1. S # {}
      BY DEF S
    <3> QED
      BY <1>1, <3>1, Least
  <2>2. EntryOf(env, name) = CHOOSE i \in S : \A k \in S : i <= k
    BY DEF EntryOf
  <2> HIDE DEF S
  <2> QED
    BY <2>1, <2>2
<1> QED
  BY <1>1, <1>2 DEF Entries

LEMMA EnvGetType ==
  ASSUME NEW env \in Seq(Word), NEW name \in Word
  PROVE  EnvGet(env, name) \in Word
<1>1. CASE Entries(env, name) = {}
  BY <1>1 DEF EnvGet, Word
<1>2. CASE Entries(env, name) # {}
  <2> DEFINE entry == env[EntryOf(env, name)]
  <2>1. entry \in Word
    BY <1>2, EntryFacts
  <2>2. EnvGet(env, name) = SubSeq(entry, Len(name) + 2, Len(entry))
    BY <1>2 DEF EnvGet
  <2> HIDE DEF entry
  <2>3. SubSeq(entry, Len(name) + 2, Len(entry)) \in Word
    BY <2>1 DEF Word
  <2> QED
    BY <2>2, <2>3
<1> QED
  BY <1>1, <1>2

Steps(n, A) == [1 .. n -> [out : Seq(A), next : Int]]

LEMMA ScanType ==
  ASSUME NEW n \in Nat, NEW A, NEW piece \in Steps(n, A),
         \A i \in 1 .. n : piece[i].next \in i + 1 .. n + 2
  PROVE  Scan(n, piece) \in Seq(A)
<1> DEFINE m == n + 2
           X == Seq(A)
           F == [1 .. m -> X]
           V(g, i) == IF i > n THEN << >> ELSE piece[i].out \o g[piece[i].next]
           st == [p \in F \X (1 .. m) |-> V(p[1], p[2])]
           from == CHOOSE g : g = [i \in 1 .. n + 2 |-> V(g, i)]
<1>1. Scan(n, piece) = from[1]
  BY DEF Scan
<1>2. \A i \in 1 .. n : piece[i].out \in X /\ piece[i].next \in i + 1 .. m
  BY DEF Steps
<1>3. << >> \in X /\ m \in Nat
  OBVIOUS
<1>4. \A g \in F, i \in 1 .. m : V(g, i) \in X
  <2> SUFFICES ASSUME NEW g \in F, NEW i \in 1 .. m PROVE V(g, i) \in X
    OBVIOUS
  <2>1. CASE i > n
    BY <1>3, <2>1
  <2>2. CASE i \in 1 .. n
    <3>1. piece[i].out \in X /\ g[piece[i].next] \in X
      BY SMTT(20), <1>2, <2>2
    <3>2. piece[i].out \o g[piece[i].next] \in X
      BY <3>1
    <3> HIDE DEF X
    <3> QED
      BY <2>2, <3>2
  <2> QED
    BY <2>1, <2>2
<1>5. \A g, h \in F, i \in 1 .. m : (\A j \in i + 1 .. m : g[j] = h[j]) => V(g, i) = V(h, i)
  <2> SUFFICES ASSUME NEW g \in F, NEW h \in F, NEW i \in 1 .. m, \A j \in i + 1 .. m : g[j] = h[j]
               PROVE  V(g, i) = V(h, i)
    OBVIOUS
  <2>1. CASE i > n
    BY <2>1
  <2>2. CASE i \in 1 .. n
    <3>1. g[piece[i].next] = h[piece[i].next]
      BY <1>2, <2>2
    <3> QED
      BY <3>1
  <2> QED
    BY <2>1, <2>2
<1>6. \A g \in F, i \in 1 .. m : st[<<g, i>>] = V(g, i)
  <2> HIDE DEF F, V
  <2> QED
    OBVIOUS
<1>7. \E f \in F : f = [i \in 1 .. m |-> st[<<f, i>>]]
  <2>1. st \in [F \X (1 .. m) -> X]
    <3> HIDE DEF F, V, X
    <3> QED
      BY <1>4
  <2>2. \A g, h \in F, i \in 1 .. m : (\A j \in i + 1 .. m : g[j] = h[j]) => st[<<g, i>>] = st[<<h, i>>]
    <3> HIDE DEF F, V, X, st
    <3> QED
      BY <1>5, <1>6
  <2>4. LaterOnly(st, m, X)
    <3> HIDE DEF st, X, m
    <3> QED
      BY <2>2 DEF LaterOnly
  <2>3. X # {}
    BY <1>3
  <2>5. m \in Nat
    OBVIOUS
  <2> HIDE DEF st, X, m
  <2>6. st \in [[1 .. m -> X] \X (1 .. m) -> X]
    BY <2>1
  <2>7. \E f \in [1 .. m -> X] : Settled(f, st, m)
    BY <2>3, <2>4, <2>5, <2>6, FromTheEnd
  <2> QED
    BY <2>7 DEF Settled
<1>8. from = [i \in 1 .. n + 2 |-> V(from, i)]
  <2>1. PICK f \in F : f = [i \in 1 .. m |-> st[<<f, i>>]]
    BY <1>7
  <2>2. [i \in 1 .. m |-> st[<<f, i>>]] = [i \in 1 .. n + 2 |-> V(f, i)]
    <3> HIDE DEF F, V, st
    <3> QED
      BY <1>6
  <2> HIDE DEF V, st, F
  <2> QED
    BY <2>1, <2>2
<1> HIDE DEF from
<1>9. \A i \in 1 .. m : from[i] = V(from, i)
  <2> HIDE DEF V
  <2> QED
    BY <1>8
<1> DEFINE S == {i \in 1 .. m : from[i] \in X}
<1>10. ASSUME NEW i \in 1 .. m, \A j \in i + 1 .. m : j \in S
       PROVE  i \in S
  <2>1. CASE i > n
    BY <1>3, <1>9, <2>1
  <2>2. CASE i \in 1 .. n
    <3>1. piece[i].out \in X /\ from[piece[i].next] \in X
      BY <1>2, <1>10, <2>2
    <3>2. piece[i].out \o from[piece[i].next] \in X
      BY <3>1
    <3>3. from[i] = piece[i].out \o from[piece[i].next]
      <4>1. from[i] = V(from, i)
        BY <1>9
      <4>2. ~(i > n)
        BY <2>2
      <4> QED
        BY <4>1, <4>2
    <3> QED
      BY <3>2, <3>3
  <2> QED
    BY <2>1, <2>2
<1>11. 1 .. m \subseteq S
  <2> HIDE DEF S, m
  <2> QED
    BY <1>3, <1>10, Latest
<1>12. from[1] \in X
  BY <1>11
<1> QED
  BY <1>1, <1>12

LEMMA ExpandType ==
  ASSUME NEW env \in Seq(Word), NEW line \in Word
  PROVE  Expand(env, line) \in Word
<1> DEFINE n == Len(line)
<1>1. n \in Nat /\ \A i \in 1 .. n : line[i] \in Lexeme
  BY DEF Word
<1>2. ASSUME NEW i \in 1 .. n
      PROVE  /\ Expansion(env, line, i) \in [out : Word, next : Int]
             /\ Expansion(env, line, i).next \in i + 1 .. n + 2
  <2> DEFINE brace == Upto(line, i, {"}"})
             name  == Upto(line, i + 1, Quote \cup {" "})
  <2>1. brace \in i .. n + 1 /\ name \in i + 1 .. n + 1
    <3>1. i \in Nat \ {0} /\ i + 1 \in Nat \ {0} /\ i + 1 <= Len(line) + 1 /\ i <= Len(line) + 1
      BY <1>1
    <3>2. brace \in 1 .. n + 1 /\ brace >= i
      BY <1>1, <3>1, UptoFacts
    <3>3. name \in 1 .. n + 1 /\ name >= i + 1
      BY <1>1, <3>1, UptoFacts
    <3> HIDE DEF brace, name
    <3> QED
      BY <1>1, <3>2, <3>3
  <2> HIDE DEF brace, name
  <2>2. SubSeq(line, i + 2, brace - 1) \in Word /\ SubSeq(line, i + 1, name - 1) \in Word
    BY <2>1 DEF Word
  <2>3. EnvGet(env, SubSeq(line, i + 2, brace - 1)) \in Word /\ EnvGet(env, SubSeq(line, i + 1, name - 1)) \in Word
    BY <2>2, EnvGetType
  <2>4. <<line[i]>> \in Word /\ \A j \in 1 .. n : line[j] = "$" => <<"$">> \in Word
    BY <1>1 DEF Word
  <2>5. \/ /\ brace <= n
           /\ Expansion(env, line, i) = Step(EnvGet(env, SubSeq(line, i + 2, brace - 1)), brace + 1)
        \/ Expansion(env, line, i) = Step(EnvGet(env, SubSeq(line, i + 1, name - 1)), name)
        \/ /\ i < n /\ line[i + 1] = "$"
           /\ Expansion(env, line, i) = Step(<<"$">>, i + 2)
        \/ Expansion(env, line, i) = Step(<<line[i]>>, i + 1)
    BY DEF Expansion, brace, name
  <2>6. i < n => i + 1 \in 1 .. n
    BY <1>1
  <2> HIDE DEF n
  <2>7. \A out \in Word, next \in i + 1 .. n + 2 :
          /\ Step(out, next) \in [out : Word, next : Int]
          /\ Step(out, next).next \in i + 1 .. n + 2
    BY <1>1 DEF Step
  <2> QED
    <3>1. CASE brace <= n /\ Expansion(env, line, i) = Step(EnvGet(env, SubSeq(line, i + 2, brace - 1)), brace + 1)
      <4>1. brace + 1 \in i + 1 .. n + 2
        BY <1>1, <2>1
      <4> QED
        BY <2>3, <2>7, <3>1, <4>1
    <3>2. CASE Expansion(env, line, i) = Step(EnvGet(env, SubSeq(line, i + 1, name - 1)), name)
      <4>1. name \in i + 1 .. n + 2
        BY <1>1, <2>1
      <4> QED
        BY <2>3, <2>7, <3>2, <4>1
    <3>3. CASE i < n /\ line[i + 1] = "$" /\ Expansion(env, line, i) = Step(<<"$">>, i + 2)
      <4>1. i + 2 \in i + 1 .. n + 2 /\ <<"$">> \in Word
        BY <1>1, <2>4, <2>6, <3>3
      <4> QED
        BY <2>7, <3>3, <4>1
    <3>4. CASE Expansion(env, line, i) = Step(<<line[i]>>, i + 1)
      <4>1. i + 1 \in i + 1 .. n + 2 /\ <<line[i]>> \in Word
        BY <1>1, <2>4
      <4> QED
        BY <2>7, <3>4, <4>1
    <3> QED
      BY <2>5, <3>1, <3>2, <3>3, <3>4
<1> DEFINE piece == [i \in 1 .. n |-> Expansion(env, line, i)]
<1>3. piece \in Steps(n, Lexeme) /\ \A i \in 1 .. n : piece[i].next \in i + 1 .. n + 2
  BY <1>2 DEF Steps, Word
<1>4. Expand(env, line) = Scan(n, piece)
  BY DEF Expand
<1> HIDE DEF piece, n
<1>5. Scan(n, piece) \in Seq(Lexeme)
  BY <1>1, <1>3, ScanType
<1> QED
  BY <1>4, <1>5 DEF Word

LEMMA UptoWithin ==
  ASSUME NEW A, NEW line \in Seq(A), NEW i \in 1 .. Len(line) + 1, NEW cs
  PROVE  Upto(line, i, cs) \in i .. Len(line) + 1
<1>1. i \in Nat \ {0} /\ Len(line) \in Nat /\ i <= Len(line) + 1
  OBVIOUS
<1>2. Upto(line, i, cs) \in 1 .. Len(line) + 1 /\ Upto(line, i, cs) >= i
  BY <1>1, UptoFacts
<1> QED
  BY <1>1, <1>2

LEMMA CutType ==
  ASSUME NEW A, NEW list \in Seq(A), NEW n \in Nat
  PROVE  Cut(list, n) \in Seq(A)
<1>1. Cut(list, n) = SubSeq(list, 1, n) \/ Cut(list, n) = SubSeq(list, 1, Len(list))
  BY DEF Cut
<1>2. Cut(list, n) = SubSeq(list, 1, n) => n <= Len(list) \/ Cut(list, n) = SubSeq(list, 1, Len(list))
  BY DEF Cut
<1> QED
  BY <1>1, <1>2

(* A part of a text is a word, and one character of it is one.              *)
LEMMA PartType ==
  ASSUME NEW A, NEW line \in Seq(A), NEW i \in Nat \ {0}, NEW e \in 0 .. Len(line)
  PROVE  SubSeq(line, i, e) \in Seq(A)
  OBVIOUS

LEMMA ScannedType ==
  ASSUME NEW n \in Nat, NEW A, NEW piece, piece = [i \in 1 .. n |-> piece[i]],
         \A i \in 1 .. n : \E out \in Seq(A), next \in i + 1 .. n + 2 : piece[i] = Step(out, next)
  PROVE  Scan(n, piece) \in Seq(A)
<1>1. \A i \in 1 .. n : piece[i] \in [out : Seq(A), next : Int] /\ piece[i].next \in i + 1 .. n + 2
  BY DEF Step
<1>2. piece \in Steps(n, A)
  BY <1>1 DEF Steps
<1> QED
  BY <1>1, <1>2, ScanType

LEMMA WordsType ==
  ASSUME NEW text \in Word
  PROVE  Words(text) \in Seq(Word)
<1> DEFINE n == Len(text)
           piece == [i \in 1 .. n |-> NextWord(text, i)]
<1>1. n \in Nat
  BY DEF Word
<1>2. ASSUME NEW i \in 1 .. n
      PROVE  \E out \in Seq(Word), next \in i + 1 .. n + 2 : piece[i] = Step(out, next)
  <2> DEFINE end == Upto(text, i, {" "})
  <2>1. end \in i .. n + 1
    <3>1. i \in 1 .. n + 1
      BY <1>1
    <3> QED
      BY <3>1, UptoWithin DEF Word
  <2>2. piece[i] = NextWord(text, i)
    OBVIOUS
  <2> HIDE DEF piece
  <2>3. CASE text[i] = " "
    <3>1. piece[i] = Step(<< >>, i + 1)
      BY <2>2, <2>3 DEF NextWord
    <3>2. << >> \in Seq(Word) /\ i + 1 \in i + 1 .. n + 2
      BY <1>1
    <3> HIDE DEF n, end
    <3> QED
      BY <3>1, <3>2
  <2>4. CASE text[i] # " "
    <3>1. end # i
      <4>1. i \in Nat \ {0} /\ Len(text) \in Nat
        BY <1>1
      <4>2. end <= Len(text) => text[end] \in {" "}
        BY <4>1, UptoFacts
      <4>3. SUFFICES ASSUME end = i PROVE FALSE
        OBVIOUS
      <4> HIDE DEF end
      <4>4. end <= Len(text)
        BY <1>1, <4>3
      <4> QED
        BY <2>4, <4>2, <4>3, <4>4
    <3>2. piece[i] = Step(<<SubSeq(text, i, end - 1)>>, end)
      BY <2>2, <2>4 DEF NextWord
    <3> HIDE DEF end
    <3>3. SubSeq(text, i, end - 1) \in Word
      BY <1>1, <2>1 DEF Word
    <3>4. <<SubSeq(text, i, end - 1)>> \in Seq(Word) /\ end \in i + 1 .. n + 2
      BY <1>1, <2>1, <3>1, <3>3
    <3> HIDE DEF n
    <3> QED
      BY <3>2, <3>4
  <2> QED
    BY <2>3, <2>4
<1>3. Words(text) = Scan(n, piece)
  BY DEF Words
<1>4. piece = [i \in 1 .. n |-> piece[i]]
  OBVIOUS
<1> HIDE DEF piece, n
<1> QED
  BY <1>1, <1>2, <1>3, <1>4, ScannedType

LEMMA TokensType ==
  ASSUME NEW line \in Word
  PROVE  Tokens(line) \in Seq(Word)
<1> DEFINE n == Len(line)
           piece == [i \in 1 .. n |-> Token(line, i)]
<1>1. n \in Nat /\ \A i \in 1 .. n : line[i] \in Lexeme
  BY DEF Word
<1>2. ASSUME NEW i \in 1 .. n
      PROVE  \E out \in Seq(Word), next \in i + 1 .. n + 2 : piece[i] = Step(out, next)
  <2> DEFINE quote == Upto(line, i + 1, {line[i]})
             word  == Upto(line, i, Delimiter)
  <2>1. quote \in i + 1 .. n + 1 /\ word \in i .. n + 1
    <3>1. i \in 1 .. n + 1 /\ i + 1 \in 1 .. n + 1
      BY <1>1
    <3> QED
      BY <3>1, UptoWithin DEF Word
  <2>2. piece[i] = Token(line, i)
    OBVIOUS
  <2> HIDE DEF quote, word, piece
  <2>3. \/ piece[i] = Step(<< >>, n + 1)
        \/ piece[i] = Step(<< >>, i + 1)
        \/ i < n /\ piece[i] = Step(<<SubSeq(line, i, i + 1)>>, i + 2)
        \/ piece[i] = Step(<<<<line[i]>>>>, n + 1)
        \/ piece[i] = Step(<<SubSeq(line, i + 1, quote - 1)>>, quote + 1)
        \/ piece[i] = Step(<<SubSeq(line, i, word - 1)>>, word + 1)
    BY <2>2 DEF Token, quote, word
  <2>4. << >> \in Seq(Word) /\ <<<<line[i]>>>> \in Seq(Word)
    BY <1>1 DEF Word
  <2>5. /\ SubSeq(line, i + 1, quote - 1) \in Word /\ SubSeq(line, i, word - 1) \in Word
        /\ i < n => SubSeq(line, i, i + 1) \in Word
    BY <1>1, <2>1 DEF Word
  <2>6. /\ {i + 1, n + 1, quote + 1, word + 1} \subseteq i + 1 .. n + 2
        /\ i < n => i + 2 \in i + 1 .. n + 2
    BY <1>1, <2>1
  <2>7. \A w \in Word : <<w>> \in Seq(Word)
    OBVIOUS
  <2> HIDE DEF n
  <2> QED
    BY <2>3, <2>4, <2>5, <2>6, <2>7
<1>3. Tokens(line) = Cut(Scan(n, piece), MAX_TOKENS)
  BY DEF Tokens
<1>4. piece = [i \in 1 .. n |-> piece[i]]
  OBVIOUS
<1>5. MAX_TOKENS \in Nat
  BY ShellAssumption
<1> HIDE DEF piece, n
<1>6. Scan(n, piece) \in Seq(Word)
  BY <1>1, <1>2, <1>4, ScannedType
<1> QED
  BY <1>3, <1>5, <1>6, CutType

Segment == [argv : Seq(Word), op : Word]

LEMMA CommandsType ==
  ASSUME NEW toks \in Seq(Word)
  PROVE  Commands(toks) \in Seq(Segment)
<1> DEFINE n == Len(toks)
           piece == [i \in 1 .. n |-> Command(toks, i)]
<1>1. n \in Nat /\ \A i \in 1 .. n : toks[i] \in Word
  OBVIOUS
<1>2. ASSUME NEW i \in 1 .. n
      PROVE  \E out \in Seq(Segment), next \in i + 1 .. n + 2 : piece[i] = Step(out, next)
  <2> DEFINE end == Upto(toks, i, Operator)
             op == IF end <= Len(toks) THEN toks[end] ELSE << >>
             c == [argv |-> SubSeq(toks, i, end - 1), op |-> op]
  <2>1. end \in i .. n + 1
    BY <1>1, UptoWithin
  <2>2. piece[i] = Step(<<c>>, end + 1)
    BY DEF Command
  <2> HIDE DEF end, piece
  <2>3. op \in Word
    <3>1. << >> \in Word
      BY DEF Word
    <3> QED
      BY <1>1, <2>1, <3>1
  <2>4. SubSeq(toks, i, end - 1) \in Seq(Word)
    BY <1>1, <2>1
  <2> HIDE DEF op
  <2>5. c \in Segment
    BY <2>3, <2>4 DEF Segment
  <2> HIDE DEF c
  <2>6. <<c>> \in Seq(Segment) /\ end + 1 \in i + 1 .. n + 2
    BY <1>1, <2>1, <2>5
  <2> HIDE DEF n
  <2> QED
    BY <2>2, <2>6
<1>3. Commands(toks) = Scan(n, piece)
  BY DEF Commands
<1>4. piece = [i \in 1 .. n |-> piece[i]]
  OBVIOUS
<1> HIDE DEF piece, n
<1> QED
  BY <1>1, <1>2, <1>3, <1>4, ScannedType

Plain(name) == \A k \in 1 .. Len(name) : name[k] # "="

Named(entry) == \E k \in 1 .. Len(entry) : entry[k] = "="

(* The variable of a for block has no = in its name.                       *)
PlainNames ==
  \A line \in Input : Starts(line, "for") => Plain(SubSeq(line, 3, Upto(line, 3, {" "}) - 1))

OneEach(env) == \A i, j \in 1 .. Len(env) : NameOf(env[i]) = NameOf(env[j]) => i = j

EnvHolds(env) ==
  /\ env \in Seq(Word)
  /\ Len(env) <= ENV_MAX
  /\ \A i \in 1 .. Len(env) : Named(env[i])
  /\ PlainNames => OneEach(env)

LEMMA NameIsPrefix ==
  ASSUME NEW entry \in Word, NEW name \in Word, Plain(name)
  PROVE  IsPrefix(name \o <<"=">>, entry) <=> Named(entry) /\ NameOf(entry) = name
<1> DEFINE u == Upto(entry, 1, {"="})
           n == Len(name)
           p == name \o <<"=">>
<1>1. /\ Len(entry) \in Nat /\ n \in Nat
      /\ entry = [k \in 1 .. Len(entry) |-> entry[k]]
  BY DEF Word
<1>2. /\ u \in 1 .. Len(entry) + 1
      /\ u <= Len(entry) => entry[u] = "="
      /\ \A j \in 1 .. u - 1 : j <= Len(entry) => entry[j] # "="
  <2>1. 1 \in Nat \ {0}
    OBVIOUS
  <2>2. /\ u \in 1 .. Len(entry) + 1
        /\ u <= Len(entry) => entry[u] \in {"="}
        /\ \A j \in 1 .. u - 1 : j <= Len(entry) => entry[j] \notin {"="}
    BY <1>1, <2>1, UptoFacts
  <2> HIDE DEF u
  <2> QED
    BY <2>2
<1>3. NameOf(entry) = SubSeq(entry, 1, u - 1)
  BY DEF NameOf
<1> HIDE DEF u
<1>4. Len(p) = n + 1 /\ p[n + 1] = "=" /\ (\A k \in 1 .. n : p[k] = name[k])
  BY ShellAssumption DEF Word
<1>5. /\ Len(SubSeq(entry, 1, u - 1)) = u - 1
      /\ \A k \in 1 .. u - 1 : SubSeq(entry, 1, u - 1)[k] = entry[k]
  BY <1>1, <1>2 DEF Word
<1>6. IsPrefix(p, entry) <=> n + 1 <= Len(entry) /\ \A k \in 1 .. n + 1 : entry[k] = p[k]
  <2>1. p \in Word
    BY ShellAssumption DEF Word
  <2> HIDE DEF p, n
  <2>2. SubSeq(p, 1, Len(p)) = [k \in 1 .. n + 1 |-> p[k]]
    BY <1>1, <1>4, <2>1 DEF Word
  <2>3. CASE n + 1 <= Len(entry)
    <3>1. SubSeq(entry, 1, Len(p)) = [k \in 1 .. n + 1 |-> entry[k]]
      BY <1>1, <1>4, <2>3 DEF Word
    <3>2. SubSeq(p, 1, Len(p)) = SubSeq(entry, 1, Len(p)) <=> \A k \in 1 .. n + 1 : entry[k] = p[k]
      BY <2>2, <3>1
    <3> QED
      BY <1>4, <2>3, <3>2 DEF IsPrefix
  <2>4. CASE ~(n + 1 <= Len(entry))
    BY <1>4, <2>4 DEF IsPrefix
  <2> QED
    BY <2>3, <2>4
<1> HIDE DEF p
<1>7. ASSUME IsPrefix(p, entry)
      PROVE  Named(entry) /\ NameOf(entry) = name
  <2>1. n + 1 <= Len(entry) /\ entry[n + 1] = "=" /\ \A k \in 1 .. n : entry[k] = name[k]
    BY <1>1, <1>4, <1>6, <1>7
  <2>2. \A k \in 1 .. n : entry[k] # "="
    BY <2>1 DEF Plain
  <2>3. u = n + 1
    <3>1. ~(u < n + 1)
      BY <1>1, <1>2, <2>1, <2>2
    <3>2. ~(n + 1 < u)
      BY <1>1, <1>2, <2>1
    <3> QED
      BY <1>1, <1>2, <3>1, <3>2
  <2>4. SubSeq(entry, 1, u - 1) = name
    <3> DEFINE x == SubSeq(entry, 1, u - 1)
    <3>1. x \in Word
      BY <1>1, <1>2 DEF Word
    <3>2. Len(x) = n /\ \A k \in 1 .. n : x[k] = name[k]
      BY <1>1, <1>5, <2>1, <2>3
    <3> HIDE DEF x
    <3>3. x = [k \in 1 .. n |-> x[k]] /\ name = [k \in 1 .. n |-> name[k]]
      BY <3>1, <3>2 DEF Word
    <3>4. x = name
      BY <3>2, <3>3
    <3> QED
      BY <3>4 DEF x
  <2>5. n + 1 \in 1 .. Len(entry)
    BY <1>1, <2>1
  <2> QED
    BY <1>3, <2>1, <2>4, <2>5 DEF Named
<1>8. ASSUME Named(entry), NameOf(entry) = name
      PROVE  IsPrefix(p, entry)
  <2>1. PICK k \in 1 .. Len(entry) : entry[k] = "="
    BY <1>8 DEF Named
  <2>2. u <= k
    BY <1>1, <1>2, <2>1
  <2>3. n = u - 1 /\ \A j \in 1 .. n : entry[j] = name[j]
    BY <1>3, <1>5, <1>8
  <2>4. n + 1 <= Len(entry) /\ entry[n + 1] = "="
    BY <1>1, <1>2, <2>1, <2>2, <2>3
  <2>5. \A j \in 1 .. n + 1 : j = n + 1 \/ j \in 1 .. n
    BY <1>1
  <2>6. \A j \in 1 .. n + 1 : entry[j] = p[j]
    BY <1>4, <2>3, <2>4, <2>5
  <2> QED
    BY <1>6, <2>4, <2>6
<1> QED
  BY <1>7, <1>8 DEF p

LEMMA NewEntry ==
  ASSUME NEW name \in Word, NEW value \in Word
  PROVE  LET entry == name \o <<"=">> \o value
         IN  /\ entry \in Word /\ Named(entry)
             /\ Plain(name) => NameOf(entry) = name
<1> DEFINE entry == name \o <<"=">> \o value
           p == name \o <<"=">>
<1>1. entry \in Word /\ p \in Word
  BY ShellAssumption DEF Word
<1>2. Len(p) = Len(name) + 1 /\ Len(name) \in Nat /\ p[Len(name) + 1] = "="
  BY ShellAssumption DEF Word
<1>3. Len(entry) \in Nat /\ Len(p) <= Len(entry) /\ \A k \in 1 .. Len(p) : entry[k] = p[k]
  <2> HIDE DEF p
  <2>1. entry = p \o value
    BY DEF p
  <2> HIDE DEF entry
  <2> QED
    BY <1>1, <2>1 DEF Word
<1>4. Named(entry)
  <2>1. Len(name) + 1 \in 1 .. Len(entry) /\ entry[Len(name) + 1] = "="
    <3> HIDE DEF p, entry
    <3> QED
      BY <1>2, <1>3
  <2> HIDE DEF entry
  <2> QED
    BY <2>1 DEF Named
<1>5. ASSUME Plain(name) PROVE NameOf(entry) = name
  <2>1. SubSeq(p, 1, Len(p)) = SubSeq(entry, 1, Len(p))
    <3> HIDE DEF p, entry
    <3>1. Len(p) \in Nat
      BY <1>2
    <3> QED
      BY <1>1, <1>3, <3>1 DEF Word
  <2>2. IsPrefix(p, entry)
    <3> HIDE DEF p, entry
    <3> QED
      BY <1>3, <2>1 DEF IsPrefix
  <2> HIDE DEF entry
  <2> QED
    BY <1>1, <1>5, <2>2, NameIsPrefix
<1> QED
  BY <1>1, <1>4, <1>5

LEMMA EnvSetHolds ==
  ASSUME NEW env, EnvHolds(env), NEW name \in Word, NEW value \in Word, PlainNames => Plain(name)
  PROVE  EnvHolds(EnvSet(env, name, value))
<1> DEFINE entry == name \o <<"=">> \o value
           new == EnvSet(env, name, value)
           at == EntryOf(env, name)
<1>1. /\ env \in Seq(Word) /\ Len(env) <= ENV_MAX /\ Len(env) \in Nat
      /\ \A i \in 1 .. Len(env) : Named(env[i])
  BY DEF EnvHolds
<1>2. entry \in Word /\ Named(entry) /\ (Plain(name) => NameOf(entry) = name)
  BY NewEntry
<1> HIDE DEF entry
<1>3. CASE Entries(env, name) # {}
  <2>1. at \in 1 .. Len(env) /\ IsPrefix(name \o <<"=">>, env[at])
    BY <1>1, <1>3, EntryFacts
  <2>2. new = [env EXCEPT ![at] = entry]
    BY <1>3 DEF EnvSet, entry
  <2> HIDE DEF at, new
  <2>3. /\ new \in Seq(Word) /\ Len(new) = Len(env)
        /\ new[at] = entry /\ \A i \in 1 .. Len(env) : i # at => new[i] = env[i]
    BY <1>1, <1>2, <2>1, <2>2
  <2>4. \A i \in 1 .. Len(new) : Named(new[i])
    BY <1>1, <1>2, <2>3
  <2>5. ASSUME PlainNames PROVE OneEach(new)
    <3>1. env[at] \in Word /\ Plain(name)
      BY <1>1, <2>1, <2>5
    <3>2. NameOf(env[at]) = name
      BY <2>1, <3>1, NameIsPrefix
    <3>3. NameOf(new[at]) = NameOf(env[at])
      BY <1>2, <2>3, <3>1, <3>2
    <3>4. \A i \in 1 .. Len(env) : NameOf(new[i]) = NameOf(env[i])
      <4> SUFFICES ASSUME NEW i \in 1 .. Len(env) PROVE NameOf(new[i]) = NameOf(env[i])
        OBVIOUS
      <4>1. CASE i = at
        BY <3>3, <4>1
      <4>2. CASE i # at
        <5>1. new[i] = env[i]
          BY <2>3, <4>2
        <5> QED
          BY <5>1
      <4> QED
        BY <4>1, <4>2
    <3>5. OneEach(env)
      BY <2>5 DEF EnvHolds
    <3> QED
      BY <2>3, <3>4, <3>5 DEF OneEach
  <2> QED
    BY <1>1, <2>3, <2>4, <2>5 DEF EnvHolds, new
<1>4. CASE Entries(env, name) = {} /\ Len(env) < ENV_MAX
  <2>1. new = Append(env, entry)
    BY <1>4 DEF EnvSet, entry
  <2> DEFINE n == Len(env)
  <2> HIDE DEF new
  <2>2. /\ new \in Seq(Word) /\ Len(new) = n + 1
        /\ new[n + 1] = entry /\ \A i \in 1 .. n : new[i] = env[i]
    BY <1>1, <1>2, <2>1
  <2>3. Len(new) <= ENV_MAX
    <3>1. ENV_MAX \in Nat
      BY ShellAssumption
    <3> QED
      BY <1>1, <1>4, <2>2, <3>1
  <2>4. \A i \in 1 .. n + 1 : i = n + 1 \/ i \in 1 .. n
    BY <1>1
  <2>5. \A i \in 1 .. Len(new) : Named(new[i])
    BY <1>1, <1>2, <2>2, <2>4
  <2>6. ASSUME PlainNames PROVE OneEach(new)
    <3>1. \A i \in 1 .. n : NameOf(env[i]) # name
      <4> SUFFICES ASSUME NEW i \in 1 .. n, NameOf(env[i]) = name PROVE FALSE
        OBVIOUS
      <4>1. env[i] \in Word /\ Named(env[i]) /\ Plain(name)
        BY <1>1, <2>6
      <4>2. IsPrefix(name \o <<"=">>, env[i])
        BY <4>1, NameIsPrefix
      <4> QED
        BY <1>4, <4>2 DEF Entries
    <3>2. NameOf(new[n + 1]) = name
      BY <1>2, <2>2, <2>6
    <3>3. \A i \in 1 .. n : NameOf(new[i]) = NameOf(env[i]) /\ NameOf(new[i]) # NameOf(new[n + 1])
      <4> SUFFICES ASSUME NEW i \in 1 .. n PROVE NameOf(new[i]) = NameOf(env[i]) /\ NameOf(new[i]) # NameOf(new[n + 1])
        OBVIOUS
      <4>1. new[i] = env[i]
        BY <2>2
      <4> QED
        BY <3>1, <3>2, <4>1
    <3>4. OneEach(env)
      BY <2>6 DEF EnvHolds
    <3> HIDE DEF n
    <3>5. \A i, j \in 1 .. n + 1 : NameOf(new[i]) = NameOf(new[j]) => i = j
      <4> SUFFICES ASSUME NEW i \in 1 .. n + 1, NEW j \in 1 .. n + 1, NameOf(new[i]) = NameOf(new[j])
                   PROVE  i = j
        OBVIOUS
      <4>1. CASE i \in 1 .. n /\ j \in 1 .. n
        BY <3>3, <3>4, <4>1 DEF OneEach, n
      <4>2. CASE i = n + 1 /\ j \in 1 .. n
        BY <3>3, <4>2
      <4>3. CASE i \in 1 .. n /\ j = n + 1
        BY <3>3, <4>3
      <4>4. CASE i = n + 1 /\ j = n + 1
        BY <4>4
      <4> QED
        BY <2>4, <4>1, <4>2, <4>3, <4>4
    <3> QED
      BY <2>2, <3>5 DEF OneEach
  <2> QED
    BY <2>2, <2>3, <2>5, <2>6 DEF EnvHolds, new
<1>5. CASE Entries(env, name) = {} /\ ~(Len(env) < ENV_MAX)
  <2>1. new = env
    BY <1>5 DEF EnvSet
  <2> QED
    BY <2>1
<1> QED
  BY <1>3, <1>4, <1>5

LEMMA EnvUnsetHolds ==
  ASSUME NEW env, EnvHolds(env), NEW name
  PROVE  EnvHolds(EnvUnset(env, name))
<1> DEFINE new == EnvUnset(env, name)
           at == EntryOf(env, name)
           n == Len(env)
<1>1. /\ env \in Seq(Word) /\ Len(env) <= ENV_MAX /\ n \in Nat /\ ENV_MAX \in Nat
      /\ \A i \in 1 .. Len(env) : Named(env[i])
  BY ShellAssumption DEF EnvHolds
<1>2. CASE Entries(env, name) = {}
  <2>1. new = env
    BY <1>2 DEF EnvUnset
  <2> QED
    BY <2>1
<1>3. CASE Entries(env, name) # {}
  <2>1. at \in 1 .. n
    BY <1>1, <1>3, EntryFacts
  <2>2. new = SubSeq(env, 1, at - 1) \o SubSeq(env, at + 1, n)
    BY <1>3 DEF EnvUnset, RemoveAt
  <2> DEFINE a == SubSeq(env, 1, at - 1)
             b == SubSeq(env, at + 1, n)
  <2> HIDE DEF at, new
  <2>3. a \in Seq(Word) /\ Len(a) = at - 1 /\ \A i \in 1 .. at - 1 : a[i] = env[i]
    BY <1>1, <2>1
  <2>4. b \in Seq(Word) /\ Len(b) = n - at /\ \A i \in 1 .. n - at : b[i] = env[at + i]
    BY <1>1, <2>1
  <2>5. new = a \o b
    BY <2>2
  <2> HIDE DEF a, b, n
  <2>6. new \in Seq(Word) /\ Len(new) = n - 1
    <3>1. new \in Seq(Word) /\ Len(new) = Len(a) + Len(b)
      <4>1. a \in Seq(Word) /\ b \in Seq(Word)
        BY <2>3, <2>4
      <4>2. a \o b \in Seq(Word) /\ Len(a \o b) = Len(a) + Len(b)
        BY <4>1
      <4> QED
        BY <2>5, <4>2
    <3>2. (at - 1) + (n - at) = n - 1
      BY <1>1, <2>1
    <3> QED
      BY <2>3, <2>4, <3>1, <3>2
  <2>7. \A i \in 1 .. n - 1 : new[i] = env[IF i < at THEN i ELSE i + 1]
    <3> SUFFICES ASSUME NEW i \in 1 .. n - 1 PROVE new[i] = env[IF i < at THEN i ELSE i + 1]
      OBVIOUS
    <3>1. CASE i < at
      <4>1. i \in 1 .. at - 1
        BY <1>1, <2>1, <3>1
      <4>2. new[i] = a[i]
        BY <1>1, <2>1, <2>3, <2>4, <2>5, <4>1
      <4> QED
        BY <2>3, <3>1, <4>1, <4>2
    <3>2. CASE ~(i < at)
      <4>1. i - (at - 1) \in 1 .. n - at /\ at + (i - (at - 1)) = i + 1
        BY <1>1, <2>1, <3>2
      <4>2. new[i] = b[i - (at - 1)]
        BY <1>1, <2>1, <2>3, <2>4, <2>5, <3>2
      <4> QED
        BY <2>4, <3>2, <4>1, <4>2
    <3> QED
      BY <3>1, <3>2
  <2> DEFINE f(i) == IF i < at THEN i ELSE i + 1
  <2>8. \A i \in 1 .. n - 1 : f(i) \in 1 .. n /\ new[i] = env[f(i)]
    BY <1>1, <2>1, <2>7
  <2>9. \A i, j \in 1 .. n - 1 : f(i) = f(j) => i = j
    BY <1>1, <2>1
  <2> HIDE DEF f
  <2>10. \A i \in 1 .. Len(new) : Named(new[i])
    BY <1>1, <2>6, <2>8 DEF n
  <2>11. ASSUME PlainNames PROVE OneEach(new)
    <3>1. OneEach(env)
      BY <2>11 DEF EnvHolds
    <3> SUFFICES ASSUME NEW i \in 1 .. n - 1, NEW j \in 1 .. n - 1, NameOf(new[i]) = NameOf(new[j])
                 PROVE  i = j
      BY <2>6 DEF OneEach
    <3>2. NameOf(env[f(i)]) = NameOf(env[f(j)])
      <4>1. new[i] = env[f(i)] /\ new[j] = env[f(j)]
        BY <2>8
      <4> QED
        BY <4>1
    <3>3. f(i) = f(j)
      BY <2>8, <3>1, <3>2 DEF OneEach, n
    <3> QED
      BY <2>9, <3>3
  <2>12. Len(new) <= ENV_MAX
    BY <1>1, <2>6 DEF n
  <2> QED
    BY <2>6, <2>10, <2>11, <2>12 DEF EnvHolds, new
<1> QED
  BY <1>2, <1>3

Fields == {"env", "files", "target", "pipe", "active", "halted", "shown", "ran"}

Sound(s) == DOMAIN s = Fields /\ EnvHolds(s.env)

(* What a command leaves of the streams it is given.                       *)
After(s, t) ==
  /\ Sound(t)
  /\ t.target = s.target
  /\ t.active = s.active
  /\ s.target = "FB" => t.pipe \in {s.pipe, << >>}

LEMMA SameAfter ==
  ASSUME NEW s, Sound(s)
  PROVE  After(s, s)
  BY DEF After

LEMMA OutAfter ==
  ASSUME NEW s, Sound(s), NEW units
  PROVE  After(s, Out(s, units))
<1>1. CASE s.target = "FB"
  <2> DEFINE t == [s EXCEPT !.shown = @ \o units]
  <2>1. Out(s, units) = t
    BY <1>1 DEF Out
  <2>2. DOMAIN t = DOMAIN s /\ t.env = s.env /\ t.target = s.target /\ t.active = s.active /\ t.pipe = s.pipe
    BY DEF Sound, Fields
  <2> HIDE DEF t
  <2> QED
    BY <2>1, <2>2 DEF After, Sound
<1>2. CASE s.target # "FB"
  <2> DEFINE t == [s EXCEPT !.pipe = Cut(@ \o units, PIPE_MAX)]
  <2>1. Out(s, units) = t
    BY <1>2 DEF Out
  <2>2. DOMAIN t = DOMAIN s /\ t.env = s.env /\ t.target = s.target /\ t.active = s.active
    BY DEF Sound, Fields
  <2> HIDE DEF t
  <2> QED
    BY <1>2, <2>1, <2>2 DEF After, Sound
<1> QED
  BY <1>1, <1>2

LEMMA FilesAfter ==
  ASSUME NEW s, Sound(s), NEW files
  PROVE  After(s, [s EXCEPT !.files = files])
<1> DEFINE t == [s EXCEPT !.files = files]
<1>1. DOMAIN t = DOMAIN s /\ t.env = s.env /\ t.target = s.target /\ t.active = s.active /\ t.pipe = s.pipe
  BY DEF Sound, Fields
<1> HIDE DEF t
<1>2. After(s, t)
  BY <1>1 DEF After, Sound
<1> QED
  BY <1>2 DEF t

LEMMA EnvAfter ==
  ASSUME NEW s, Sound(s), NEW env, EnvHolds(env)
  PROVE  After(s, [s EXCEPT !.env = env])
<1> DEFINE t == [s EXCEPT !.env = env]
<1>1. DOMAIN t = DOMAIN s /\ t.env = env /\ t.target = s.target /\ t.active = s.active /\ t.pipe = s.pipe
  BY DEF Sound, Fields
<1> HIDE DEF t
<1>2. After(s, t)
  BY <1>1 DEF After, Sound
<1> QED
  BY <1>2 DEF t

LEMMA FailsAfter ==
  ASSUME NEW s, Sound(s), NEW args
  PROVE  After(s, Fails(s, args).s)
  BY OutAfter DEF Fails, Result

LEMMA FileCommandAfter ==
  ASSUME NEW s, Sound(s), NEW args
  PROVE  After(s, FileCommand(s, args).s)
<1> DEFINE name == args[2]
           made == [s EXCEPT !.files = Entered(@, name, [is_dir |-> TRUE, text |-> << >>])]
           touched == [s EXCEPT !.files = Touch(s, name)]
           removed == [s EXCEPT !.files = [f \in DOMAIN @ \ {name} |-> @[f]]]
           outs == {Out(s, s.pipe), Out(s, <<args[1]>>), Out(s, <<name>>), Out(s, s.files[name].text)}
<1>1. \/ FileCommand(s, args) \in {Result(s, 0), Result(made, 0), Result(touched, 0), Result(removed, 0)}
      \/ FileCommand(s, args) \in {Result(Out(s, s.pipe), 0), Result(Out(s, <<args[1]>>), 0),
                                   Result(Out(s, <<name>>), 0), Result(Out(s, s.files[name].text), 0)}
      \/ FileCommand(s, args) = Fails(s, args)
  BY DEF FileCommand
<1>2. After(s, made) /\ After(s, touched) /\ After(s, removed)
  BY FilesAfter
<1>3. \A t \in outs : After(s, t)
  BY OutAfter
<1>4. After(s, s) /\ After(s, Fails(s, args).s)
  BY SameAfter, FailsAfter
<1>5. \A t : Result(t, 0).s = t
  BY DEF Result
<1> HIDE DEF made, touched, removed
<1> QED
  BY <1>1, <1>2, <1>3, <1>4, <1>5

LEMMA AssignHolds ==
  ASSUME NEW env, EnvHolds(env), NEW text \in Word, Upto(text, 1, {"="}) <= Len(text)
  PROVE  LET eq == Upto(text, 1, {"="})
         IN  EnvHolds(EnvSet(env, SubSeq(text, 1, eq - 1), SubSeq(text, eq + 1, Len(text))))
<1> DEFINE eq == Upto(text, 1, {"="})
           name == SubSeq(text, 1, eq - 1)
           value == SubSeq(text, eq + 1, Len(text))
<1>1. Len(text) \in Nat /\ 1 \in Nat \ {0}
  BY DEF Word
<1>2. eq \in 1 .. Len(text) + 1 /\ \A j \in 1 .. eq - 1 : j <= Len(text) => text[j] \notin {"="}
  BY <1>1, UptoFacts
<1> HIDE DEF eq
<1>3. eq \in 1 .. Len(text)
  BY <1>1, <1>2 DEF eq
<1>4. name \in Word /\ value \in Word
  BY <1>1, <1>3 DEF Word
<1>5. Len(name) = eq - 1 /\ \A j \in 1 .. eq - 1 : name[j] = text[j]
  BY <1>1, <1>3 DEF Word
<1>6. Plain(name)
  <2> HIDE DEF name
  <2> QED
    BY <1>1, <1>2, <1>3, <1>5 DEF Plain
<1> HIDE DEF name, value
<1>7. EnvHolds(EnvSet(env, name, value))
  BY <1>4, <1>6, EnvSetHolds
<1> QED
  BY <1>7 DEF name, value, eq

LEMMA EnvCommandAfter ==
  ASSUME NEW s, Sound(s), NEW args \in Seq(Word) \ {<< >>}
  PROVE  After(s, EnvCommand(s, args).s)
<1> DEFINE text == args[2]
           eq == Upto(text, 1, {"="})
           set == EnvSet(s.env, SubSeq(text, 1, eq - 1), SubSeq(text, eq + 1, Len(text)))
           host == EnvSet(s.env, <<"HOSTNAME">>, text)
           unset == EnvUnset(s.env, text)
<1>1. \/ \E units : EnvCommand(s, args).s = Out(s, units)
      \/ Len(args) > 1 /\ ~(eq > Len(text)) /\ EnvCommand(s, args).s = [s EXCEPT !.env = set]
      \/ EnvCommand(s, args).s = [s EXCEPT !.env = unset]
      \/ Len(args) > 1 /\ EnvCommand(s, args).s = [s EXCEPT !.env = host]
  BY DEF EnvCommand, Fails, Result
<1>2. EnvHolds(s.env)
  BY DEF Sound
<1>3. ASSUME Len(args) > 1, ~(eq > Len(text)) PROVE EnvHolds(set)
  <2>1. text \in Word
    BY <1>3
  <2>2. Len(text) \in Nat /\ eq \in 1 .. Len(text) + 1
    <3>1. Len(text) \in Nat /\ 1 \in Nat \ {0}
      BY <2>1 DEF Word
    <3> QED
      BY <3>1, UptoFacts
  <2>3. eq <= Len(text)
    <3> HIDE DEF eq, text
    <3> QED
      BY <1>3, <2>2
  <2> QED
    BY <1>2, <2>1, <2>3, AssignHolds
<1>4. EnvHolds(unset)
  BY <1>2, EnvUnsetHolds
<1>5. ASSUME Len(args) > 1 PROVE EnvHolds(host)
  <2>1. text \in Word
    BY <1>5
  <2>2. <<"HOSTNAME">> \in Word /\ Plain(<<"HOSTNAME">>)
    BY ShellAssumption DEF Word, Plain
  <2> QED
    BY <1>2, <2>1, <2>2, EnvSetHolds
<1> HIDE DEF set, host, unset
<1> QED
  BY <1>1, <1>3, <1>4, <1>5, OutAfter, EnvAfter

LEMMA BuiltinAfter ==
  ASSUME NEW s, Sound(s), NEW args \in Seq(Word) \ {<< >>}
  PROVE  After(s, Builtin(s, args).s)
<1>1. After(s, FileCommand(s, args).s) /\ After(s, EnvCommand(s, args).s)
  BY FileCommandAfter, EnvCommandAfter
<1>2. After(s, SystemCommand(s, args).s)
  <2>1. \E units : SystemCommand(s, args).s = Out(s, units)
    BY DEF SystemCommand, Fails, Result
  <2> QED
    BY <2>1, OutAfter
<1>3. After(s, Echo(s, args).s) /\ After(s, Printed(s, args).s)
  BY OutAfter DEF Echo, Printed, Result
<1>4. After(s, Power(s).s)
  <2> DEFINE t == [s EXCEPT !.halted = TRUE]
  <2>1. DOMAIN t = DOMAIN s /\ t.env = s.env /\ t.target = s.target /\ t.active = s.active /\ t.pipe = s.pipe
    BY DEF Sound, Fields
  <2>2. Power(s).s = t
    BY DEF Power, Result
  <2> HIDE DEF t
  <2> QED
    BY <2>1, <2>2 DEF After, Sound
<1>5. After(s, Result(Out(s, <<<<"bash:">> \o args[1]>>), 127).s)
  BY OutAfter DEF Result
<1>6. After(s, Drawn(s).s)
  BY SameAfter DEF Drawn, Result
<1>7. Builtin(s, args) \in {FileCommand(s, args), EnvCommand(s, args), SystemCommand(s, args),
                            Echo(s, args), Printed(s, args), Drawn(s), Power(s),
                            Result(Out(s, <<<<"bash:">> \o args[1]>>), 127)}
  BY DEF Builtin
<1> QED
  BY <1>1, <1>2, <1>3, <1>4, <1>5, <1>6, <1>7

(* The bytes of a block, one line after the other.                          *)
LEMMA UsedSteps ==
  ASSUME NEW kept, Len(kept) \in Nat
  PROVE  \E f : /\ f[0] = 0
                /\ \A i \in 1 .. Len(kept) : f[i] = f[i - 1] + Len(kept[i]) + 1
                /\ Used(kept) = f[Len(kept)]
<1> DEFINE N == Len(kept)
           b == 0
           st(a, i) == a + Len(kept[i]) + 1
           Is(g, m) == g[0] = b /\ \A i \in 1 .. m : g[i] = st(g[i - 1], i)
           S == {m \in 0 .. N : \E g : Is(g, m)}
           F(g) == g = [i \in 0 .. N |-> IF i = 0 THEN b ELSE st(g[i - 1], i)]
           f == CHOOSE g : F(g)
<1>1. Used(kept) = f[N]
  BY DEF Used
<1>2. N \in Nat
  OBVIOUS
<1>3. 0 \in S
  <2> DEFINE g == [i \in 0 .. 0 |-> b]
  <2>1. Is(g, 0)
    OBVIOUS
  <2> HIDE DEF Is, g, N
  <2> QED
    BY <1>2, <2>1
<1>4. ASSUME NEW m \in 0 .. N, m \in S, m < N
      PROVE  m + 1 \in S
  <2>1. PICK g : Is(g, m)
    BY <1>4
  <2> DEFINE h == [i \in 0 .. m + 1 |-> IF i <= m THEN g[i] ELSE st(g[m], m + 1)]
  <2> HIDE DEF st
  <2>2. (\A i \in 0 .. m : h[i] = g[i]) /\ h[m + 1] = st(g[m], m + 1)
    BY <1>2
  <2> HIDE DEF h
  <2>3. \A i \in 1 .. m + 1 : h[i] = st(h[i - 1], i)
    <3> SUFFICES ASSUME NEW i \in 1 .. m + 1 PROVE h[i] = st(h[i - 1], i)
      OBVIOUS
    <3>1. CASE i \in 1 .. m
      <4>1. i \in 0 .. m /\ i - 1 \in 0 .. m
        BY <1>2, <3>1
      <4>2. h[i] = g[i] /\ h[i - 1] = g[i - 1] /\ g[i] = st(g[i - 1], i)
        BY <2>1, <2>2, <3>1, <4>1
      <4> QED
        BY <4>2
    <3>2. CASE i = m + 1
      <4>1. i - 1 = m /\ m \in 0 .. m
        BY <1>2, <3>2
      <4>2. h[i - 1] = g[m]
        BY <2>2, <4>1
      <4> QED
        BY <2>2, <3>2, <4>2
    <3> QED
      BY <1>2, <3>1, <3>2
  <2>4. h[0] = b
    BY <1>2, <2>1, <2>2
  <2>5. Is(h, m + 1) /\ m + 1 \in 0 .. N
    BY <1>2, <1>4, <2>3, <2>4
  <2> HIDE DEF Is, N
  <2> QED
    BY <2>5
<1>5. N \in S
  <2>1. 0 .. N \subseteq S
    <3> HIDE DEF S, N
    <3> QED
      BY <1>2, <1>3, <1>4, UpTo
  <2> HIDE DEF S, N
  <2> QED
    BY <1>2, <2>1
<1>6. PICK g : Is(g, N)
  BY <1>5
<1> HIDE DEF st, b
<1>7. F([i \in 0 .. N |-> g[i]])
  <2> DEFINE h == [i \in 0 .. N |-> g[i]]
  <2> HIDE DEF N
  <2>1. \A i \in 0 .. N : h[i] = g[i]
    OBVIOUS
  <2>2. \A i \in 1 .. N : i - 1 \in 0 .. N /\ i \in 0 .. N
    BY <1>2
  <2>3. h = [i \in 0 .. N |-> h[i]]
    OBVIOUS
  <2> HIDE DEF h
  <2>4. \A i \in 0 .. N : h[i] = IF i = 0 THEN b ELSE st(h[i - 1], i)
    <3> SUFFICES ASSUME NEW i \in 0 .. N PROVE h[i] = IF i = 0 THEN b ELSE st(h[i - 1], i)
      OBVIOUS
    <3>1. CASE i = 0
      BY <1>6, <2>1, <3>1
    <3>2. CASE i \in 1 .. N
      <4>1. h[i] = g[i] /\ h[i - 1] = g[i - 1]
        BY <2>1, <2>2, <3>2
      <4>2. g[i] = st(g[i - 1], i) /\ i # 0
        BY <1>6, <3>2
      <4> QED
        BY <4>1, <4>2
    <3> QED
      BY <1>2, <3>1, <3>2
  <2>5. F(h)
    BY <2>3, <2>4
  <2> QED
    BY <2>5 DEF h
<1>8. F(f)
  <2> HIDE DEF F
  <2> QED
    BY <1>7
<1> HIDE DEF f
<1>9. f[0] = b /\ \A i \in 1 .. N : f[i] = st(f[i - 1], i)
  <2> HIDE DEF N
  <2> QED
    BY <1>2, <1>8
<1> QED
  BY <1>1, <1>9 DEF st, b


(* The arguments of a command, one token after the other.                  *)
LEMMA RedirectedSteps ==
  ASSUME NEW argv, Len(argv) \in Nat
  PROVE  \E f : /\ f[0] = [args |-> << >>, out |-> {}, append |-> FALSE, pend |-> << >>]
                /\ \A i \in 1 .. Len(argv) : f[i] = NextArgument(f[i - 1], argv[i])
                /\ Redirected(argv) = f[Len(argv)]
<1> DEFINE N == Len(argv)
           b == [args |-> << >>, out |-> {}, append |-> FALSE, pend |-> << >>]
           st(a, i) == NextArgument(a, argv[i])
           Is(g, m) == g[0] = b /\ \A i \in 1 .. m : g[i] = st(g[i - 1], i)
           S == {m \in 0 .. N : \E g : Is(g, m)}
           F(g) == g = [i \in 0 .. N |-> IF i = 0 THEN b ELSE st(g[i - 1], i)]
           f == CHOOSE g : F(g)
<1>1. Redirected(argv) = f[N]
  BY DEF Redirected
<1>2. N \in Nat
  OBVIOUS
<1>3. 0 \in S
  <2> DEFINE g == [i \in 0 .. 0 |-> b]
  <2>1. Is(g, 0)
    OBVIOUS
  <2> HIDE DEF Is, g, N
  <2> QED
    BY <1>2, <2>1
<1>4. ASSUME NEW m \in 0 .. N, m \in S, m < N
      PROVE  m + 1 \in S
  <2>1. PICK g : Is(g, m)
    BY <1>4
  <2> DEFINE h == [i \in 0 .. m + 1 |-> IF i <= m THEN g[i] ELSE st(g[m], m + 1)]
  <2> HIDE DEF st
  <2>2. (\A i \in 0 .. m : h[i] = g[i]) /\ h[m + 1] = st(g[m], m + 1)
    BY <1>2
  <2> HIDE DEF h
  <2>3. \A i \in 1 .. m + 1 : h[i] = st(h[i - 1], i)
    <3> SUFFICES ASSUME NEW i \in 1 .. m + 1 PROVE h[i] = st(h[i - 1], i)
      OBVIOUS
    <3>1. CASE i \in 1 .. m
      <4>1. i \in 0 .. m /\ i - 1 \in 0 .. m
        BY <1>2, <3>1
      <4>2. h[i] = g[i] /\ h[i - 1] = g[i - 1] /\ g[i] = st(g[i - 1], i)
        BY <2>1, <2>2, <3>1, <4>1
      <4> QED
        BY <4>2
    <3>2. CASE i = m + 1
      <4>1. i - 1 = m /\ m \in 0 .. m
        BY <1>2, <3>2
      <4>2. h[i - 1] = g[m]
        BY <2>2, <4>1
      <4> QED
        BY <2>2, <3>2, <4>2
    <3> QED
      BY <1>2, <3>1, <3>2
  <2>4. h[0] = b
    BY <1>2, <2>1, <2>2
  <2>5. Is(h, m + 1) /\ m + 1 \in 0 .. N
    BY <1>2, <1>4, <2>3, <2>4
  <2> HIDE DEF Is, N
  <2> QED
    BY <2>5
<1>5. N \in S
  <2>1. 0 .. N \subseteq S
    <3> HIDE DEF S, N
    <3> QED
      BY <1>2, <1>3, <1>4, UpTo
  <2> HIDE DEF S, N
  <2> QED
    BY <1>2, <2>1
<1>6. PICK g : Is(g, N)
  BY <1>5
<1> HIDE DEF st, b
<1>7. F([i \in 0 .. N |-> g[i]])
  <2> DEFINE h == [i \in 0 .. N |-> g[i]]
  <2> HIDE DEF N
  <2>1. \A i \in 0 .. N : h[i] = g[i]
    OBVIOUS
  <2>2. \A i \in 1 .. N : i - 1 \in 0 .. N /\ i \in 0 .. N
    BY <1>2
  <2>3. h = [i \in 0 .. N |-> h[i]]
    OBVIOUS
  <2> HIDE DEF h
  <2>4. \A i \in 0 .. N : h[i] = IF i = 0 THEN b ELSE st(h[i - 1], i)
    <3> SUFFICES ASSUME NEW i \in 0 .. N PROVE h[i] = IF i = 0 THEN b ELSE st(h[i - 1], i)
      OBVIOUS
    <3>1. CASE i = 0
      BY <1>6, <2>1, <3>1
    <3>2. CASE i \in 1 .. N
      <4>1. h[i] = g[i] /\ h[i - 1] = g[i - 1]
        BY <2>1, <2>2, <3>2
      <4>2. g[i] = st(g[i - 1], i) /\ i # 0
        BY <1>6, <3>2
      <4> QED
        BY <4>1, <4>2
    <3> QED
      BY <1>2, <3>1, <3>2
  <2>5. F(h)
    BY <2>3, <2>4
  <2> QED
    BY <2>5 DEF h
<1>8. F(f)
  <2> HIDE DEF F
  <2> QED
    BY <1>7
<1> HIDE DEF f
<1>9. f[0] = b /\ \A i \in 1 .. N : f[i] = st(f[i - 1], i)
  <2> HIDE DEF N
  <2> QED
    BY <1>2, <1>8
<1> QED
  BY <1>1, <1>9 DEF st, b


(* The commands of a line, one turn after the other.                       *)
LEMMA TurnSteps ==
  ASSUME NEW s, NEW commands, Len(commands) \in Nat
  PROVE  \E f : /\ f[0] = [s |-> s, r |-> 0, prev |-> << >>, left |-> FALSE]
                /\ \A i \in 1 .. Len(commands) : f[i] = Turn(f[i - 1], commands[i])
                /\ AllTurns(s, commands) = f[Len(commands)]
<1> DEFINE N == Len(commands)
           b == [s |-> s, r |-> 0, prev |-> << >>, left |-> FALSE]
           st(a, i) == Turn(a, commands[i])
           Is(g, m) == g[0] = b /\ \A i \in 1 .. m : g[i] = st(g[i - 1], i)
           S == {m \in 0 .. N : \E g : Is(g, m)}
           F(g) == g = [i \in 0 .. N |-> IF i = 0 THEN b ELSE st(g[i - 1], i)]
           f == CHOOSE g : F(g)
<1>1. AllTurns(s, commands) = f[N]
  BY DEF AllTurns
<1>2. N \in Nat
  OBVIOUS
<1>3. 0 \in S
  <2> DEFINE g == [i \in 0 .. 0 |-> b]
  <2>1. Is(g, 0)
    OBVIOUS
  <2> HIDE DEF Is, g, N
  <2> QED
    BY <1>2, <2>1
<1>4. ASSUME NEW m \in 0 .. N, m \in S, m < N
      PROVE  m + 1 \in S
  <2>1. PICK g : Is(g, m)
    BY <1>4
  <2> DEFINE h == [i \in 0 .. m + 1 |-> IF i <= m THEN g[i] ELSE st(g[m], m + 1)]
  <2> HIDE DEF st
  <2>2. (\A i \in 0 .. m : h[i] = g[i]) /\ h[m + 1] = st(g[m], m + 1)
    BY <1>2
  <2> HIDE DEF h
  <2>3. \A i \in 1 .. m + 1 : h[i] = st(h[i - 1], i)
    <3> SUFFICES ASSUME NEW i \in 1 .. m + 1 PROVE h[i] = st(h[i - 1], i)
      OBVIOUS
    <3>1. CASE i \in 1 .. m
      <4>1. i \in 0 .. m /\ i - 1 \in 0 .. m
        BY <1>2, <3>1
      <4>2. h[i] = g[i] /\ h[i - 1] = g[i - 1] /\ g[i] = st(g[i - 1], i)
        BY <2>1, <2>2, <3>1, <4>1
      <4> QED
        BY <4>2
    <3>2. CASE i = m + 1
      <4>1. i - 1 = m /\ m \in 0 .. m
        BY <1>2, <3>2
      <4>2. h[i - 1] = g[m]
        BY <2>2, <4>1
      <4> QED
        BY <2>2, <3>2, <4>2
    <3> QED
      BY <1>2, <3>1, <3>2
  <2>4. h[0] = b
    BY <1>2, <2>1, <2>2
  <2>5. Is(h, m + 1) /\ m + 1 \in 0 .. N
    BY <1>2, <1>4, <2>3, <2>4
  <2> HIDE DEF Is, N
  <2> QED
    BY <2>5
<1>5. N \in S
  <2>1. 0 .. N \subseteq S
    <3> HIDE DEF S, N
    <3> QED
      BY <1>2, <1>3, <1>4, UpTo
  <2> HIDE DEF S, N
  <2> QED
    BY <1>2, <2>1
<1>6. PICK g : Is(g, N)
  BY <1>5
<1> HIDE DEF st, b
<1>7. F([i \in 0 .. N |-> g[i]])
  <2> DEFINE h == [i \in 0 .. N |-> g[i]]
  <2> HIDE DEF N
  <2>1. \A i \in 0 .. N : h[i] = g[i]
    OBVIOUS
  <2>2. \A i \in 1 .. N : i - 1 \in 0 .. N /\ i \in 0 .. N
    BY <1>2
  <2>3. h = [i \in 0 .. N |-> h[i]]
    OBVIOUS
  <2> HIDE DEF h
  <2>4. \A i \in 0 .. N : h[i] = IF i = 0 THEN b ELSE st(h[i - 1], i)
    <3> SUFFICES ASSUME NEW i \in 0 .. N PROVE h[i] = IF i = 0 THEN b ELSE st(h[i - 1], i)
      OBVIOUS
    <3>1. CASE i = 0
      BY <1>6, <2>1, <3>1
    <3>2. CASE i \in 1 .. N
      <4>1. h[i] = g[i] /\ h[i - 1] = g[i - 1]
        BY <2>1, <2>2, <3>2
      <4>2. g[i] = st(g[i - 1], i) /\ i # 0
        BY <1>6, <3>2
      <4> QED
        BY <4>1, <4>2
    <3> QED
      BY <1>2, <3>1, <3>2
  <2>5. F(h)
    BY <2>3, <2>4
  <2> QED
    BY <2>5 DEF h
<1>8. F(f)
  <2> HIDE DEF F
  <2> QED
    BY <1>7
<1> HIDE DEF f
<1>9. f[0] = b /\ \A i \in 1 .. N : f[i] = st(f[i - 1], i)
  <2> HIDE DEF N
  <2> QED
    BY <1>2, <1>8
<1> QED
  BY <1>1, <1>9 DEF st, b


(* The lines of a body, one after the other.                              *)
LEMMA LineSteps ==
  ASSUME NEW s, NEW lines, Len(lines) \in Nat
  PROVE  \E f : /\ f[0] = s
                /\ \A i \in 1 .. Len(lines) : f[i] = ScriptLine(f[i - 1], lines[i])
                /\ AllLines(s, lines) = f[Len(lines)]
<1> DEFINE N == Len(lines)
           b == s
           st(a, i) == ScriptLine(a, lines[i])
           Is(g, m) == g[0] = b /\ \A i \in 1 .. m : g[i] = st(g[i - 1], i)
           S == {m \in 0 .. N : \E g : Is(g, m)}
           F(g) == g = [i \in 0 .. N |-> IF i = 0 THEN b ELSE st(g[i - 1], i)]
           f == CHOOSE g : F(g)
<1>1. AllLines(s, lines) = f[N]
  BY DEF AllLines
<1>2. N \in Nat
  OBVIOUS
<1>3. 0 \in S
  <2> DEFINE g == [i \in 0 .. 0 |-> b]
  <2>1. Is(g, 0)
    OBVIOUS
  <2> HIDE DEF Is, g, N
  <2> QED
    BY <1>2, <2>1
<1>4. ASSUME NEW m \in 0 .. N, m \in S, m < N
      PROVE  m + 1 \in S
  <2>1. PICK g : Is(g, m)
    BY <1>4
  <2> DEFINE h == [i \in 0 .. m + 1 |-> IF i <= m THEN g[i] ELSE st(g[m], m + 1)]
  <2> HIDE DEF st
  <2>2. (\A i \in 0 .. m : h[i] = g[i]) /\ h[m + 1] = st(g[m], m + 1)
    BY <1>2
  <2> HIDE DEF h
  <2>3. \A i \in 1 .. m + 1 : h[i] = st(h[i - 1], i)
    <3> SUFFICES ASSUME NEW i \in 1 .. m + 1 PROVE h[i] = st(h[i - 1], i)
      OBVIOUS
    <3>1. CASE i \in 1 .. m
      <4>1. i \in 0 .. m /\ i - 1 \in 0 .. m
        BY <1>2, <3>1
      <4>2. h[i] = g[i] /\ h[i - 1] = g[i - 1] /\ g[i] = st(g[i - 1], i)
        BY <2>1, <2>2, <3>1, <4>1
      <4> QED
        BY <4>2
    <3>2. CASE i = m + 1
      <4>1. i - 1 = m /\ m \in 0 .. m
        BY <1>2, <3>2
      <4>2. h[i - 1] = g[m]
        BY <2>2, <4>1
      <4> QED
        BY <2>2, <3>2, <4>2
    <3> QED
      BY <1>2, <3>1, <3>2
  <2>4. h[0] = b
    BY <1>2, <2>1, <2>2
  <2>5. Is(h, m + 1) /\ m + 1 \in 0 .. N
    BY <1>2, <1>4, <2>3, <2>4
  <2> HIDE DEF Is, N
  <2> QED
    BY <2>5
<1>5. N \in S
  <2>1. 0 .. N \subseteq S
    <3> HIDE DEF S, N
    <3> QED
      BY <1>2, <1>3, <1>4, UpTo
  <2> HIDE DEF S, N
  <2> QED
    BY <1>2, <2>1
<1>6. PICK g : Is(g, N)
  BY <1>5
<1> HIDE DEF st, b
<1>7. F([i \in 0 .. N |-> g[i]])
  <2> DEFINE h == [i \in 0 .. N |-> g[i]]
  <2> HIDE DEF N
  <2>1. \A i \in 0 .. N : h[i] = g[i]
    OBVIOUS
  <2>2. \A i \in 1 .. N : i - 1 \in 0 .. N /\ i \in 0 .. N
    BY <1>2
  <2>3. h = [i \in 0 .. N |-> h[i]]
    OBVIOUS
  <2> HIDE DEF h
  <2>4. \A i \in 0 .. N : h[i] = IF i = 0 THEN b ELSE st(h[i - 1], i)
    <3> SUFFICES ASSUME NEW i \in 0 .. N PROVE h[i] = IF i = 0 THEN b ELSE st(h[i - 1], i)
      OBVIOUS
    <3>1. CASE i = 0
      BY <1>6, <2>1, <3>1
    <3>2. CASE i \in 1 .. N
      <4>1. h[i] = g[i] /\ h[i - 1] = g[i - 1]
        BY <2>1, <2>2, <3>2
      <4>2. g[i] = st(g[i - 1], i) /\ i # 0
        BY <1>6, <3>2
      <4> QED
        BY <4>1, <4>2
    <3> QED
      BY <1>2, <3>1, <3>2
  <2>5. F(h)
    BY <2>3, <2>4
  <2> QED
    BY <2>5 DEF h
<1>8. F(f)
  <2> HIDE DEF F
  <2> QED
    BY <1>7
<1> HIDE DEF f
<1>9. f[0] = b /\ \A i \in 1 .. N : f[i] = st(f[i - 1], i)
  <2> HIDE DEF N
  <2> QED
    BY <1>2, <1>8
<1> QED
  BY <1>1, <1>9 DEF st, b


(* The lines of an if block, one after the other.                          *)
LEMMA IfSteps ==
  ASSUME NEW s, NEW block, Len(block) \in Nat \ {0}
  PROVE  \E f : /\ f[0] = [s |-> TestCondition(s, Condition(block[1])).s, exec |-> FALSE, done |-> FALSE]
                /\ \A i \in 1 .. Len(block) - 1 : f[i] = IfLine(f[i - 1], block[i + 1], TestCondition(s, Condition(block[1])).r = 0)
                /\ IfBlock(s, block) = f[Len(block) - 1].s
<1> DEFINE N == Len(block) - 1
           b == [s |-> TestCondition(s, Condition(block[1])).s, exec |-> FALSE, done |-> FALSE]
           st(a, i) == IfLine(a, block[i + 1], TestCondition(s, Condition(block[1])).r = 0)
           Is(g, m) == g[0] = b /\ \A i \in 1 .. m : g[i] = st(g[i - 1], i)
           S == {m \in 0 .. N : \E g : Is(g, m)}
           F(g) == g = [i \in 0 .. N |-> IF i = 0 THEN b ELSE st(g[i - 1], i)]
           f == CHOOSE g : F(g)
<1>1. IfBlock(s, block) = f[N].s
  BY DEF IfBlock
<1>2. N \in Nat
  OBVIOUS
<1>3. 0 \in S
  <2> DEFINE g == [i \in 0 .. 0 |-> b]
  <2>1. Is(g, 0)
    OBVIOUS
  <2> HIDE DEF Is, g, N
  <2> QED
    BY <1>2, <2>1
<1>4. ASSUME NEW m \in 0 .. N, m \in S, m < N
      PROVE  m + 1 \in S
  <2>1. PICK g : Is(g, m)
    BY <1>4
  <2> DEFINE h == [i \in 0 .. m + 1 |-> IF i <= m THEN g[i] ELSE st(g[m], m + 1)]
  <2> HIDE DEF st
  <2>2. (\A i \in 0 .. m : h[i] = g[i]) /\ h[m + 1] = st(g[m], m + 1)
    BY <1>2
  <2> HIDE DEF h
  <2>3. \A i \in 1 .. m + 1 : h[i] = st(h[i - 1], i)
    <3> SUFFICES ASSUME NEW i \in 1 .. m + 1 PROVE h[i] = st(h[i - 1], i)
      OBVIOUS
    <3>1. CASE i \in 1 .. m
      <4>1. i \in 0 .. m /\ i - 1 \in 0 .. m
        BY <1>2, <3>1
      <4>2. h[i] = g[i] /\ h[i - 1] = g[i - 1] /\ g[i] = st(g[i - 1], i)
        BY <2>1, <2>2, <3>1, <4>1
      <4> QED
        BY <4>2
    <3>2. CASE i = m + 1
      <4>1. i - 1 = m /\ m \in 0 .. m
        BY <1>2, <3>2
      <4>2. h[i - 1] = g[m]
        BY <2>2, <4>1
      <4> QED
        BY <2>2, <3>2, <4>2
    <3> QED
      BY <1>2, <3>1, <3>2
  <2>4. h[0] = b
    BY <1>2, <2>1, <2>2
  <2>5. Is(h, m + 1) /\ m + 1 \in 0 .. N
    BY <1>2, <1>4, <2>3, <2>4
  <2> HIDE DEF Is, N
  <2> QED
    BY <2>5
<1>5. N \in S
  <2>1. 0 .. N \subseteq S
    <3> HIDE DEF S, N
    <3> QED
      BY <1>2, <1>3, <1>4, UpTo
  <2> HIDE DEF S, N
  <2> QED
    BY <1>2, <2>1
<1>6. PICK g : Is(g, N)
  BY <1>5
<1> HIDE DEF st, b
<1>7. F([i \in 0 .. N |-> g[i]])
  <2> DEFINE h == [i \in 0 .. N |-> g[i]]
  <2> HIDE DEF N
  <2>1. \A i \in 0 .. N : h[i] = g[i]
    OBVIOUS
  <2>2. \A i \in 1 .. N : i - 1 \in 0 .. N /\ i \in 0 .. N
    BY <1>2
  <2>3. h = [i \in 0 .. N |-> h[i]]
    OBVIOUS
  <2> HIDE DEF h
  <2>4. \A i \in 0 .. N : h[i] = IF i = 0 THEN b ELSE st(h[i - 1], i)
    <3> SUFFICES ASSUME NEW i \in 0 .. N PROVE h[i] = IF i = 0 THEN b ELSE st(h[i - 1], i)
      OBVIOUS
    <3>1. CASE i = 0
      BY <1>6, <2>1, <3>1
    <3>2. CASE i \in 1 .. N
      <4>1. h[i] = g[i] /\ h[i - 1] = g[i - 1]
        BY <2>1, <2>2, <3>2
      <4>2. g[i] = st(g[i - 1], i) /\ i # 0
        BY <1>6, <3>2
      <4> QED
        BY <4>1, <4>2
    <3> QED
      BY <1>2, <3>1, <3>2
  <2>5. F(h)
    BY <2>3, <2>4
  <2> QED
    BY <2>5 DEF h
<1>8. F(f)
  <2> HIDE DEF F
  <2> QED
    BY <1>7
<1> HIDE DEF f
<1>9. f[0] = b /\ \A i \in 1 .. N : f[i] = st(f[i - 1], i)
  <2> HIDE DEF N
  <2> QED
    BY <1>2, <1>8
<1> QED
  BY <1>1, <1>9 DEF st, b


(* The values of a for block, one pass after the other.                    *)
LEMMA ForSteps ==
  ASSUME NEW s, NEW block, Len(script_values) \in Nat
  PROVE  \E f : /\ f[0] = s
                /\ \A i \in 1 .. Len(script_values) : f[i] = ForPass(f[i - 1], script_var, script_values[i], LoopBody(block))
                /\ ForBlock(s, block) = f[Len(script_values)]
<1> DEFINE N == Len(script_values)
           b == s
           st(a, i) == ForPass(a, script_var, script_values[i], LoopBody(block))
           Is(g, m) == g[0] = b /\ \A i \in 1 .. m : g[i] = st(g[i - 1], i)
           S == {m \in 0 .. N : \E g : Is(g, m)}
           F(g) == g = [i \in 0 .. N |-> IF i = 0 THEN b ELSE st(g[i - 1], i)]
           f == CHOOSE g : F(g)
<1>1. ForBlock(s, block) = f[N]
  BY DEF ForBlock
<1>2. N \in Nat
  OBVIOUS
<1>3. 0 \in S
  <2> DEFINE g == [i \in 0 .. 0 |-> b]
  <2>1. Is(g, 0)
    OBVIOUS
  <2> HIDE DEF Is, g, N
  <2> QED
    BY <1>2, <2>1
<1>4. ASSUME NEW m \in 0 .. N, m \in S, m < N
      PROVE  m + 1 \in S
  <2>1. PICK g : Is(g, m)
    BY <1>4
  <2> DEFINE h == [i \in 0 .. m + 1 |-> IF i <= m THEN g[i] ELSE st(g[m], m + 1)]
  <2> HIDE DEF st
  <2>2. (\A i \in 0 .. m : h[i] = g[i]) /\ h[m + 1] = st(g[m], m + 1)
    BY <1>2
  <2> HIDE DEF h
  <2>3. \A i \in 1 .. m + 1 : h[i] = st(h[i - 1], i)
    <3> SUFFICES ASSUME NEW i \in 1 .. m + 1 PROVE h[i] = st(h[i - 1], i)
      OBVIOUS
    <3>1. CASE i \in 1 .. m
      <4>1. i \in 0 .. m /\ i - 1 \in 0 .. m
        BY <1>2, <3>1
      <4>2. h[i] = g[i] /\ h[i - 1] = g[i - 1] /\ g[i] = st(g[i - 1], i)
        BY <2>1, <2>2, <3>1, <4>1
      <4> QED
        BY <4>2
    <3>2. CASE i = m + 1
      <4>1. i - 1 = m /\ m \in 0 .. m
        BY <1>2, <3>2
      <4>2. h[i - 1] = g[m]
        BY <2>2, <4>1
      <4> QED
        BY <2>2, <3>2, <4>2
    <3> QED
      BY <1>2, <3>1, <3>2
  <2>4. h[0] = b
    BY <1>2, <2>1, <2>2
  <2>5. Is(h, m + 1) /\ m + 1 \in 0 .. N
    BY <1>2, <1>4, <2>3, <2>4
  <2> HIDE DEF Is, N
  <2> QED
    BY <2>5
<1>5. N \in S
  <2>1. 0 .. N \subseteq S
    <3> HIDE DEF S, N
    <3> QED
      BY <1>2, <1>3, <1>4, UpTo
  <2> HIDE DEF S, N
  <2> QED
    BY <1>2, <2>1
<1>6. PICK g : Is(g, N)
  BY <1>5
<1> HIDE DEF st, b
<1>7. F([i \in 0 .. N |-> g[i]])
  <2> DEFINE h == [i \in 0 .. N |-> g[i]]
  <2> HIDE DEF N
  <2>1. \A i \in 0 .. N : h[i] = g[i]
    OBVIOUS
  <2>2. \A i \in 1 .. N : i - 1 \in 0 .. N /\ i \in 0 .. N
    BY <1>2
  <2>3. h = [i \in 0 .. N |-> h[i]]
    OBVIOUS
  <2> HIDE DEF h
  <2>4. \A i \in 0 .. N : h[i] = IF i = 0 THEN b ELSE st(h[i - 1], i)
    <3> SUFFICES ASSUME NEW i \in 0 .. N PROVE h[i] = IF i = 0 THEN b ELSE st(h[i - 1], i)
      OBVIOUS
    <3>1. CASE i = 0
      BY <1>6, <2>1, <3>1
    <3>2. CASE i \in 1 .. N
      <4>1. h[i] = g[i] /\ h[i - 1] = g[i - 1]
        BY <2>1, <2>2, <3>2
      <4>2. g[i] = st(g[i - 1], i) /\ i # 0
        BY <1>6, <3>2
      <4> QED
        BY <4>1, <4>2
    <3> QED
      BY <1>2, <3>1, <3>2
  <2>5. F(h)
    BY <2>3, <2>4
  <2> QED
    BY <2>5 DEF h
<1>8. F(f)
  <2> HIDE DEF F
  <2> QED
    BY <1>7
<1> HIDE DEF f
<1>9. f[0] = b /\ \A i \in 1 .. N : f[i] = st(f[i - 1], i)
  <2> HIDE DEF N
  <2> QED
    BY <1>2, <1>8
<1> QED
  BY <1>1, <1>9 DEF st, b

Arguments == [args : Seq(Word), out : SUBSET Word, append : BOOLEAN, pend : Word]

LEMMA NextArgumentType ==
  ASSUME NEW acc \in Arguments, NEW tok \in Word
  PROVE  NextArgument(acc, tok) \in Arguments
<1>1. << >> \in Word /\ {tok} \in SUBSET Word /\ Append(acc.args, tok) \in Seq(Word)
  BY DEF Word, Arguments
<1>2. NextArgument(acc, tok) \in
        {[acc EXCEPT !.pend = << >>],
         [acc EXCEPT !.pend = << >>, !.out = {tok}, !.append = (acc.pend # <<">">>)],
         [acc EXCEPT !.pend = tok], [acc EXCEPT !.args = Append(@, tok)]}
  BY DEF NextArgument
<1>3. /\ [acc EXCEPT !.pend = << >>] \in Arguments
      /\ [acc EXCEPT !.pend = << >>, !.out = {tok}, !.append = (acc.pend # <<">">>)] \in Arguments
      /\ [acc EXCEPT !.pend = tok] \in Arguments
      /\ [acc EXCEPT !.args = Append(@, tok)] \in Arguments
  BY <1>1 DEF Arguments
<1> QED
  BY <1>2, <1>3

LEMMA RedirectedType ==
  ASSUME NEW argv \in Seq(Word)
  PROVE  Redirected(argv).args \in Seq(Word)
<1> DEFINE N == Len(argv)
           b == [args |-> << >>, out |-> {}, append |-> FALSE, pend |-> << >>]
<1>1. N \in Nat /\ \A i \in 1 .. N : argv[i] \in Word
  OBVIOUS
<1>2. PICK f : /\ f[0] = b
               /\ \A i \in 1 .. N : f[i] = NextArgument(f[i - 1], argv[i])
               /\ Redirected(argv) = f[N]
  BY <1>1, RedirectedSteps
<1>3. b \in Arguments
  BY DEF Arguments, Word
<1> DEFINE S == {i \in 0 .. N : f[i] \in Arguments}
<1>4. 0 \in S
  BY <1>1, <1>2, <1>3
<1>5. ASSUME NEW i \in 0 .. N, i \in S, i < N
      PROVE  i + 1 \in S
  <2>1. i + 1 \in 1 .. N /\ i + 1 - 1 = i
    BY <1>1, <1>5
  <2>2. f[i + 1] = NextArgument(f[i], argv[i + 1])
    BY <1>2, <2>1
  <2>3. f[i + 1] \in Arguments
    BY <1>1, <1>5, <2>1, <2>2, NextArgumentType
  <2> QED
    BY <2>1, <2>3
<1>6. 0 .. N \subseteq S
  <2> HIDE DEF S, N
  <2> QED
    BY <1>1, <1>4, <1>5, UpTo
<1>7. f[N] \in Arguments
  BY <1>1, <1>6
<1> QED
  BY <1>2, <1>7 DEF Arguments

LEMMA WithOutputAfter ==
  ASSUME NEW s, Sound(s), NEW args \in Seq(Word) \ {<< >>}, NEW out, NEW append
  PROVE  After(s, WithOutput(s, args, out, append).s)
<1> DEFINE opened == [s EXCEPT !.files = Written(@, out, << >>, append)]
           done == Builtin(Piped(opened), args)
           t == [done.s EXCEPT !.files = Written(@, out, done.s.pipe, append),
                               !.pipe = << >>, !.target = s.target]
<1>1. Sound(opened) /\ opened.active = s.active
  BY FilesAfter DEF After
<1> HIDE DEF opened
<1>2. Sound(Piped(opened)) /\ Piped(opened).active = s.active
  <2> DEFINE u == [opened EXCEPT !.target = "PIPE", !.pipe = << >>]
  <2>1. DOMAIN u = DOMAIN opened /\ u.env = opened.env /\ u.active = opened.active
    BY <1>1 DEF Sound, Fields
  <2>2. Piped(opened) = u
    BY DEF Piped
  <2> HIDE DEF u
  <2> QED
    BY <1>1, <2>1, <2>2 DEF Sound
<1>3. After(Piped(opened), done.s)
  BY <1>2, BuiltinAfter
<1>4. Sound(done.s) /\ done.s.active = s.active
  BY <1>2, <1>3 DEF After
<1>5. WithOutput(s, args, out, append).s = t
  BY DEF WithOutput, Result, opened
<1> HIDE DEF done
<1>6. DOMAIN t = DOMAIN done.s /\ t.env = done.s.env /\ t.active = done.s.active
      /\ t.pipe = << >> /\ t.target = s.target
  BY <1>4 DEF Sound, Fields
<1> HIDE DEF t
<1> QED
  BY <1>4, <1>5, <1>6 DEF After, Sound

LEMMA RunAfter ==
  ASSUME NEW s, Sound(s), NEW argv \in Seq(Word)
  PROVE  After(s, Run(s, argv).s)
<1> DEFINE d == Redirected(argv)
           t == [s EXCEPT !.ran = Append(@, d.args)]
           u == Run(s, argv).s
<1>1. d.args \in Seq(Word)
  BY RedirectedType
<1>2. DOMAIN t = DOMAIN s /\ t.env = s.env /\ t.target = s.target /\ t.active = s.active /\ t.pipe = s.pipe
  BY DEF Sound, Fields
<1>3. \/ u = s
      \/ d.args # << >> /\ Assignment(d.args[1]) /\ u = Assign(t, d.args[1])
      \/ d.args # << >> /\ u = Builtin(t, d.args).s
      \/ d.args # << >> /\ u = WithOutput(t, d.args, CHOOSE o \in d.out : TRUE, d.append).s
  BY DEF Run, Result
<1> HIDE DEF d, t, u
<1>4. Sound(t)
  BY <1>2 DEF Sound
<1>5. \A v : After(t, v) => After(s, v)
  BY <1>2 DEF After
<1>6. ASSUME d.args # << >>, Assignment(d.args[1]) PROVE After(t, Assign(t, d.args[1]))
  <2> DEFINE word == d.args[1]
             eq == Upto(word, 1, {"="})
             env == EnvSet(t.env, SubSeq(word, 1, eq - 1), SubSeq(word, eq + 1, Len(word)))
  <2>1. word \in Word
    BY <1>1, <1>6
  <2>2. eq \in 2 .. Len(word) - 1
    BY <1>6 DEF Assignment
  <2>3. EnvHolds(t.env) /\ Len(word) \in Nat
    BY <1>4, <2>1 DEF Sound, Word
  <2>4. Assign(t, word) = [t EXCEPT !.env = env]
    BY DEF Assign
  <2> HIDE DEF word
  <2>5. eq <= Len(word)
    <3> HIDE DEF eq
    <3> QED
      BY <2>2, <2>3
  <2>6. EnvHolds(env)
    BY <2>1, <2>3, <2>5, AssignHolds
  <2> HIDE DEF env
  <2> QED
    BY <1>4, <2>4, <2>6, EnvAfter DEF word
<1>7. ASSUME d.args # << >>
      PROVE  /\ After(t, Builtin(t, d.args).s)
             /\ After(t, WithOutput(t, d.args, CHOOSE o \in d.out : TRUE, d.append).s)
  <2>1. d.args \in Seq(Word) \ {<< >>}
    BY <1>1, <1>7
  <2> QED
    BY <1>4, <2>1, BuiltinAfter, WithOutputAfter
<1> QED
  BY <1>3, <1>5, <1>6, <1>7, SameAfter DEF u

(* Between two lines output goes to the screen.                            *)
Idle(s) == Sound(s) /\ s.target = "FB" /\ s.active = FALSE /\ s.pipe = << >>

(* Between two commands of a line it does, too; the pipe buffer may hold    *)
(* what the left side of a pipe wrote.                                     *)
Between(s) == Sound(s) /\ s.target = "FB" /\ s.active = FALSE

LEMMA TurnBetween ==
  ASSUME NEW acc, Between(acc.s), NEW c \in Segment
  PROVE  Between(Turn(acc, c).s)
<1>0. c.argv \in Seq(Word)
  BY DEF Segment
<1>1. CASE acc.left
  <2> DEFINE on == [acc.s EXCEPT !.active = TRUE]
             done == IF c.argv = << >> THEN Result(acc.s, acc.r) ELSE Run(on, c.argv)
             t == [done.s EXCEPT !.active = FALSE, !.pipe = << >>]
  <2>1. Turn(acc, c).s = t
    BY <1>1 DEF Turn
  <2>2. DOMAIN on = DOMAIN acc.s /\ on.env = acc.s.env /\ on.target = "FB"
    BY DEF Between, Sound, Fields
  <2> HIDE DEF on
  <2>3. Sound(on)
    BY <2>2 DEF Between, Sound
  <2>4. Sound(done.s) /\ done.s.target = "FB"
    <3>1. CASE c.argv = << >>
      BY <3>1 DEF Result, Between
    <3>2. CASE c.argv # << >>
      <4>1. After(on, Run(on, c.argv).s)
        BY <1>0, <2>3, RunAfter
      <4> QED
        BY <2>2, <3>2, <4>1 DEF After
    <3> QED
      BY <3>1, <3>2
  <2> HIDE DEF done
  <2>5. DOMAIN t = DOMAIN done.s /\ t.env = done.s.env /\ t.target = done.s.target /\ t.active = FALSE
    BY <2>4 DEF Sound, Fields
  <2> HIDE DEF t
  <2> QED
    BY <2>1, <2>4, <2>5 DEF Between, Sound
<1>2. CASE ~acc.left /\ ((acc.prev = AND /\ acc.r # 0) \/ (acc.prev = OR /\ acc.r = 0) \/ c.argv = << >>)
  <2>1. Turn(acc, c) = Skipped(acc, c)
    BY <1>2 DEF Turn
  <2>2. Skipped(acc, c).s = acc.s
    BY DEF Skipped
  <2> QED
    BY <2>1, <2>2
<1>3. CASE ~acc.left /\ ~((acc.prev = AND /\ acc.r # 0) \/ (acc.prev = OR /\ acc.r = 0) \/ c.argv = << >>)
           /\ c.op = <<"|">>
  <2> DEFINE u == [acc.s EXCEPT !.target = "PIPE", !.pipe = << >>]
             done == Run(Piped(acc.s), c.argv)
             t == [done.s EXCEPT !.target = acc.s.target]
  <2>1. Turn(acc, c).s = t
    BY <1>3 DEF Turn
  <2>2. DOMAIN u = DOMAIN acc.s /\ u.env = acc.s.env /\ u.active = acc.s.active /\ Piped(acc.s) = u
    BY DEF Between, Sound, Fields, Piped
  <2> HIDE DEF u
  <2>3. Sound(u) /\ u.active = FALSE
    BY <2>2 DEF Between, Sound
  <2>4. After(u, done.s)
    BY <1>0, <2>2, <2>3, RunAfter
  <2>5. Sound(done.s) /\ done.s.active = FALSE
    BY <2>3, <2>4 DEF After
  <2> HIDE DEF done
  <2>6. DOMAIN t = DOMAIN done.s /\ t.env = done.s.env /\ t.target = acc.s.target /\ t.active = done.s.active
    BY <2>5 DEF Sound, Fields
  <2> HIDE DEF t
  <2> QED
    BY <2>1, <2>5, <2>6 DEF Between, Sound
<1>4. CASE ~acc.left /\ ~((acc.prev = AND /\ acc.r # 0) \/ (acc.prev = OR /\ acc.r = 0) \/ c.argv = << >>)
           /\ c.op # <<"|">>
  <2>1. Turn(acc, c).s = Run(acc.s, c.argv).s
    BY <1>4 DEF Turn
  <2>2. After(acc.s, Run(acc.s, c.argv).s)
    BY <1>0, RunAfter DEF Between
  <2> QED
    BY <2>1, <2>2 DEF After, Between
<1> QED
  BY <1>1, <1>2, <1>3, <1>4

LEMMA AllTurnsBetween ==
  ASSUME NEW s, Between(s), NEW commands \in Seq(Segment)
  PROVE  Between(AllTurns(s, commands).s)
<1> DEFINE N == Len(commands)
           b == [s |-> s, r |-> 0, prev |-> << >>, left |-> FALSE]
<1>1. N \in Nat /\ \A i \in 1 .. N : commands[i] \in Segment
  OBVIOUS
<1>2. PICK f : /\ f[0] = b
               /\ \A i \in 1 .. N : f[i] = Turn(f[i - 1], commands[i])
               /\ AllTurns(s, commands) = f[N]
  BY <1>1, TurnSteps
<1> DEFINE S == {i \in 0 .. N : Between(f[i].s)}
<1>3. 0 \in S
  BY <1>1, <1>2
<1>4. ASSUME NEW i \in 0 .. N, i \in S, i < N
      PROVE  i + 1 \in S
  <2>1. i + 1 \in 1 .. N /\ i + 1 - 1 = i
    BY <1>1, <1>4
  <2>2. f[i + 1] = Turn(f[i], commands[i + 1])
    BY <1>2, <2>1
  <2>3. Between(f[i + 1].s)
    BY <1>1, <1>4, <2>1, <2>2, TurnBetween
  <2> QED
    BY <2>1, <2>3
<1>5. 0 .. N \subseteq S
  <2> HIDE DEF S, N
  <2> QED
    BY <1>1, <1>3, <1>4, UpTo
<1>6. Between(f[N].s)
  BY <1>1, <1>5
<1> QED
  BY <1>2, <1>6

LEMMA ExecuteLineIdle ==
  ASSUME NEW s, Idle(s), NEW line \in Word
  PROVE  Idle(ExecuteLine(s, line))
<1> DEFINE u == AllTurns(s, Commands(Tokens(Expand(s.env, line)))).s
           t == [u EXCEPT !.pipe = << >>]
<1>1. s.env \in Seq(Word)
  BY DEF Idle, Sound, EnvHolds
<1>2. Commands(Tokens(Expand(s.env, line))) \in Seq(Segment)
  BY <1>1, ExpandType, TokensType, CommandsType
<1>3. Between(u)
  BY <1>2, AllTurnsBetween DEF Idle, Between
<1>4. ExecuteLine(s, line) = t
  BY DEF ExecuteLine
<1> HIDE DEF u
<1>5. DOMAIN t = DOMAIN u /\ t.env = u.env /\ t.target = u.target /\ t.active = u.active /\ t.pipe = << >>
  BY <1>3 DEF Between, Sound, Fields
<1> HIDE DEF t
<1> QED
  BY <1>3, <1>4, <1>5 DEF Between, Idle, Sound

LEMMA ConditionType ==
  ASSUME NEW header \in Word
  PROVE  Condition(header) \in Word
<1> DEFINE n == Len(header)
           text == NonSpace(header, Upto(header, 1, {" "}))
           e == Upto(header, text, {"]"})
<1>1. n \in Nat /\ header \in Seq(Lexeme)
  BY DEF Word
<1>2. Upto(header, 1, {" "}) \in 1 .. n + 1
  <2>1. 1 \in 1 .. Len(header) + 1
    BY <1>1
  <2> QED
    BY <1>1, <2>1, UptoWithin
<1>3. text \in 1 .. n + 1
  <2> DEFINE i == Upto(header, 1, {" "})
  <2>1. i \in 1 .. Len(header) + 1
    BY <1>2
  <2> HIDE DEF i
  <2>2. NonSpace(header, i) \in i .. Len(header) + 1
    BY <1>1, <2>1, UptoWithin DEF NonSpace
  <2>3. NonSpace(header, i) \in 1 .. n + 1
    BY <1>1, <2>1, <2>2
  <2> QED
    BY <2>3 DEF i
<1> HIDE DEF text
<1>4. e \in text .. n + 1
  BY <1>1, <1>3, UptoWithin
<1>5. Condition(header) \in {SubSeq(header, text + 1, e - 1), SubSeq(header, text, n)}
  BY DEF Condition, text
<1> HIDE DEF e
<1>6. SubSeq(header, text + 1, e - 1) \in Word /\ SubSeq(header, text, n) \in Word
  BY <1>1, <1>3, <1>4 DEF Word
<1> QED
  BY <1>5, <1>6

LEMMA TestConditionIdle ==
  ASSUME NEW s, Idle(s), NEW cond \in Word
  PROVE  Idle(TestCondition(s, cond).s)
<1> DEFINE w == Cut(Words(Expand(s.env, cond)), 8)
<1>1. s.env \in Seq(Word)
  BY DEF Idle, Sound, EnvHolds
<1>2. w \in Seq(Word)
  BY <1>1, ExpandType, WordsType, CutType
<1>3. TestCondition(s, cond).s = Run(s, w).s \/ TestCondition(s, cond).s = s
  <2> HIDE DEF w
  <2> QED
    BY SMTT(20) DEF TestCondition, Result, w
<1> HIDE DEF w
<1>4. After(s, Run(s, w).s)
  BY <1>2, RunAfter DEF Idle
<1>5. Idle(Run(s, w).s)
  BY <1>4 DEF After, Idle
<1> QED
  BY <1>3, <1>5

LEMMA ScriptLineIdle ==
  ASSUME NEW s, Idle(s), NEW line \in Word
  PROVE  Idle(ScriptLine(s, line))
<1>1. Expand(s.env, line) \in Word
  BY ExpandType DEF Idle, Sound, EnvHolds
<1> QED
  BY <1>1, ExecuteLineIdle DEF ScriptLine

LEMMA AllLinesIdle ==
  ASSUME NEW s, Idle(s), NEW lines \in Seq(Word)
  PROVE  Idle(AllLines(s, lines))
<1> DEFINE N == Len(lines)
<1>1. N \in Nat /\ \A i \in 1 .. N : lines[i] \in Word
  OBVIOUS
<1>2. PICK f : /\ f[0] = s
               /\ \A i \in 1 .. N : f[i] = ScriptLine(f[i - 1], lines[i])
               /\ AllLines(s, lines) = f[N]
  BY <1>1, LineSteps
<1> DEFINE S == {i \in 0 .. N : Idle(f[i])}
<1>3. 0 \in S
  BY <1>1, <1>2
<1>4. ASSUME NEW i \in 0 .. N, i \in S, i < N
      PROVE  i + 1 \in S
  <2>1. i + 1 \in 1 .. N /\ i + 1 - 1 = i
    BY <1>1, <1>4
  <2>2. f[i + 1] = ScriptLine(f[i], lines[i + 1])
    BY <1>2, <2>1
  <2>3. Idle(f[i + 1])
    BY <1>1, <1>4, <2>1, <2>2, ScriptLineIdle
  <2> QED
    BY <2>1, <2>3
<1>5. 0 .. N \subseteq S
  <2> HIDE DEF S, N
  <2> QED
    BY <1>1, <1>3, <1>4, UpTo
<1>6. Idle(f[N])
  BY <1>1, <1>5
<1> QED
  BY <1>2, <1>6

IfTurn == {"s", "exec", "done"}

LEMMA IfLineIdle ==
  ASSUME NEW acc, DOMAIN acc = IfTurn, Idle(acc.s), NEW text \in Word, NEW find
  PROVE  DOMAIN IfLine(acc, text, find) = IfTurn /\ Idle(IfLine(acc, text, find).s)
<1> DEFINE marked == [acc EXCEPT !.exec = Marked(text, find, @)]
           ended == [acc EXCEPT !.done = TRUE]
           run == [acc EXCEPT !.s = ScriptLine(@, text)]
<1>1. IfLine(acc, text, find) \in {acc, marked, ended, run}
  BY DEF IfLine
<1>2. /\ DOMAIN marked = IfTurn /\ marked.s = acc.s
      /\ DOMAIN ended = IfTurn /\ ended.s = acc.s
      /\ DOMAIN run = IfTurn /\ run.s = ScriptLine(acc.s, text)
  BY DEF IfTurn
<1> HIDE DEF marked, ended, run
<1>3. Idle(ScriptLine(acc.s, text))
  BY ScriptLineIdle
<1> QED
  BY <1>1, <1>2, <1>3

LEMMA IfBlockIdle ==
  ASSUME NEW s, Idle(s), NEW block \in Seq(Word), Len(block) >= 1
  PROVE  Idle(IfBlock(s, block))
<1> DEFINE N == Len(block) - 1
           cond == TestCondition(s, Condition(block[1]))
           b == [s |-> cond.s, exec |-> FALSE, done |-> FALSE]
<1>1. N \in Nat /\ (\A i \in 1 .. Len(block) : block[i] \in Word) /\ Len(block) \in Nat \ {0}
  OBVIOUS
<1>2. PICK f : /\ f[0] = b
               /\ \A i \in 1 .. N : f[i] = IfLine(f[i - 1], block[i + 1], cond.r = 0)
               /\ IfBlock(s, block) = f[N].s
  BY <1>1, IfSteps
<1>3. Idle(cond.s)
  <2>1. Condition(block[1]) \in Word
    BY <1>1, ConditionType
  <2> QED
    BY <2>1, TestConditionIdle
<1> HIDE DEF cond
<1> DEFINE S == {i \in 0 .. N : DOMAIN f[i] = IfTurn /\ Idle(f[i].s)}
<1>4. 0 \in S
  <2>1. DOMAIN b = IfTurn /\ b.s = cond.s
    BY DEF IfTurn
  <2> HIDE DEF b
  <2> QED
    BY <1>1, <1>2, <1>3, <2>1
<1>5. ASSUME NEW i \in 0 .. N, i \in S, i < N
      PROVE  i + 1 \in S
  <2>1. i + 1 \in 1 .. N /\ i + 1 - 1 = i /\ i + 1 + 1 \in 1 .. Len(block)
    BY <1>1, <1>5
  <2>2. f[i + 1] = IfLine(f[i], block[i + 1 + 1], cond.r = 0)
    BY <1>2, <2>1
  <2>3. block[i + 1 + 1] \in Word
    BY <1>1, <2>1
  <2>4. DOMAIN f[i + 1] = IfTurn /\ Idle(f[i + 1].s)
    BY <1>5, <2>2, <2>3, IfLineIdle
  <2> QED
    BY <2>1, <2>4
<1>6. 0 .. N \subseteq S
  <2> HIDE DEF S, N
  <2> QED
    BY <1>1, <1>4, <1>5, UpTo
<1>7. Idle(f[N].s)
  BY <1>1, <1>6
<1> QED
  BY <1>2, <1>7

LEMMA ForBlockIdle ==
  ASSUME NEW s, Idle(s), NEW block \in Seq(Word), Len(block) >= 1,
         script_var \in Word, script_values \in Seq(Word), PlainNames => Plain(script_var)
  PROVE  Idle(ForBlock(s, block))
<1> DEFINE N == Len(script_values)
           body == LoopBody(block)
<1>1. N \in Nat /\ \A i \in 1 .. N : script_values[i] \in Word
  OBVIOUS
<1>2. PICK f : /\ f[0] = s
               /\ \A i \in 1 .. N : f[i] = ForPass(f[i - 1], script_var, script_values[i], body)
               /\ ForBlock(s, block) = f[N]
  BY <1>1, ForSteps
<1>3. body \in Seq(Word)
  BY DEF LoopBody
<1> HIDE DEF body
<1> DEFINE S == {i \in 0 .. N : Idle(f[i])}
<1>4. 0 \in S
  BY <1>1, <1>2
<1>5. ASSUME NEW i \in 0 .. N, i \in S, i < N
      PROVE  i + 1 \in S
  <2>1. i + 1 \in 1 .. N /\ i + 1 - 1 = i
    BY <1>1, <1>5
  <2>2. f[i + 1] = ForPass(f[i], script_var, script_values[i + 1], body)
    BY <1>2, <2>1
  <2> DEFINE env == EnvSet(f[i].env, script_var, script_values[i + 1])
             t == [f[i] EXCEPT !.env = env]
  <2>3. Idle(f[i])
    BY <1>5
  <2>4. EnvHolds(env)
    BY <1>1, <2>1, <2>3, EnvSetHolds DEF Idle, Sound
  <2>5. f[i + 1] = AllLines(t, body)
    BY <2>2 DEF ForPass
  <2> HIDE DEF env
  <2>6. DOMAIN t = DOMAIN f[i] /\ t.env = env /\ t.target = f[i].target
        /\ t.active = f[i].active /\ t.pipe = f[i].pipe
    BY <2>3 DEF Idle, Sound, Fields
  <2> HIDE DEF t
  <2>7. Idle(t)
    BY <2>3, <2>4, <2>6 DEF Idle, Sound
  <2>8. Idle(f[i + 1])
    BY <1>3, <2>5, <2>7, AllLinesIdle
  <2> QED
    BY <2>1, <2>8
<1>6. 0 .. N \subseteq S
  <2> HIDE DEF S, N
  <2> QED
    BY <1>1, <1>4, <1>5, UpTo
<1>7. Idle(f[N])
  BY <1>1, <1>6
<1> QED
  BY <1>2, <1>7

(* The bytes of the first lines of a block are those of a block of them.    *)
LEMMA UsedPart ==
  ASSUME NEW kept \in Seq(Word), NEW k \in 0 .. Len(kept), NEW part, Len(part) = k,
         \A i \in 1 .. k : part[i] = kept[i]
  PROVE  /\ Used(part) \in Nat /\ Used(kept) \in Nat
         /\ Used(part) <= Used(kept)
         /\ k = Len(kept) - 1 => Used(kept) = Used(part) + Len(kept[Len(kept)]) + 1
<1> DEFINE N == Len(kept)
<1>1. N \in Nat /\ k \in Nat /\ k <= N /\ \A i \in 1 .. N : Len(kept[i]) \in Nat
  BY DEF Word
<1>2. PICK f : /\ f[0] = 0
               /\ \A i \in 1 .. N : f[i] = f[i - 1] + Len(kept[i]) + 1
               /\ Used(kept) = f[N]
  BY <1>1, UsedSteps
<1>3. PICK g : /\ g[0] = 0
               /\ \A i \in 1 .. k : g[i] = g[i - 1] + Len(part[i]) + 1
               /\ Used(part) = g[k]
  BY <1>1, UsedSteps
<1> HIDE DEF N
<1> DEFINE S == {i \in 0 .. N : /\ f[i] \in Nat
                                /\ i <= k => g[i] = f[i]
                                /\ i >= k => f[k] \in Nat /\ f[k] <= f[i]}
<1>4. 0 \in S
  BY <1>1, <1>2, <1>3
<1>5. ASSUME NEW i \in 0 .. N, i \in S, i < N
      PROVE  i + 1 \in S
  <2>1. i + 1 \in 1 .. N /\ i + 1 - 1 = i
    BY <1>1, <1>5
  <2>2. f[i + 1] = f[i] + Len(kept[i + 1]) + 1 /\ Len(kept[i + 1]) \in Nat /\ f[i] \in Nat
    BY <1>1, <1>2, <1>5, <2>1
  <2>3. i + 1 <= k => g[i + 1] = f[i + 1]
    <3>1. SUFFICES ASSUME i + 1 <= k PROVE g[i + 1] = f[i + 1]
      OBVIOUS
    <3>2. i + 1 \in 1 .. k /\ i <= k
      BY <1>1, <2>1, <3>1
    <3>3. g[i + 1] = g[i] + Len(part[i + 1]) + 1 /\ part[i + 1] = kept[i + 1] /\ g[i] = f[i]
      BY <1>3, <1>5, <2>1, <3>2
    <3> QED
      BY <2>2, <3>3
  <2>4. i + 1 >= k => f[k] \in Nat /\ f[k] <= f[i + 1]
    <3>1. CASE i + 1 = k
      BY <2>2, <3>1
    <3>2. CASE i >= k
      <4>1. f[k] \in Nat /\ f[k] <= f[i]
        BY <1>5, <3>2
      <4> QED
        BY <2>2, <4>1
    <3> QED
      BY <1>1, <2>1, <3>1, <3>2
  <2>5. f[i + 1] \in Nat
    BY <2>2
  <2> QED
    BY <2>1, <2>3, <2>4, <2>5
<1>6. 0 .. N \subseteq S
  <2> HIDE DEF S
  <2> QED
    BY <1>1, <1>4, <1>5, UpTo
<1>7. f[N] \in Nat /\ f[k] \in Nat /\ g[k] = f[k] /\ f[k] <= f[N]
  BY <1>1, <1>6
<1>8. k = N - 1 => f[N] = f[k] + Len(kept[N]) + 1
  <2>1. SUFFICES ASSUME k = N - 1 PROVE f[N] = f[k] + Len(kept[N]) + 1
    OBVIOUS
  <2>2. N \in 1 .. N
    BY <1>1, <2>1
  <2> QED
    BY <1>2, <2>1, <2>2
<1> QED
  BY <1>2, <1>3, <1>7, <1>8 DEF N

Block ==
  /\ script_type \in {"if", "while", "for"}
  /\ {script_collecting, looping} \subseteq BOOLEAN
  /\ script_buf \in Seq(Input)
  /\ script_var \in Word /\ script_values \in Seq(Word)
  /\ PlainNames => Plain(script_var)
  /\ script_collecting \/ script_buf = << >>
  /\ looping => script_collecting /\ Len(script_buf) >= 3
  /\ script_collecting => script_buf # << >> /\ Header(script_buf[1]) /\ script_type = script_buf[1][1]
  /\ Used(script_buf) < SCRIPT_BUF_SIZE
  /\ looping \/ \A i \in 1 .. Len(script_buf) : ~Terminator(script_buf[i])

(* What ShellInv rests on: the shell is idle between two lines, whether or  *)
(* not it was shut down, and until a loop starts its block has no last line. *)
ShellIInv == Idle(sh) /\ Block

LEMMA InputType ==
  ASSUME NEW line \in Input
  PROVE  line \in Word /\ line # << >> /\ Len(line) + 1 < SCRIPT_BUF_SIZE
  BY ShellAssumption DEF Word

LEMMA FreshIdle ==
  ASSUME Idle(sh)
  PROVE  Idle(Fresh)
<1> DEFINE t == [sh EXCEPT !.ran = << >>, !.shown = << >>]
<1>1. DOMAIN t = DOMAIN sh /\ t.env = sh.env /\ t.target = sh.target
      /\ t.active = sh.active /\ t.pipe = sh.pipe
  BY DEF Idle, Sound, Fields
<1>2. Fresh = t
  BY DEF Fresh
<1> HIDE DEF t
<1> QED
  BY <1>1, <1>2 DEF Idle, Sound

LEMMA BlockOfWords ==
  ASSUME NEW kept \in Seq(Input)
  PROVE  kept \in Seq(Word)
<1>1. Input \subseteq Word
  BY InputType
<1> QED
  BY <1>1

LEMMA CollectedFacts ==
  ASSUME Block, NEW line \in Input
  PROVE  /\ Collected(line) \in Seq(Input)
         /\ Collected(line) = script_buf \/ Collected(line) = Append(script_buf, line)
         /\ Used(Collected(line)) < SCRIPT_BUF_SIZE
         /\ Used(Lines(Collected(line))) < SCRIPT_BUF_SIZE
<1>1. script_buf \in Seq(Input) /\ Used(script_buf) < SCRIPT_BUF_SIZE
  BY DEF Block
<1>2. /\ Collected(line) = script_buf
      \/ /\ Used(script_buf) + Len(line) + 2 < SCRIPT_BUF_SIZE
         /\ Collected(line) = Append(script_buf, line)
  BY DEF Collected
<1>3. Collected(line) \in Seq(Input)
  BY <1>1, <1>2
<1>4. Used(Collected(line)) < SCRIPT_BUF_SIZE
  <2>1. CASE Collected(line) = script_buf
    BY <1>1, <2>1
  <2>2. CASE /\ Used(script_buf) + Len(line) + 2 < SCRIPT_BUF_SIZE
             /\ Collected(line) = Append(script_buf, line)
    <3> DEFINE kept == Append(script_buf, line)
               k == Len(script_buf)
    <3>1. /\ kept \in Seq(Word) /\ k \in 0 .. Len(kept) /\ k = Len(kept) - 1 /\ kept[Len(kept)] = line
          /\ \A i \in 1 .. k : script_buf[i] = kept[i]
      <4>1. script_buf \in Seq(Word) /\ line \in Word
        BY <1>1, BlockOfWords, InputType
      <4> QED
        BY <4>1
    <3> HIDE DEF kept, k
    <3>2. Used(script_buf) \in Nat /\ Used(kept) = Used(script_buf) + Len(line) + 1
      <4>1. Len(script_buf) = k
        BY DEF k
      <4> QED
        BY <3>1, <4>1, UsedPart
    <3>3. Len(line) \in Nat /\ SCRIPT_BUF_SIZE \in Nat
      BY ShellAssumption, InputType DEF Word
    <3> QED
      BY <2>2, <3>2, <3>3 DEF kept
  <2> QED
    BY <1>2, <2>1, <2>2
<1>5. Used(Lines(Collected(line))) < SCRIPT_BUF_SIZE
  <2> DEFINE kept == Collected(line)
             part == Lines(kept)
             k == IF Len(kept) < SCRIPT_MAX_LINES THEN Len(kept) ELSE SCRIPT_MAX_LINES
  <2>1. SCRIPT_MAX_LINES \in Nat /\ SCRIPT_BUF_SIZE \in Nat
    BY ShellAssumption
  <2>2. part = SubSeq(kept, 1, k)
    BY DEF Lines, Cut
  <2>3. kept \in Seq(Word)
    BY <1>3, BlockOfWords
  <2> HIDE DEF kept, part
  <2>4. k \in 0 .. Len(kept)
    BY <2>1, <2>3
  <2> HIDE DEF k
  <2>5. Len(part) = k /\ \A i \in 1 .. k : part[i] = kept[i]
    BY <2>2, <2>3, <2>4
  <2>6. Used(part) \in Nat /\ Used(kept) \in Nat /\ Used(part) <= Used(kept)
    BY <2>3, <2>4, <2>5, UsedPart
  <2>7. Used(kept) < SCRIPT_BUF_SIZE
    BY <1>4 DEF kept
  <2>8. Used(part) < SCRIPT_BUF_SIZE
    BY <2>1, <2>6, <2>7
  <2> QED
    BY <2>8 DEF part, kept
<1> QED
  BY <1>2, <1>3, <1>4, <1>5

LEMMA UsedOne ==
  ASSUME NEW line \in Word
  PROVE  Used(<<line>>) = Len(line) + 1 /\ Used(<< >>) = 0
<1>1. Used(<< >>) = 0
  <2>1. Len(<< >>) \in Nat
    OBVIOUS
  <2> DEFINE e == << >>
  <2>2. e = << >> /\ Len(e) = 0
    OBVIOUS
  <2> HIDE DEF e
  <2>3. PICK f : f[0] = 0 /\ Used(e) = f[Len(e)]
    BY <2>2, UsedSteps
  <2> QED
    BY <2>2, <2>3
<1>2. Used(<<line>>) = Used(<< >>) + Len(line) + 1
  <2> DEFINE kept == <<line>>
             part == << >>
  <2>1. kept \in Seq(Word) /\ 0 \in 0 .. Len(kept) /\ Len(part) = 0 /\ 0 = Len(kept) - 1 /\ kept[Len(kept)] = line
    OBVIOUS
  <2>2. \A i \in 1 .. 0 : part[i] = kept[i]
    OBVIOUS
  <2> HIDE DEF kept, part
  <2>3. Used(kept) = Used(part) + Len(line) + 1
    BY <2>1, <2>2, UsedPart
  <2> QED
    BY <2>3 DEF kept, part
<1>3. Len(line) \in Nat
  BY DEF Word
<1> QED
  BY <1>1, <1>2, <1>3

LEMMA ExecuteKeeps ==
  ASSUME ShellIInv, NEW line \in Input, Execute(line)
  PROVE  ShellIInv'
<1>1. Idle(Fresh) /\ line \in Word
  BY FreshIdle, InputType DEF ShellIInv
<1>2. Idle(sh)'
  <2>1. Idle(ExecuteLine(Fresh, line))
    BY <1>1, ExecuteLineIdle
  <2>2. sh' = ExecuteLine(Fresh, line)
    BY DEF Execute
  <2>3. Idle(sh')
    BY <2>1, <2>2
  <2> QED
    BY <2>3 DEF Idle, Sound
<1>3. Block'
  BY DEF Execute, ShellIInv, Block, Used
<1> QED
  BY <1>2, <1>3 DEF ShellIInv

LEMMA HeaderOf ==
  ASSUME NEW line \in Input, Header(line)
  PROVE  /\ line[1] \in {"if", "while", "for"} /\ Len(line) >= 2 /\ Len(line) \in Nat
         /\ line[1] = "for" => Starts(line, "for")
         /\ ~Terminator(line)
<1>1. PICK w \in {"if", "while", "for"} : Starts(line, w)
  BY DEF Header
<1>2. Len(line) >= 2 /\ line[1] = w /\ line[2] = " "
  BY <1>1 DEF Starts
<1>3. Len(line) \in Nat
  BY InputType DEF Word
<1>4. line # <<"fi">> /\ line # <<"done">>
  <2>1. \A x : Len(<<x>>) = 1
    OBVIOUS
  <2>2. \A x : line = <<x>> => Len(line) = 1
    BY <2>1
  <2>3. ~(Len(line) = 1)
    <3>1. Len(line) >= 2
      BY <1>2
    <3>2. \A n \in Nat : n >= 2 => ~(n = 1)
      OBVIOUS
    <3> QED
      BY <1>3, <3>1, <3>2, Zenon
  <2> QED
    BY <2>2, <2>3
<1> QED
  BY <1>1, <1>2, <1>3, <1>4 DEF Terminator

LEMMA ForHeader ==
  ASSUME NEW line \in Word, Len(line) >= 2, NEW env \in Seq(Word)
  PROVE  LET name  == Upto(line, 3, {" "})
             rest  == SubSeq(line, NonSpace(line, name), Len(line))
             words == Words(IF Starts(rest, "in") THEN Tail(rest) ELSE rest)
         IN  /\ SubSeq(line, 3, name - 1) \in Word
             /\ [i \in 1 .. Len(Cut(words, VALUES_MAX)) |-> Expand(env, words[i])] \in Seq(Word)
<1> DEFINE n == Len(line)
           name == Upto(line, 3, {" "})
           start == NonSpace(line, name)
           rest == SubSeq(line, start, n)
           text == IF Starts(rest, "in") THEN Tail(rest) ELSE rest
           words == Words(text)
           m == Len(Cut(words, VALUES_MAX))
           values == [i \in 1 .. m |-> Expand(env, words[i])]
<1>1. n \in Nat /\ line \in Seq(Lexeme)
  BY DEF Word
<1>2. name \in 3 .. n + 1
  <2>1. 3 \in 1 .. Len(line) + 1
    BY <1>1
  <2> QED
    BY <1>1, <2>1, UptoWithin
<1> HIDE DEF name
<1>3. start \in 1 .. n + 1
  <2>1. name \in 1 .. Len(line) + 1
    BY <1>1, <1>2
  <2>2. start \in name .. Len(line) + 1
    BY <1>1, <2>1, UptoWithin DEF NonSpace
  <2> HIDE DEF start
  <2> QED
    BY <1>1, <1>2, <2>2
<1> HIDE DEF start
<1>4. SubSeq(line, 3, name - 1) \in Word
  BY <1>1, <1>2 DEF Word
<1>5. rest \in Word
  BY <1>1, <1>3 DEF Word
<1> HIDE DEF rest
<1>6. text \in Word
  <2>1. ASSUME Starts(rest, "in") PROVE Tail(rest) \in Word
    <3>1. Len(rest) >= 2
      BY <2>1 DEF Starts
    <3>2. rest # << >>
      BY <1>5, <3>1 DEF Word
    <3> QED
      BY <1>5, <3>2 DEF Word
  <2> QED
    BY <1>5, <2>1
<1> HIDE DEF text
<1>7. words \in Seq(Word)
  BY <1>6, WordsType
<1>8. m \in 0 .. Len(words)
  <2> HIDE DEF words
  <2>1. VALUES_MAX \in Nat
    BY ShellAssumption
  <2>2. Len(words) \in Nat
    BY <1>7
  <2>3. CASE Len(words) < VALUES_MAX
    <3>1. Cut(words, VALUES_MAX) = SubSeq(words, 1, Len(words))
      BY <2>3 DEF Cut
    <3> QED
      BY <1>7, <2>2, <3>1
  <2>4. CASE ~(Len(words) < VALUES_MAX)
    <3>1. Cut(words, VALUES_MAX) = SubSeq(words, 1, VALUES_MAX)
      BY <2>4 DEF Cut
    <3> QED
      BY <1>7, <2>1, <2>2, <2>4, <3>1
  <2> QED
    BY <2>3, <2>4
<1> HIDE DEF words, m
<1>9. m \in Nat /\ \A i \in 1 .. m : Expand(env, words[i]) \in Word
  <2>1. \A i \in 1 .. m : words[i] \in Word
    BY <1>7, <1>8
  <2>2. m \in Nat
    BY <1>7, <1>8
  <2> QED
    BY <2>1, <2>2, ExpandType
<1>10. values \in [1 .. m -> Word]
  BY <1>9
<1> HIDE DEF values
<1>11. values \in Seq(Word)
  BY <1>9, <1>10
<1> QED
  BY <1>4, <1>11 DEF values, m, words, text, rest, start, name

LEMMA BeginKeeps ==
  ASSUME ShellIInv, NEW line \in Input, Begin(line)
  PROVE  ShellIInv'
<1>1. line \in Word /\ Len(line) + 1 < SCRIPT_BUF_SIZE
  BY InputType
<1>2. Idle(sh)'
  <2>1. Idle(Fresh) /\ sh' = Fresh
    BY FreshIdle DEF ShellIInv, Begin
  <2>2. Idle(sh')
    BY <2>1
  <2> QED
    BY <2>2 DEF Idle, Sound
<1>3. /\ line[1] \in {"if", "while", "for"} /\ Len(line) >= 2
      /\ line[1] = "for" => Starts(line, "for")
      /\ Header(line) /\ ~Terminator(line)
  BY HeaderOf DEF Begin
<1>4. /\ script_collecting' = TRUE /\ looping' = looping /\ script_buf' = <<line>>
      /\ script_type' = line[1]
  BY DEF Begin
<1>5. script_var' \in Word /\ script_values' \in Seq(Word) /\ (PlainNames => Plain(script_var'))
  <2>1. CASE line[1] = "for"
    <3> DEFINE name  == Upto(line, 3, {" "})
               rest  == SubSeq(line, NonSpace(line, name), Len(line))
               words == Words(IF Starts(rest, "in") THEN Tail(rest) ELSE rest)
    <3>1. /\ script_var' = SubSeq(line, 3, name - 1)
          /\ script_values' = [i \in 1 .. Len(Cut(words, VALUES_MAX)) |-> Expand(sh.env, words[i])]
      BY <2>1 DEF Begin
    <3>2. sh.env \in Seq(Word)
      BY DEF ShellIInv, Idle, Sound, EnvHolds
    <3>3. script_var' \in Word /\ script_values' \in Seq(Word)
      BY <1>1, <1>3, <3>1, <3>2, ForHeader
    <3>4. PlainNames => Plain(SubSeq(line, 3, name - 1))
      BY <1>3, <2>1 DEF PlainNames
    <3> HIDE DEF name, rest, words
    <3> QED
      BY <3>1, <3>3, <3>4
  <2>2. CASE line[1] # "for"
    BY <2>2 DEF Begin, ShellIInv, Block
  <2> QED
    BY <2>1, <2>2
<1>6. ~looping /\ looping' = FALSE
  BY <1>4 DEF Begin, AtPrompt, ShellIInv, Block
<1>7. Used(script_buf)' < SCRIPT_BUF_SIZE
  <2>1. Used(<<line>>) < SCRIPT_BUF_SIZE
    BY <1>1, UsedOne
  <2>2. Used(script_buf') < SCRIPT_BUF_SIZE
    BY <1>4, <2>1
  <2> QED
    BY <2>2 DEF Used
<1>8. /\ script_buf' \in Seq(Input) /\ script_buf' # << >> /\ script_buf'[1] = line
      /\ Len(script_buf') = 1
  BY <1>4
<1>9. \A i \in 1 .. Len(script_buf') : ~Terminator(script_buf'[i])
  BY <1>3, <1>8
<1>10. Block'
  <2>1. Header(script_buf[1])'
    <3>1. Header(script_buf'[1])
      BY <1>3, <1>8
    <3> QED
      BY <3>1 DEF Header, Starts
  <2>2. (PlainNames => Plain(script_var))'
    BY <1>5 DEF PlainNames, Plain, Starts, Upto
  <2>3. (\A i \in 1 .. Len(script_buf) : ~Terminator(script_buf[i]))'
    BY <1>9 DEF Terminator
  <2> QED
    BY <1>3, <1>4, <1>5, <1>6, <1>7, <1>8, <2>1, <2>2, <2>3 DEF Block
<1> QED
  BY <1>2, <1>10 DEF ShellIInv

LEMMA CollectKeeps ==
  ASSUME ShellIInv, NEW line \in Input, Collect(line)
  PROVE  ShellIInv'
<1>1. Idle(sh)'
  <2>1. Idle(Fresh) /\ sh' = Fresh
    BY FreshIdle DEF ShellIInv, Collect
  <2>2. Idle(sh')
    BY <2>1
  <2> QED
    BY <2>2 DEF Idle, Sound
<1>2. Block
  BY DEF ShellIInv
<1>3. /\ Collected(line) \in Seq(Input)
      /\ Collected(line) = script_buf \/ Collected(line) = Append(script_buf, line)
      /\ Used(Collected(line)) < SCRIPT_BUF_SIZE
  BY <1>2, CollectedFacts
<1>4. /\ script_collecting /\ ~looping /\ ~Terminator(line)
      /\ script_buf' = Collected(line)
      /\ UNCHANGED <<script_collecting, script_type, script_var, script_values, looping>>
  BY DEF Collect, AtPrompt
<1>5. Used(script_buf)' < SCRIPT_BUF_SIZE
  <2>1. Used(script_buf') < SCRIPT_BUF_SIZE
    BY <1>3, <1>4
  <2> QED
    BY <2>1 DEF Used
<1>6. script_buf \in Seq(Input) /\ script_buf # << >> /\ \A i \in 1 .. Len(script_buf) : ~Terminator(script_buf[i])
  BY <1>2, <1>4 DEF Block
<1>7. /\ script_buf' # << >> /\ script_buf'[1] = script_buf[1] /\ script_buf' \in Seq(Input)
      /\ \A i \in 1 .. Len(script_buf') : ~Terminator(script_buf'[i])
  <2>1. CASE script_buf' = script_buf
    BY <1>6, <2>1
  <2>2. CASE script_buf' = Append(script_buf, line)
    <3>1. /\ Len(script_buf') = Len(script_buf) + 1 /\ Len(script_buf) \in Nat \ {0}
          /\ script_buf'[Len(script_buf) + 1] = line
          /\ \A i \in 1 .. Len(script_buf) : script_buf'[i] = script_buf[i]
      BY <1>6, <2>2
    <3>2. \A i \in 1 .. Len(script_buf') : i = Len(script_buf) + 1 \/ i \in 1 .. Len(script_buf)
      BY <3>1
    <3> QED
      BY <1>3, <1>4, <1>6, <3>1, <3>2
  <2> QED
    BY <1>3, <1>4, <2>1, <2>2
<1>8. Block'
  <2>1. Header(script_buf[1])'
    <3>1. Header(script_buf'[1])
      BY <1>2, <1>4, <1>7 DEF Block
    <3> QED
      BY <3>1 DEF Header, Starts
  <2>2. (PlainNames => Plain(script_var))'
    BY <1>2, <1>4 DEF Block, PlainNames, Plain, Starts, Upto
  <2>3. (\A i \in 1 .. Len(script_buf) : ~Terminator(script_buf[i]))'
    BY <1>7 DEF Terminator
  <2> QED
    BY <1>2, <1>4, <1>5, <1>7, <2>1, <2>2, <2>3 DEF Block
<1> QED
  BY <1>1, <1>8 DEF ShellIInv

LEMMA ForgottenHolds ==
  ASSUME Idle(sh'), Forget
  PROVE  ShellIInv'
<1>1. Idle(sh)'
  BY DEF Idle, Sound
<1>2. /\ script_collecting' = FALSE /\ looping' = FALSE
      /\ script_buf' = << >> /\ script_type' = "if"
      /\ script_var' = << >> /\ script_values' = << >>
  BY DEF Forget
<1>3. << >> \in Word /\ << >> \in Seq(Word) /\ << >> \in Seq(Input) /\ << >> \in Seq(Lexeme) /\ Len(<< >>) = 0
  BY DEF Word
<1>4. Used(script_buf)' < SCRIPT_BUF_SIZE
  <2>1. Used(<< >>) = 0
    BY <1>3, UsedOne
  <2>2. 0 < SCRIPT_BUF_SIZE
    BY ShellAssumption
  <2>3. Used(script_buf') < SCRIPT_BUF_SIZE
    BY <1>2, <2>1, <2>2
  <2> QED
    BY <2>3 DEF Used
<1>5. (PlainNames => Plain(script_var))'
  <2>1. Len(script_var') = 0
    BY <1>2, <1>3
  <2>2. Plain(script_var')
    BY <2>1 DEF Plain
  <2> QED
    BY <2>2 DEF Plain
<1>6. (\A i \in 1 .. Len(script_buf) : ~Terminator(script_buf[i]))'
  BY <1>2, <1>3
<1>7. script_buf' \in Seq(Input) /\ script_var' \in Word /\ script_values' \in Seq(Word)
  BY <1>2, <1>3
<1>8. Block'
  BY <1>2, <1>4, <1>5, <1>6, <1>7 DEF Block
<1> QED
  BY <1>1, <1>8 DEF ShellIInv

LEMMA BodyType ==
  ASSUME NEW block \in Seq(Word)
  PROVE  LoopBody(block) \in Seq(Word)
  BY DEF LoopBody

LEMMA FinishKeeps ==
  ASSUME ShellIInv, NEW line \in Input, Finish(line)
  PROVE  ShellIInv'
<1> DEFINE block == Lines(Collected(line))
<1>1. Idle(Fresh) /\ Block
  BY FreshIdle DEF ShellIInv
<1>2. block \in Seq(Word)
  <2>1. Collected(line) \in Seq(Word)
    BY <1>1, CollectedFacts, BlockOfWords
  <2>2. SCRIPT_MAX_LINES \in Nat
    BY ShellAssumption
  <2> QED
    BY <2>1, <2>2, CutType DEF Lines
<1>3. /\ sh' = IF Len(block) < 3 THEN Fresh
               ELSE IF script_type = "if" THEN IfBlock(Fresh, block)
               ELSE ForBlock(Fresh, block)
      /\ Forget
  BY DEF Finish
<1> HIDE DEF block
<1>4. ASSUME ~(Len(block) < 3) PROVE Idle(IfBlock(Fresh, block)) /\ Idle(ForBlock(Fresh, block))
  <2>1. Len(block) >= 1
    BY <1>2, <1>4
  <2>2. script_var \in Word /\ script_values \in Seq(Word) /\ (PlainNames => Plain(script_var))
    BY <1>1 DEF Block
  <2> QED
    BY <1>1, <1>2, <2>1, <2>2, IfBlockIdle, ForBlockIdle
<1>5. Idle(sh')
  BY <1>1, <1>3, <1>4
<1> QED
  BY <1>3, <1>5, ForgottenHolds

LEMMA BeginLoopKeeps ==
  ASSUME ShellIInv, NEW line \in Input, BeginLoop(line)
  PROVE  ShellIInv'
<1> DEFINE kept == Lines(Collected(line))
<1>1. Block
  BY DEF ShellIInv
<1>2. Idle(sh)'
  <2>1. Idle(Fresh) /\ sh' = Fresh
    BY FreshIdle DEF ShellIInv, BeginLoop
  <2>2. Idle(sh')
    BY <2>1
  <2> QED
    BY <2>2 DEF Idle, Sound
<1>3. /\ script_collecting = TRUE /\ looping' = TRUE /\ script_buf' = kept /\ Len(kept) >= 3
      /\ UNCHANGED <<script_collecting, script_type, script_var, script_values>>
  BY <1>1 DEF BeginLoop, Block
<1>4. script_buf \in Seq(Input) /\ script_buf # << >>
  BY <1>1, <1>3 DEF Block
<1>5. kept \in Seq(Input) /\ kept # << >> /\ kept[1] = script_buf[1] /\ Used(kept) < SCRIPT_BUF_SIZE
  <2> DEFINE all == Collected(line)
             k == IF Len(all) < SCRIPT_MAX_LINES THEN Len(all) ELSE SCRIPT_MAX_LINES
  <2>1. /\ all \in Seq(Input) /\ Used(kept) < SCRIPT_BUF_SIZE
        /\ all = script_buf \/ all = Append(script_buf, line)
    BY <1>1, CollectedFacts
  <2>2. all[1] = script_buf[1] /\ Len(all) >= 1 /\ Len(all) \in Nat
    <3> HIDE DEF all
    <3>1. CASE all = script_buf
      BY <1>4, <3>1
    <3>2. CASE all = Append(script_buf, line)
      BY <1>4, <3>2
    <3> QED
      BY <2>1, <3>1, <3>2
  <2>3. SCRIPT_MAX_LINES \in Nat \ {0}
    BY ShellAssumption
  <2>4. kept = SubSeq(all, 1, k)
    BY DEF Lines, Cut
  <2> HIDE DEF all, kept
  <2>5. k \in 1 .. Len(all)
    BY <2>2, <2>3
  <2> HIDE DEF k
  <2>6. kept \in Seq(Input) /\ Len(kept) = k /\ kept[1] = all[1]
    BY <2>1, <2>4, <2>5
  <2>7. kept # << >>
    BY <2>5, <2>6
  <2> QED
    BY <2>1, <2>2, <2>6, <2>7
<1> HIDE DEF kept
<1>6. Used(script_buf)' < SCRIPT_BUF_SIZE
  <2>1. Used(script_buf') < SCRIPT_BUF_SIZE
    BY <1>3, <1>5
  <2> QED
    BY <2>1 DEF Used
<1>7. Header(script_buf[1])'
  <2>1. Header(script_buf'[1])
    BY <1>1, <1>3, <1>5 DEF Block
  <2> QED
    BY <2>1 DEF Header, Starts
<1>8. (PlainNames => Plain(script_var))'
  BY <1>1, <1>3 DEF Block, PlainNames, Plain, Starts, Upto
<1>9. Block'
  BY <1>1, <1>3, <1>5, <1>6, <1>7, <1>8 DEF Block
<1> QED
  BY <1>2, <1>9 DEF ShellIInv

LEMMA LoopTestIdle ==
  ASSUME ShellIInv, looping
  PROVE  Idle(LoopTest.s)
<1>1. script_buf \in Seq(Word) /\ Len(script_buf) >= 3
  BY BlockOfWords DEF ShellIInv, Block
<1>2. script_buf[1] \in Word
  BY <1>1
<1>3. Condition(script_buf[1]) \in Word
  BY <1>2, ConditionType
<1>4. Idle(Fresh)
  BY FreshIdle DEF ShellIInv
<1> QED
  BY <1>3, <1>4, TestConditionIdle DEF LoopTest

LEMMA LoopPassKeeps ==
  ASSUME ShellIInv, LoopPass
  PROVE  ShellIInv'
<1>1. looping /\ sh' = AllLines(LoopTest.s, LoopBody(script_buf))
      /\ UNCHANGED <<script_collecting, script_type, script_buf, script_var, script_values, looping>>
  BY DEF LoopPass
<1>2. LoopBody(script_buf) \in Seq(Word)
  BY BlockOfWords, BodyType DEF ShellIInv, Block
<1>3. Idle(sh')
  BY <1>1, <1>2, LoopTestIdle, AllLinesIdle
<1>4. Idle(sh)'
  BY <1>3 DEF Idle, Sound
<1>5. Block'
  BY <1>1 DEF ShellIInv, Block, Used
<1> QED
  BY <1>4, <1>5 DEF ShellIInv

LEMMA EndLoopKeeps ==
  ASSUME ShellIInv, EndLoop
  PROVE  ShellIInv'
<1>1. looping /\ sh' = LoopTest.s /\ Forget
  BY DEF EndLoop
<1>2. Idle(sh')
  BY <1>1, LoopTestIdle
<1> QED
  BY <1>1, <1>2, ForgottenHolds

LEMMA ShellStarts == ShInit => ShellIInv
<1> SUFFICES ASSUME ShInit PROVE ShellIInv
  OBVIOUS
<1> DEFINE user == <<"USER", "=", "redlion">>
           host == <<"HOSTNAME", "=", "redlion">>
           env == <<user, host>>
<1>1. /\ DOMAIN sh = Fields /\ sh.env = env /\ sh.target = "FB" /\ sh.active = FALSE /\ sh.pipe = << >>
  BY DEF ShInit, Fields
<1>2. user \in Word /\ host \in Word
  BY ShellAssumption DEF Word
<1>3. Named(user) /\ Named(host)
  <2>1. 2 \in 1 .. Len(user) /\ user[2] = "=" /\ 2 \in 1 .. Len(host) /\ host[2] = "="
    OBVIOUS
  <2> HIDE DEF user, host
  <2> QED
    BY <2>1 DEF Named
<1>4. NameOf(user) # NameOf(host)
  <2>1. /\ Plain(<<"USER">>) /\ <<"USER">> \in Word
        /\ Plain(<<"HOSTNAME">>) /\ <<"HOSTNAME">> \in Word /\ <<"redlion">> \in Word
    BY ShellAssumption DEF Plain, Word
  <2>2. user = <<"USER">> \o <<"=">> \o <<"redlion">> /\ host = <<"HOSTNAME">> \o <<"=">> \o <<"redlion">>
    OBVIOUS
  <2> HIDE DEF user, host
  <2>3. NameOf(user) = <<"USER">> /\ NameOf(host) = <<"HOSTNAME">>
    BY <2>1, <2>2, NewEntry
  <2> QED
    BY <2>3
<1>5. /\ env \in Seq(Word) /\ Len(env) = 2 /\ env[1] = user /\ env[2] = host
  BY <1>2
<1>6. 2 <= ENV_MAX
  BY ShellAssumption
<1> HIDE DEF user, host, env
<1>7. \A i \in 1 .. Len(env) : i = 1 \/ i = 2
  BY <1>5
<1>8. OneEach(env)
  <2>1. NameOf(env[1]) # NameOf(env[2])
    BY <1>4, <1>5
  <2> QED
    BY <1>7, <2>1 DEF OneEach
<1>9. EnvHolds(env)
  <2>1. \A i \in 1 .. Len(env) : Named(env[i])
    BY <1>3, <1>5, <1>7
  <2>2. Len(env) <= ENV_MAX
    BY <1>5, <1>6
  <2> QED
    BY <1>5, <1>8, <2>1, <2>2 DEF EnvHolds
<1>10. Idle(sh)
  BY <1>1, <1>9 DEF Idle, Sound
<1>11. << >> \in Word /\ << >> \in Seq(Word) /\ << >> \in Seq(Input) /\ << >> \in Seq(Lexeme) /\ Len(<< >>) = 0
  BY DEF Word
<1>12. Used(script_buf) < SCRIPT_BUF_SIZE
  <2>1. Used(<< >>) = 0
    BY <1>11, UsedOne
  <2>2. 0 < SCRIPT_BUF_SIZE /\ script_buf = << >>
    BY ShellAssumption DEF ShInit
  <2> QED
    BY <2>1, <2>2
<1>13. Plain(script_var)
  <2>1. Len(script_var) = 0
    BY <1>11 DEF ShInit
  <2> QED
    BY <2>1 DEF Plain
<1>14. \A i \in 1 .. Len(script_buf) : ~Terminator(script_buf[i])
  BY <1>11 DEF ShInit
<1>15. Block
  BY <1>11, <1>12, <1>13, <1>14 DEF ShInit, Block
<1> QED
  BY <1>10, <1>15 DEF ShellIInv

LEMMA ShellKeeps == ShellIInv /\ [ShNext]_sh_vars => ShellIInv'
<1> SUFFICES ASSUME ShellIInv, [ShNext]_sh_vars PROVE ShellIInv'
  OBVIOUS
<1>1. ASSUME NEW line \in Input, Execute(line) PROVE ShellIInv'
  BY <1>1, ExecuteKeeps
<1>2. ASSUME NEW line \in Input, Begin(line) PROVE ShellIInv'
  BY <1>2, BeginKeeps
<1>3. ASSUME NEW line \in Input, Collect(line) PROVE ShellIInv'
  BY <1>3, CollectKeeps
<1>4. ASSUME NEW line \in Input, Finish(line) PROVE ShellIInv'
  BY <1>4, FinishKeeps
<1>5. ASSUME NEW line \in Input, BeginLoop(line) PROVE ShellIInv'
  BY <1>5, BeginLoopKeeps
<1>6. CASE LoopPass
  BY <1>6, LoopPassKeeps
<1>7. CASE EndLoop
  BY <1>7, EndLoopKeeps
<1>8. CASE UNCHANGED sh_vars
  <2>1. Idle(sh)' /\ Block'
    BY <1>8 DEF sh_vars, ShellIInv, Idle, Sound, Block, Used
  <2> QED
    BY <2>1 DEF ShellIInv
<1> QED
  BY <1>1, <1>2, <1>3, <1>4, <1>5, <1>6, <1>7, <1>8 DEF ShNext

LEMMA ShellHolds == ShSpec => []ShellIInv
  BY ShellStarts, ShellKeeps, PTL DEF ShSpec

(* Between two lines output goes to the screen, with no pipe open and      *)
(* nothing left in its buffer, and a block is collected within its buffer  *)
(* from its header on: whatever redirections, pipes and failures the lines *)
(* had, and however a block was cut (shell.c:1049, 1194, 1493).            *)
THEOREM LinesLeaveNothing == ShSpec => [](ShTypeOK /\ StreamsOK /\ ScriptOK)
<1>1. ShellIInv => ShTypeOK /\ StreamsOK /\ ScriptOK
  BY DEF ShellIInv, Idle, Sound, Fields, Block, ShTypeOK, StreamsOK, ScriptOK
<1> QED
  BY <1>1, ShellHolds, PTL

(* A variable has one entry in a table that never overflows, next to what  *)
(* LinesLeaveNothing says, if no for block names a variable with a = in it:*)
(* a block that starts with `for a=b' adds a second entry for a            *)
(* (shell.c:98).                                                           *)
THEOREM ShellKeepsItsState == ASSUME PlainNames PROVE ShSpec => []ShellInv
<1>1. ShellIInv => ShellInv
  BY DEF ShellIInv, Idle, Sound, EnvHolds, OneEach, Fields, Block,
         ShellInv, ShTypeOK, EnvOK, StreamsOK, ScriptOK
<1> QED
  BY <1>1, ShellHolds, PTL

-----------------------------------------------------------------------------
LEMMA NoLines ==
  ASSUME NEW s, NEW lines, Len(lines) = 0
  PROVE  AllLines(s, lines) = s
<1>1. PICK f : f[0] = s /\ AllLines(s, lines) = f[Len(lines)]
  BY LineSteps
<1> QED
  BY <1>1

(* f is what the lines make of s, after each of them.                      *)
Passes(f, s, lines) ==
  /\ f[0] = s
  /\ \A i \in 1 .. Len(lines) : f[i] = ScriptLine(f[i - 1], lines[i])
  /\ AllLines(s, lines) = f[Len(lines)]

LEMMA LinePasses ==
  ASSUME NEW s, NEW lines, Len(lines) \in Nat
  PROVE  \E f : Passes(f, s, lines)
  BY LineSteps DEF Passes

LEMMA OneMoreLine ==
  ASSUME NEW s, NEW lines, NEW more, Len(lines) \in Nat, Len(more) = Len(lines) + 1,
         \A i \in 1 .. Len(lines) : more[i] = lines[i]
  PROVE  AllLines(s, more) = ScriptLine(AllLines(s, lines), more[Len(lines) + 1])
<1> DEFINE N == Len(lines)
<1>1. N \in Nat /\ Len(more) \in Nat /\ Len(more) = N + 1
  OBVIOUS
<1>2. PICK f : /\ f[0] = s
               /\ \A i \in 1 .. N : f[i] = ScriptLine(f[i - 1], lines[i])
               /\ AllLines(s, lines) = f[N]
  BY <1>1, LineSteps
<1>3. PICK g : /\ g[0] = s
               /\ \A i \in 1 .. Len(more) : g[i] = ScriptLine(g[i - 1], more[i])
               /\ AllLines(s, more) = g[Len(more)]
  <2>1. Len(more) \in Nat
    BY <1>1
  <2>2. \E g : Passes(g, s, more)
    BY <2>1, LinePasses
  <2> QED
    BY <2>2 DEF Passes
<1> DEFINE S == {i \in 0 .. N : g[i] = f[i]}
<1>4. 0 \in S
  BY <1>1, <1>2, <1>3
<1>5. ASSUME NEW i \in 0 .. N, i \in S, i < N
      PROVE  i + 1 \in S
  <2>1. i + 1 \in 1 .. N /\ i + 1 \in 1 .. Len(more) /\ i + 1 - 1 = i
    BY <1>1, <1>5
  <2>2. f[i + 1] = ScriptLine(f[i], lines[i + 1])
    BY <1>2, <2>1
  <2>3. g[i + 1] = ScriptLine(g[i], more[i + 1])
    BY <1>3, <2>1
  <2>4. more[i + 1] = lines[i + 1] /\ g[i] = f[i]
    BY <1>5, <2>1
  <2>5. g[i + 1] = f[i + 1]
    BY <2>2, <2>3, <2>4
  <2> QED
    BY <2>1, <2>5
<1>6. 0 .. N \subseteq S
  <2> HIDE DEF S, N
  <2> QED
    BY <1>1, <1>4, <1>5, UpTo
<1>7. g[N] = f[N]
  BY <1>1, <1>6
<1>8. g[N + 1] = ScriptLine(g[N], more[N + 1])
  <2>1. N + 1 \in 1 .. Len(more) /\ N + 1 - 1 = N
    BY <1>1
  <2> QED
    BY <1>3, <2>1
<1> QED
  BY <1>1, <1>2, <1>3, <1>7, <1>8

LEMMA PartOfLines ==
  ASSUME NEW X, NEW q \in Seq(X), NEW a \in 1 .. Len(q), NEW b \in Nat, b + 1 <= Len(q), a <= b + 1, NEW s
  PROVE  AllLines(s, SubSeq(q, a, b + 1)) = ScriptLine(AllLines(s, SubSeq(q, a, b)), q[b + 1])
<1> DEFINE lines == SubSeq(q, a, b)
           more == SubSeq(q, a, b + 1)
           n == (b - a) + 1
<1>1. n \in Nat /\ Len(q) \in Nat /\ a \in Nat
  OBVIOUS
<1>2. Len(lines) = n /\ \A i \in 1 .. n : lines[i] = q[a + i - 1]
  BY <1>1
<1>3. Len(more) = n + 1 /\ \A i \in 1 .. n + 1 : more[i] = q[a + i - 1]
  BY <1>1
<1> HIDE DEF lines, more
<1>4. \A i \in 1 .. n : more[i] = lines[i]
  <2> HIDE DEF n
  <2> SUFFICES ASSUME NEW i \in 1 .. n PROVE more[i] = lines[i]
    OBVIOUS
  <2>1. i \in 1 .. n + 1
    BY <1>1
  <2>2. more[i] = q[a + i - 1] /\ lines[i] = q[a + i - 1]
    BY <1>2, <1>3, <2>1
  <2> QED
    BY <2>2
<1>5. more[n + 1] = q[b + 1]
  <2>1. a + (n + 1) - 1 = b + 1 /\ n + 1 \in 1 .. n + 1
    BY <1>1
  <2> QED
    BY <1>3, <2>1
<1>6. AllLines(s, more) = ScriptLine(AllLines(s, lines), more[n + 1])
  <2> HIDE DEF n
  <2> QED
    BY SMTT(20), <1>1, <1>2, <1>3, <1>4, OneMoreLine
<1> QED
  BY <1>5, <1>6 DEF lines, more

IfState(s, exec, done) == [s |-> s, exec |-> exec, done |-> done]

Skipping(s) == IfState(s, FALSE, FALSE)
Executing(s) == IfState(s, TRUE, FALSE)

LEMMA BodyLine ==
  ASSUME NEW s, NEW text, text \notin {<<"then">>, <<"else">>, <<"fi">>}, NEW find
  PROVE  /\ IfLine(Executing(s), text, find) = Executing(ScriptLine(s, text))
         /\ IfLine(Skipping(s), text, find) = Skipping(s)
  BY DEF IfLine, IfState, Skipping, Executing

LEMMA Excepted ==
  ASSUME NEW s
  PROVE  /\ [IfState(s, FALSE, FALSE) EXCEPT !.exec = TRUE] = IfState(s, TRUE, FALSE)
         /\ [IfState(s, FALSE, FALSE) EXCEPT !.exec = FALSE] = IfState(s, FALSE, FALSE)
         /\ [IfState(s, TRUE, FALSE) EXCEPT !.exec = FALSE] = IfState(s, FALSE, FALSE)
         /\ [IfState(s, TRUE, FALSE) EXCEPT !.done = TRUE] = IfState(s, TRUE, TRUE)
         /\ [IfState(s, FALSE, FALSE) EXCEPT !.done = TRUE] = IfState(s, FALSE, TRUE)
<1> DEFINE r1 == [IfState(s, FALSE, FALSE) EXCEPT !.exec = TRUE]
           r2 == [IfState(s, FALSE, FALSE) EXCEPT !.exec = FALSE]
           r3 == [IfState(s, TRUE, FALSE) EXCEPT !.exec = FALSE]
           r4 == [IfState(s, TRUE, FALSE) EXCEPT !.done = TRUE]
           r5 == [IfState(s, FALSE, FALSE) EXCEPT !.done = TRUE]
<1>1. r1 = [f \in {"s", "exec", "done"} |-> r1[f]] /\ r1.s = s /\ r1.exec = TRUE /\ r1.done = FALSE
  BY DEF IfState
<1>2. r2 = [f \in {"s", "exec", "done"} |-> r2[f]] /\ r2.s = s /\ r2.exec = FALSE /\ r2.done = FALSE
  BY DEF IfState
<1>3. r3 = [f \in {"s", "exec", "done"} |-> r3[f]] /\ r3.s = s /\ r3.exec = FALSE /\ r3.done = FALSE
  BY DEF IfState
<1>4. r4 = [f \in {"s", "exec", "done"} |-> r4[f]] /\ r4.s = s /\ r4.exec = TRUE /\ r4.done = TRUE
  BY DEF IfState
<1>5. r5 = [f \in {"s", "exec", "done"} |-> r5[f]] /\ r5.s = s /\ r5.exec = FALSE /\ r5.done = TRUE
  BY DEF IfState
<1> HIDE DEF r1, r2, r3, r4, r5
<1>6. r1 = IfState(s, TRUE, FALSE)
  <2>1. r1 = [s |-> r1.s, exec |-> r1.exec, done |-> r1.done]
    BY <1>1
  <2> QED
    BY <1>1, <2>1 DEF IfState
<1>7. r2 = IfState(s, FALSE, FALSE)
  <2>1. r2 = [s |-> r2.s, exec |-> r2.exec, done |-> r2.done]
    BY <1>2
  <2> QED
    BY <1>2, <2>1 DEF IfState
<1>8. r3 = IfState(s, FALSE, FALSE)
  <2>1. r3 = [s |-> r3.s, exec |-> r3.exec, done |-> r3.done]
    BY <1>3
  <2> QED
    BY <1>3, <2>1 DEF IfState
<1>9. r4 = IfState(s, TRUE, TRUE)
  <2>1. r4 = [s |-> r4.s, exec |-> r4.exec, done |-> r4.done]
    BY <1>4
  <2> QED
    BY <1>4, <2>1 DEF IfState
<1>10. r5 = IfState(s, FALSE, TRUE)
  <2>1. r5 = [s |-> r5.s, exec |-> r5.exec, done |-> r5.done]
    BY <1>5
  <2> QED
    BY <1>5, <2>1 DEF IfState
<1> QED
  BY <1>6, <1>7, <1>8, <1>9, <1>10 DEF r1, r2, r3, r4, r5

LEMMA MarkLine ==
  ASSUME NEW s
  PROVE  /\ IfLine(IfState(s, FALSE, FALSE), <<"then">>, TRUE) = IfState(s, TRUE, FALSE)
         /\ IfLine(IfState(s, FALSE, FALSE), <<"then">>, FALSE) = IfState(s, FALSE, FALSE)
         /\ IfLine(IfState(s, TRUE, FALSE), <<"else">>, TRUE) = IfState(s, FALSE, FALSE)
         /\ IfLine(IfState(s, FALSE, FALSE), <<"else">>, FALSE) = IfState(s, TRUE, FALSE)
<1>1. <<"then">> # <<"else">> /\ <<"then">> # <<"fi">> /\ <<"else">> # <<"fi">>
  OBVIOUS
<1> DEFINE no == IfState(s, FALSE, FALSE)
           yes == IfState(s, TRUE, FALSE)
<1>2. no.done = FALSE /\ yes.done = FALSE
  BY DEF IfState
<1>3. /\ [no EXCEPT !.exec = TRUE] = yes /\ [no EXCEPT !.exec = FALSE] = no
      /\ [yes EXCEPT !.exec = FALSE] = no
  BY Excepted
<1>4. no.exec = FALSE /\ yes.exec = TRUE
  BY DEF IfState
<1> HIDE DEF no, yes
<1>5. IfLine(no, <<"then">>, TRUE) = [no EXCEPT !.exec = TRUE]
  BY <1>1, <1>2, <1>4 DEF IfLine, Marked
<1>6. IfLine(no, <<"then">>, FALSE) = [no EXCEPT !.exec = FALSE]
  BY <1>1, <1>2, <1>4 DEF IfLine, Marked
<1>7. IfLine(yes, <<"else">>, TRUE) = [yes EXCEPT !.exec = FALSE]
  BY <1>1, <1>2, <1>4 DEF IfLine, Marked
<1>8. IfLine(no, <<"else">>, FALSE) = [no EXCEPT !.exec = TRUE]
  BY <1>1, <1>2, <1>4 DEF IfLine, Marked
<1> QED
  BY <1>3, <1>5, <1>6, <1>7, <1>8 DEF no, yes

LEMMA MarkedLine ==
  ASSUME NEW s, NEW find
  PROVE  /\ find = TRUE => IfLine(Skipping(s), <<"then">>, find) = Executing(s)
         /\ find = FALSE => IfLine(Skipping(s), <<"then">>, find) = Skipping(s)
         /\ find = TRUE => IfLine(Executing(s), <<"else">>, find) = Skipping(s)
         /\ find = FALSE => IfLine(Skipping(s), <<"else">>, find) = Executing(s)
  BY MarkLine DEF Skipping, Executing

LEMMA EndLine ==
  ASSUME NEW s, NEW find
  PROVE  /\ IfLine(Executing(s), <<"fi">>, find) = IfState(s, TRUE, TRUE)
         /\ IfLine(Skipping(s), <<"fi">>, find) = IfState(s, FALSE, TRUE)
<1>1. <<"then">> # <<"else">> /\ <<"then">> # <<"fi">> /\ <<"else">> # <<"fi">>
  OBVIOUS
<1> DEFINE no == Skipping(s)
           yes == Executing(s)
<1>2. no.done = FALSE /\ yes.done = FALSE
  BY DEF IfState, Skipping, Executing
<1>3. [no EXCEPT !.done = TRUE] = IfState(s, FALSE, TRUE) /\ [yes EXCEPT !.done = TRUE] = IfState(s, TRUE, TRUE)
  BY Excepted DEF Skipping, Executing
<1> HIDE DEF no, yes
<1>4. IfLine(no, <<"fi">>, find) = [no EXCEPT !.done = TRUE] /\ IfLine(yes, <<"fi">>, find) = [yes EXCEPT !.done = TRUE]
  BY <1>1, <1>2 DEF IfLine
<1> QED
  BY <1>3, <1>4 DEF no, yes

LEMMA UpFrom ==
  ASSUME NEW a \in Nat, NEW b \in Nat, NEW S, a \in S, \A n \in a .. b : n \in S /\ n < b => n + 1 \in S
  PROVE  a .. b \subseteq S
<1> DEFINE Left == {n \in a .. b : n \notin S}
<1>1. SUFFICES ASSUME Left # {} PROVE FALSE
  OBVIOUS
<1>2. PICK x \in Left : \A y \in Left : x <= y
  <2>1. Left \subseteq Nat
    OBVIOUS
  <2> HIDE DEF Left
  <2> QED
    BY <1>1, <2>1, Least
<1>3. x \in a + 1 .. b
  OBVIOUS
<1>4. x - 1 \in S
  BY <1>2, <1>3
<1>5. x - 1 \in a .. b /\ x - 1 < b /\ (x - 1) + 1 = x
  BY <1>3
<1> QED
  BY <1>2, <1>4, <1>5

Mark == {<<"then">>, <<"else">>, <<"fi">>}

(* g[j] is the state behind line j of a block.                             *)
Follows(g, q, find) == \A j \in 2 .. Len(q) : g[j] = IfLine(g[j - 1], q[j], find)

NoMark(q, a, b) == \A j \in a + 1 .. b : q[j] \notin Mark

(* The condition holds, or does not.                                       *)
Granted(find) == find = TRUE
Denied(find) == find = FALSE

(* Lines a + 1 to b hold no mark.                                          *)
Section(q, a, b) ==
  /\ a \in Nat \ {0} /\ b \in Nat /\ a <= b /\ b <= Len(q)
  /\ NoMark(q, a, b)

LEMMA NextLine ==
  ASSUME NEW X, NEW q \in Seq(X), NEW g, NEW find, Follows(g, q, find),
         NEW n \in Nat \ {0}, n < Len(q)
  PROVE  g[n + 1] = IfLine(g[n], q[n + 1], find)
<1>1. n + 1 \in 2 .. Len(q) /\ n + 1 - 1 = n
  OBVIOUS
<1>2. g[n + 1] = IfLine(g[n + 1 - 1], q[n + 1], find)
  BY <1>1 DEF Follows
<1> QED
  BY <1>1, <1>2

LEMMA SkippedLines ==
  ASSUME NEW X, NEW q \in Seq(X), NEW g, NEW find, Follows(g, q, find),
         NEW a, NEW b, Section(q, a, b), NEW c, g[a] = Skipping(c)
  PROVE  g[b] = Skipping(c)
<1> DEFINE no == Skipping(c)
           S == {j \in a .. b : g[j] = no}
<1>0. a \in Nat \ {0} /\ b \in Nat /\ a <= b /\ b <= Len(q) /\ NoMark(q, a, b) /\ Len(q) \in Nat
  BY DEF Section
<1>1. a \in S
  <2> HIDE DEF no
  <2>1. a \in a .. b
    BY <1>0
  <2> QED
    BY <2>1 DEF no
<1>2. ASSUME NEW n \in a .. b, n \in S, n < b
      PROVE  n + 1 \in S
  <2>1. n + 1 \in a + 1 .. b /\ n + 1 \in a .. b /\ n \in Nat \ {0} /\ n < Len(q)
    BY <1>0, <1>2
  <2>2. g[n + 1] = IfLine(g[n], q[n + 1], find)
    BY <2>1, NextLine
  <2>3. q[n + 1] \notin {<<"then">>, <<"else">>, <<"fi">>} /\ g[n] = no
    BY <1>0, <1>2, <2>1 DEF NoMark, Mark
  <2>4. IfLine(no, q[n + 1], find) = no
    BY <2>3, BodyLine
  <2> HIDE DEF no
  <2> QED
    BY <2>1, <2>2, <2>3, <2>4
<1>3. a .. b \subseteq S
  <2> HIDE DEF S
  <2> QED
    BY <1>0, <1>1, <1>2, UpFrom
<1>4. b \in a .. b
  BY <1>0
<1> QED
  BY <1>3, <1>4

LEMMA ExecutedLines ==
  ASSUME NEW X, NEW q \in Seq(X), NEW g, NEW find, Follows(g, q, find),
         NEW a, NEW b, Section(q, a, b), NEW c, g[a] = Executing(c)
  PROVE  g[b] = Executing(AllLines(c, SubSeq(q, a + 1, b)))
<1> DEFINE part(j) == AllLines(c, SubSeq(q, a + 1, j))
           yes(j) == Executing(part(j))
           S == {j \in a .. b : g[j] = yes(j)}
<1>0. a \in Nat \ {0} /\ b \in Nat /\ a <= b /\ b <= Len(q) /\ NoMark(q, a, b) /\ Len(q) \in Nat
  BY DEF Section
<1>1. a \in S
  <2> DEFINE none == SubSeq(q, a + 1, a)
  <2>1. Len(none) = 0 /\ a \in a .. b
    BY <1>0
  <2> HIDE DEF none
  <2>2. AllLines(c, none) = c
    BY <2>1, NoLines
  <2>3. part(a) = c
    BY <2>2 DEF none
  <2> HIDE DEF part
  <2> QED
    BY <2>1, <2>3
<1>2. ASSUME NEW n \in a .. b, n \in S, n < b
      PROVE  n + 1 \in S
  <2>1. n + 1 \in a + 1 .. b /\ n + 1 \in a .. b /\ n \in Nat \ {0} /\ n < Len(q)
    BY <1>0, <1>2
  <2>2. g[n + 1] = IfLine(g[n], q[n + 1], find)
    BY <2>1, NextLine
  <2>3. q[n + 1] \notin {<<"then">>, <<"else">>, <<"fi">>} /\ g[n] = Executing(part(n))
    BY <1>0, <1>2, <2>1 DEF NoMark, Mark
  <2>4. part(n + 1) = ScriptLine(part(n), q[n + 1])
    <3>1. a + 1 \in 1 .. Len(q) /\ n \in Nat /\ n + 1 <= Len(q) /\ a + 1 <= n + 1
      BY <1>0, <1>2, <2>1
    <3> QED
      BY <3>1, PartOfLines
  <2> HIDE DEF part
  <2>5. IfLine(Executing(part(n)), q[n + 1], find) = Executing(ScriptLine(part(n), q[n + 1]))
    BY <2>3, BodyLine
  <2>6. g[n + 1] = Executing(part(n + 1))
    BY <2>2, <2>3, <2>4, <2>5
  <2> QED
    BY <2>1, <2>6
<1>3. a .. b \subseteq S
  <2> HIDE DEF S
  <2> QED
    BY <1>0, <1>1, <1>2, UpFrom
<1>4. b \in a .. b
  BY <1>0
<1> QED
  BY <1>3, <1>4

(* A block with a `then' at t, an `else' at e and no other mark.           *)
Split(q, t, e) ==
  /\ t \in 2 .. Len(q) /\ e \in 2 .. Len(q) /\ t < e
  /\ q[t] = <<"then">> /\ q[e] = <<"else">>
  /\ \A i \in 2 .. Len(q) : i = t \/ i = e \/ q[i] \notin Mark

LEMMA SplitFacts ==
  ASSUME NEW X, NEW q \in Seq(X), NEW t, NEW e, Split(q, t, e)
  PROVE  \E u, w : /\ u \in Nat \ {0} /\ u < Len(q) /\ u + 1 = t
                   /\ w \in Nat \ {0} /\ w < Len(q) /\ w + 1 = e /\ w = e - 1
                   /\ q[t] = <<"then">> /\ q[e] = <<"else">>
                   /\ Section(q, 1, u) /\ Section(q, t, w) /\ Section(q, e, Len(q))
<1>1. Len(q) \in Nat
  OBVIOUS
<1> DEFINE L == Len(q)
           u == t - 1
           w == e - 1
<1> HIDE DEF L
<1>2. /\ t \in Nat /\ e \in Nat /\ L \in Nat /\ 2 <= t /\ t < e /\ e <= L
      /\ \A i \in 2 .. L : i = t \/ i = e \/ q[i] \notin Mark
  <2>1. L \in Nat /\ L = Len(q)
    BY <1>1 DEF L
  <2> QED
    BY <2>1 DEF Split
<1>3. /\ u \in Nat \ {0} /\ w \in Nat \ {0} /\ t \in Nat \ {0} /\ e \in Nat \ {0}
      /\ 1 <= u /\ u < L /\ u <= L /\ u + 1 = t
      /\ t <= w /\ w < L /\ w <= L /\ w + 1 = e
      /\ L <= L
  BY <1>2
<1>4. \A j \in 1 + 1 .. u : j \in 2 .. L /\ j # t /\ j # e
  BY <1>2
<1>5. \A j \in t + 1 .. w : j \in 2 .. L /\ j # t /\ j # e
  BY <1>2
<1>6. \A j \in e + 1 .. L : j \in 2 .. L /\ j # t /\ j # e
  BY <1>2
<1>7. NoMark(q, 1, u)
  BY <1>2, <1>4 DEF NoMark
<1>8. NoMark(q, t, w)
  BY <1>2, <1>5 DEF NoMark
<1>9. NoMark(q, e, L)
  BY <1>2, <1>6 DEF NoMark
<1> HIDE DEF u, w
<1>10. 1 \in Nat \ {0}
  OBVIOUS
<1>11. Section(q, 1, u) /\ Section(q, t, w) /\ Section(q, e, L)
  BY <1>2, <1>3, <1>7, <1>8, <1>9, <1>10 DEF Section, L
<1>12. w = e - 1
  BY DEF w
<1>13. q[t] = <<"then">> /\ q[e] = <<"else">>
  BY DEF Split
<1> QED
  BY <1>3, <1>11, <1>12, <1>13 DEF L

(* If the condition holds, the lines between `then' and `else' are executed. *)
LEMMA ThenBranch ==
  ASSUME NEW X, NEW q \in Seq(X), NEW t, NEW e, Split(q, t, e), NEW c, NEW g, NEW find, Granted(find),
         g[1] = Skipping(c), Follows(g, q, find)
  PROVE  g[Len(q)] = Skipping(AllLines(c, SubSeq(q, t + 1, e - 1)))
<1>1. PICK u, w : /\ u \in Nat \ {0} /\ u < Len(q) /\ u + 1 = t
                  /\ w \in Nat \ {0} /\ w < Len(q) /\ w + 1 = e /\ w = e - 1
                  /\ q[t] = <<"then">> /\ q[e] = <<"else">>
                  /\ Section(q, 1, u) /\ Section(q, t, w) /\ Section(q, e, Len(q))
  BY SplitFacts
<1> DEFINE part == AllLines(c, SubSeq(q, t + 1, w))
<1>2. part = AllLines(c, SubSeq(q, t + 1, e - 1))
  BY <1>1
<1> HIDE DEF part
<1>3. g[u] = Skipping(c)
  BY <1>1, SkippedLines
<1>4. g[t] = Executing(c)
  <2>1. g[u + 1] = IfLine(g[u], q[u + 1], find)
    BY <1>1, NextLine
  <2>2. g[t] = IfLine(Skipping(c), <<"then">>, find)
    BY <1>1, <1>3, <2>1
  <2> QED
    BY <2>2, MarkedLine DEF Granted
<1>5. g[w] = Executing(part)
  BY <1>1, <1>4, ExecutedLines DEF part
<1>6. g[e] = Skipping(part)
  <2>1. g[w + 1] = IfLine(g[w], q[w + 1], find)
    BY <1>1, NextLine
  <2>2. g[e] = IfLine(Executing(part), <<"else">>, find)
    BY <1>1, <1>5, <2>1
  <2> QED
    BY <2>2, MarkedLine DEF Granted
<1>7. g[Len(q)] = Skipping(part)
  BY <1>1, <1>6, SkippedLines
<1> QED
  BY <1>2, <1>7

(* If it does not, those behind `else' are.                                 *)
LEMMA ElseBranch ==
  ASSUME NEW X, NEW q \in Seq(X), NEW t, NEW e, Split(q, t, e), NEW c, NEW g, NEW find, Denied(find),
         g[1] = Skipping(c), Follows(g, q, find)
  PROVE  g[Len(q)] = Executing(AllLines(c, SubSeq(q, e + 1, Len(q))))
<1>1. PICK u, w : /\ u \in Nat \ {0} /\ u < Len(q) /\ u + 1 = t
                  /\ w \in Nat \ {0} /\ w < Len(q) /\ w + 1 = e /\ w = e - 1
                  /\ q[t] = <<"then">> /\ q[e] = <<"else">>
                  /\ Section(q, 1, u) /\ Section(q, t, w) /\ Section(q, e, Len(q))
  BY SplitFacts
<1>3. g[u] = Skipping(c)
  BY <1>1, SkippedLines
<1>4. g[t] = Skipping(c)
  <2>1. g[u + 1] = IfLine(g[u], q[u + 1], find)
    BY <1>1, NextLine
  <2>2. g[t] = IfLine(Skipping(c), <<"then">>, find)
    BY <1>1, <1>3, <2>1
  <2> QED
    BY <2>2, MarkedLine DEF Denied
<1>5. g[w] = Skipping(c)
  BY <1>1, <1>4, SkippedLines
<1>6. g[e] = Executing(c)
  <2>1. g[w + 1] = IfLine(g[w], q[w + 1], find)
    BY <1>1, NextLine
  <2>2. g[e] = IfLine(Skipping(c), <<"else">>, find)
    BY <1>1, <1>5, <2>1
  <2> QED
    BY <2>2, MarkedLine DEF Denied
<1> QED
  BY <1>1, <1>6, ExecutedLines

(* The states of an if block, numbered by its lines.                       *)
LEMMA BlockFollows ==
  ASSUME NEW X, NEW block \in Seq(X), block # << >>, NEW s, NEW cond, cond = TestCondition(s, Condition(block[1])),
         NEW find, find = (cond.r = 0)
  PROVE  \E g : /\ g[1] = Skipping(cond.s)
                /\ Follows(g, block, find)
                /\ IfBlock(s, block) = g[Len(block)].s
<1> DEFINE L == Len(block)
<1>1. L \in Nat \ {0} /\ Len(block) \in Nat \ {0}
  OBVIOUS
<1>2. PICK f : /\ f[0] = [s |-> TestCondition(s, Condition(block[1])).s, exec |-> FALSE, done |-> FALSE]
               /\ \A i \in 1 .. Len(block) - 1 : f[i] = IfLine(f[i - 1], block[i + 1], TestCondition(s, Condition(block[1])).r = 0)
               /\ IfBlock(s, block) = f[Len(block) - 1].s
  BY <1>1, IfSteps
<1>3. /\ f[0] = Skipping(cond.s)
      /\ \A i \in 1 .. L - 1 : f[i] = IfLine(f[i - 1], block[i + 1], find)
  BY <1>2 DEF Skipping, IfState
<1>4. IfBlock(s, block) = f[L - 1].s
  BY <1>2
<1> HIDE DEF L
<1> DEFINE g == [j \in 1 .. L |-> f[j - 1]]
<1>5. g[1] = f[0] /\ g[L] = f[L - 1]
  BY <1>1
<1>6. ASSUME NEW j \in 2 .. L
      PROVE  g[j] = IfLine(g[j - 1], block[j], find)
  <2>1. j - 1 \in 1 .. L - 1 /\ j \in 1 .. L /\ j - 1 \in 1 .. L /\ (j - 1) + 1 = j
    BY <1>1
  <2>2. f[j - 1] = IfLine(f[(j - 1) - 1], block[(j - 1) + 1], find)
    BY <1>3, <2>1
  <2>3. g[j] = f[j - 1] /\ g[j - 1] = f[(j - 1) - 1] /\ block[(j - 1) + 1] = block[j]
    BY <2>1
  <2> HIDE DEF g
  <2> QED
    BY <2>2, <2>3
<1> HIDE DEF g
<1>7. Follows(g, block, find)
  BY <1>6 DEF Follows, L
<1> QED
  BY <1>3, <1>4, <1>5, <1>7 DEF L

(* An if block with one `then' and one `else' executes one branch, with    *)
(* its `fi' or without.                                                    *)
LEMMA IfRuns ==
  ASSUME NEW X, NEW q \in Seq(X), NEW t, NEW e, Split(q, t, e), NEW block \in Seq(X),
         block = q \/ block = Append(q, <<"fi">>), NEW s, NEW cond, cond = TestCondition(s, Condition(q[1]))
  PROVE  IfBlock(s, block) = AllLines(cond.s, IF cond.r = 0 THEN SubSeq(q, t + 1, e - 1)
                                              ELSE SubSeq(q, e + 1, Len(q)))
<1> DEFINE part == AllLines(cond.s, IF cond.r = 0 THEN SubSeq(q, t + 1, e - 1) ELSE SubSeq(q, e + 1, Len(q)))
           find == (cond.r = 0)
           L == Len(q)
<1>1. L \in Nat \ {0} /\ L = Len(q)
  BY DEF Split
<1> HIDE DEF L
<1>2. /\ block # << >> /\ block[1] = q[1] /\ \A j \in 1 .. L : block[j] = q[j]
      /\ \/ Len(block) = L
         \/ Len(block) = L + 1 /\ block[L + 1] = <<"fi">>
  <2>1. CASE block = q
    <3>1. 1 \in 1 .. L /\ q # << >>
      BY <1>1
    <3> QED
      BY <1>1, <2>1, <3>1
  <2>2. CASE block = Append(q, <<"fi">>)
    <3>1. Len(block) = L + 1 /\ block[L + 1] = <<"fi">> /\ \A j \in 1 .. L : block[j] = q[j]
      BY <1>1, <2>2
    <3>2. block # << >> /\ 1 \in 1 .. L
      BY <1>1, <3>1
    <3> QED
      BY <3>1, <3>2
  <2> QED
    BY <2>1, <2>2
<1>3. cond = TestCondition(s, Condition(block[1]))
  BY <1>2
<1>4. PICK g : /\ g[1] = Skipping(cond.s)
               /\ Follows(g, block, find)
               /\ IfBlock(s, block) = g[Len(block)].s
  <2> HIDE DEF find
  <2>1. find = (cond.r = 0)
    BY DEF find
  <2> QED
    BY <1>2, <1>3, <2>1, BlockFollows
<1>5. g[L] \in {Skipping(part), Executing(part)}
  <2>1. Follows(g, q, find)
    <3> HIDE DEF find
    <3>1. \A j \in 2 .. L : j \in 2 .. Len(block) /\ block[j] = q[j]
      BY <1>1, <1>2
    <3> QED
      BY <1>1, <1>4, <3>1 DEF Follows
  <2>2. CASE cond.r = 0
    <3>1. Granted(find)
      BY <2>2 DEF Granted
    <3> HIDE DEF find
    <3>2. g[Len(q)] = Skipping(AllLines(cond.s, SubSeq(q, t + 1, e - 1)))
      BY <1>4, <2>1, <3>1, ThenBranch
    <3> QED
      BY <1>1, <2>2, <3>2
  <2>3. CASE cond.r # 0
    <3>1. Denied(find)
      BY <2>3 DEF Denied
    <3> HIDE DEF find
    <3>2. g[Len(q)] = Executing(AllLines(cond.s, SubSeq(q, e + 1, Len(q))))
      BY <1>4, <2>1, <3>1, ElseBranch
    <3> QED
      BY <1>1, <2>3, <3>2
  <2> QED
    BY <2>2, <2>3
<1> HIDE DEF part, find
<1>6. Skipping(part).s = part /\ Executing(part).s = part
  BY DEF Skipping, Executing, IfState
<1>7. CASE Len(block) = L
  BY <1>4, <1>5, <1>6, <1>7 DEF part
<1>8. CASE Len(block) = L + 1 /\ block[L + 1] = <<"fi">>
  <2>1. L \in Nat \ {0} /\ L < Len(block)
    BY <1>1, <1>8
  <2>2. g[L + 1] = IfLine(g[L], block[L + 1], find)
    BY <1>4, <2>1, NextLine
  <2>3. g[Len(block)] = IfLine(g[L], <<"fi">>, find)
    BY <1>8, <2>2
  <2>4. /\ IfLine(Executing(part), <<"fi">>, find) = IfState(part, TRUE, TRUE)
        /\ IfLine(Skipping(part), <<"fi">>, find) = IfState(part, FALSE, TRUE)
    BY EndLine
  <2>5. IfLine(Executing(part), <<"fi">>, find).s = part /\ IfLine(Skipping(part), <<"fi">>, find).s = part
    BY <2>4 DEF IfState
  <2>6. g[Len(block)].s = part
    BY <1>5, <2>3, <2>5
  <2> QED
    BY <1>4, <2>6 DEF part
<1> QED
  BY <1>2, <1>7, <1>8

(* A mark that a block has once is at one place.                           *)
LEMMA OneMark ==
  ASSUME NEW X, script_buf \in Seq(X), NEW mark, NEW t \in At(mark), Cardinality(At(mark)) = 1
  PROVE  \A i \in 1 .. Len(script_buf) : script_buf[i] = mark => i = t
<1> DEFINE S == At(mark)
<1>1. IsFiniteSet(S)
  <2>1. IsFiniteSet(1 .. Len(script_buf))
    BY FS_Interval
  <2>2. S \subseteq 1 .. Len(script_buf)
    BY DEF At
  <2> QED
    BY <2>1, <2>2, FS_Subset
<1>2. Cardinality(S) = 1 /\ t \in S
  OBVIOUS
<1>3. \A i \in 1 .. Len(script_buf) : script_buf[i] = mark => i \in S
  BY DEF At
<1> HIDE DEF S
<1>4. \E x : S = {x}
  BY <1>1, <1>2, FS_Singleton
<1> QED
  BY <1>2, <1>3, <1>4

(* What the code splits when `fi' is typed: the lines of the block, and    *)
(* `fi' if there was room for it.                                          *)
LEMMA BlockAtFi ==
  ASSUME script_buf \in Seq(Input), Len(script_buf) <= SCRIPT_MAX_LINES
  PROVE  Lines(Collected(<<"fi">>)) \in {script_buf, Append(script_buf, <<"fi">>)}
<1> DEFINE L == Len(script_buf)
           M == SCRIPT_MAX_LINES
           all == Append(script_buf, <<"fi">>)
<1>1. L \in Nat /\ M \in Nat \ {0} /\ L <= M
  BY ShellAssumption
<1>2. Collected(<<"fi">>) = script_buf \/ Collected(<<"fi">>) = all
  BY DEF Collected
<1>3. SubSeq(script_buf, 1, L) = script_buf
  OBVIOUS
<1>4. /\ Len(all) = L + 1 /\ all \in Seq(Input \cup {<<"fi">>})
      /\ SubSeq(all, 1, L) = script_buf /\ SubSeq(all, 1, L + 1) = all
  <2>1. all \in Seq(Input \cup {<<"fi">>}) /\ Len(all) = L + 1
    OBVIOUS
  <2>2. SubSeq(all, 1, L) = script_buf
    BY <1>1
  <2>3. SubSeq(all, 1, Len(all)) = all
    <3> HIDE DEF all
    <3> QED
      BY <2>1
  <2> QED
    BY <2>1, <2>2, <2>3
<1>5. Lines(script_buf) = script_buf
  <2>1. (IF L < M THEN L ELSE M) = L
    BY <1>1
  <2> QED
    BY <1>3, <2>1 DEF Lines, Cut
<1>6. Lines(all) = script_buf \/ Lines(all) = all
  <2> HIDE DEF all, L, M
  <2>1. (IF L + 1 < M THEN L + 1 ELSE M) = L + 1 \/ (IF L + 1 < M THEN L + 1 ELSE M) = L
    BY <1>1
  <2>2. Lines(all) = SubSeq(all, 1, IF L + 1 < M THEN L + 1 ELSE M)
    BY <1>4 DEF Lines, Cut, M
  <2> QED
    BY <1>4, <2>1, <2>2
<1> HIDE DEF all
<1> QED
  BY <1>2, <1>5, <1>6 DEF all

(* The line that a branch is followed by does not matter: an if block that *)
(* is complete executes one branch.                                        *)
LEMMA FinishOne ==
  ASSUME ShellIInv, NEW t \in At(<<"then">>), NEW e \in At(<<"else">>),
         script_collecting, script_type = "if", t < e,
         Cardinality(At(<<"then">>)) = 1, Cardinality(At(<<"else">>)) = 1,
         Len(script_buf) <= SCRIPT_MAX_LINES, Finish(<<"fi">>),
         NEW cond, cond = TestCondition(Fresh, Condition(script_buf[1]))
  PROVE  sh' = AllLines(cond.s, IF cond.r = 0 THEN SubSeq(script_buf, t + 1, e - 1)
                                ELSE SubSeq(script_buf, e + 1, Len(script_buf)))
<1> DEFINE q == script_buf
           X == Input \cup {<<"fi">>}
           L == Len(q)
           block == Lines(Collected(<<"fi">>))
<1>1. ~looping
  BY DEF Finish, AtPrompt
<1>2. /\ q \in Seq(Input) /\ Header(q[1])
      /\ \A i \in 1 .. L : ~Terminator(q[i])
  BY <1>1 DEF ShellIInv, Block
<1>3. q \in Seq(X) /\ L \in Nat
  BY <1>2
<1>4. block \in {q, Append(q, <<"fi">>)}
  BY <1>2, BlockAtFi
<1>5. block \in Seq(X)
  <2>1. <<"fi">> \in X
    OBVIOUS
  <2> HIDE DEF block, q, X
  <2>2. Append(q, <<"fi">>) \in Seq(X)
    BY <1>3, <2>1
  <2> QED
    BY <1>3, <1>4, <2>2
<1>6. /\ t \in 1 .. L /\ q[t] = <<"then">> /\ e \in 1 .. L /\ q[e] = <<"else">>
  BY DEF At
<1>7. /\ \A i \in 1 .. L : q[i] = <<"then">> => i = t
      /\ \A i \in 1 .. L : q[i] = <<"else">> => i = e
  BY <1>3, OneMark
<1>8. q[1] # <<"then">> /\ q[1] # <<"else">>
  <2>1. \A x : Len(<<x>>) = 1
    OBVIOUS
  <2>2. Len(q[1]) >= 2
    BY <1>2 DEF Header, Starts
  <2>3. \A x : q[1] = <<x>> => Len(q[1]) = 1
    BY <2>1
  <2>4. Len(q[1]) # 1
    <3>1. 1 < 2 /\ \A n : n = 1 => ~(n >= 2)
      OBVIOUS
    <3> QED
      BY <2>2, <3>1, Zenon
  <2> QED
    BY <2>3, <2>4, Zenon
<1>9. \A i \in 1 .. L : q[i] # <<"fi">>
  BY <1>2 DEF Terminator
<1>10. sh' = IF Len(block) < 3 THEN Fresh ELSE IfBlock(Fresh, block)
  BY DEF Finish
<1>11. Len(block) = L \/ Len(block) = L + 1
  BY <1>3, <1>4
<1> HIDE DEF q, L, block, X
<1>12. t \in 2 .. L /\ e \in 2 .. L /\ L >= 3
  <2>1. t # 1 /\ e # 1
    BY <1>6, <1>8
  <2> QED
    BY <1>3, <1>6, <2>1
<1>13. Split(q, t, e)
  BY <1>6, <1>7, <1>9, <1>12 DEF Split, Mark, L
<1>14. sh' = IfBlock(Fresh, block)
  <2>1. ~(Len(block) < 3)
    BY <1>3, <1>11, <1>12
  <2> QED
    BY <1>10, <2>1
<1>15. cond = TestCondition(Fresh, Condition(q[1]))
  BY DEF q
<1>16. IfBlock(Fresh, block) = AllLines(cond.s, IF cond.r = 0 THEN SubSeq(q, t + 1, e - 1)
                                                ELSE SubSeq(q, e + 1, Len(q)))
  BY <1>3, <1>4, <1>5, <1>13, <1>15, IfRuns
<1> QED
  BY <1>14, <1>16 DEF q

(* An if block with one `then' and one `else' executes the lines of one of *)
(* them, all of them and in order, whatever its lines do and whether or not*)
(* there was room for its `fi' (shell.c:1347-1363).                        *)
THEOREM BlocksTakeOneBranch == ShSpec => OneBranch
<1> DEFINE One1 ==
      \A t \in At(<<"then">>), e \in At(<<"else">>) :
        /\ script_collecting /\ ~script_collecting' /\ script_type = "if"
        /\ t < e /\ Cardinality(At(<<"then">>)) = 1 /\ Cardinality(At(<<"else">>)) = 1
        /\ Len(script_buf) <= SCRIPT_MAX_LINES
        /\ Finish(<<"fi">>)
        => LET cond == TestCondition(Fresh, Condition(script_buf[1]))
           IN  sh' = AllLines(cond.s, IF cond.r = 0 THEN SubSeq(script_buf, t + 1, e - 1)
                                      ELSE SubSeq(script_buf, e + 1, Len(script_buf)))
<1>1. ShellIInv => One1
  BY FinishOne
<1>2. ShellIInv /\ [ShNext]_sh_vars => [One1]_sh_vars
  BY <1>1
<1> QED
  BY <1>2, ShellHolds, PTL DEF OneBranch, ShSpec

(* The commands of a chain, one after the other.                          *)
LEMMA ChainSteps ==
  ASSUME NEW s, NEW chain, Len(chain) \in Nat
  PROVE  \E f : /\ f[0] = Result(s, 0)
                /\ \A i \in 1 .. Len(chain) : f[i] = IF i = 1 \/ ((f[i - 1].r = 0) = (chain[i - 1].op = AND)) THEN Run(f[i - 1].s, chain[i].argv) ELSE f[i - 1]
                /\ RunChain(s, chain) = f[Len(chain)].s
<1> DEFINE N == Len(chain)
           b == Result(s, 0)
           st(a, i) == IF i = 1 \/ ((a.r = 0) = (chain[i - 1].op = AND)) THEN Run(a.s, chain[i].argv) ELSE a
           Is(g, m) == g[0] = b /\ \A i \in 1 .. m : g[i] = st(g[i - 1], i)
           S == {m \in 0 .. N : \E g : Is(g, m)}
           F(g) == g = [i \in 0 .. N |-> IF i = 0 THEN b ELSE st(g[i - 1], i)]
           f == CHOOSE g : F(g)
<1>1. RunChain(s, chain) = f[N].s
  BY DEF RunChain
<1>2. N \in Nat
  OBVIOUS
<1>3. 0 \in S
  <2> DEFINE g == [i \in 0 .. 0 |-> b]
  <2>1. Is(g, 0)
    OBVIOUS
  <2> HIDE DEF Is, g, N
  <2> QED
    BY <1>2, <2>1
<1>4. ASSUME NEW m \in 0 .. N, m \in S, m < N
      PROVE  m + 1 \in S
  <2>1. PICK g : Is(g, m)
    BY <1>4
  <2> DEFINE h == [i \in 0 .. m + 1 |-> IF i <= m THEN g[i] ELSE st(g[m], m + 1)]
  <2> HIDE DEF st
  <2>2. (\A i \in 0 .. m : h[i] = g[i]) /\ h[m + 1] = st(g[m], m + 1)
    BY <1>2
  <2> HIDE DEF h
  <2>3. \A i \in 1 .. m + 1 : h[i] = st(h[i - 1], i)
    <3> SUFFICES ASSUME NEW i \in 1 .. m + 1 PROVE h[i] = st(h[i - 1], i)
      OBVIOUS
    <3>1. CASE i \in 1 .. m
      <4>1. i \in 0 .. m /\ i - 1 \in 0 .. m
        BY <1>2, <3>1
      <4>2. h[i] = g[i] /\ h[i - 1] = g[i - 1] /\ g[i] = st(g[i - 1], i)
        BY <2>1, <2>2, <3>1, <4>1
      <4> QED
        BY <4>2
    <3>2. CASE i = m + 1
      <4>1. i - 1 = m /\ m \in 0 .. m
        BY <1>2, <3>2
      <4>2. h[i - 1] = g[m]
        BY <2>2, <4>1
      <4> QED
        BY <2>2, <3>2, <4>2
    <3> QED
      BY <1>2, <3>1, <3>2
  <2>4. h[0] = b
    BY <1>2, <2>1, <2>2
  <2>5. Is(h, m + 1) /\ m + 1 \in 0 .. N
    BY <1>2, <1>4, <2>3, <2>4
  <2> HIDE DEF Is, N
  <2> QED
    BY <2>5
<1>5. N \in S
  <2>1. 0 .. N \subseteq S
    <3> HIDE DEF S, N
    <3> QED
      BY <1>2, <1>3, <1>4, UpTo
  <2> HIDE DEF S, N
  <2> QED
    BY <1>2, <2>1
<1>6. PICK g : Is(g, N)
  BY <1>5
<1> HIDE DEF st, b
<1>7. F([i \in 0 .. N |-> g[i]])
  <2> DEFINE h == [i \in 0 .. N |-> g[i]]
  <2> HIDE DEF N
  <2>1. \A i \in 0 .. N : h[i] = g[i]
    OBVIOUS
  <2>2. \A i \in 1 .. N : i - 1 \in 0 .. N /\ i \in 0 .. N
    BY <1>2
  <2>3. h = [i \in 0 .. N |-> h[i]]
    OBVIOUS
  <2> HIDE DEF h
  <2>4. \A i \in 0 .. N : h[i] = IF i = 0 THEN b ELSE st(h[i - 1], i)
    <3> SUFFICES ASSUME NEW i \in 0 .. N PROVE h[i] = IF i = 0 THEN b ELSE st(h[i - 1], i)
      OBVIOUS
    <3>1. CASE i = 0
      BY <1>6, <2>1, <3>1
    <3>2. CASE i \in 1 .. N
      <4>1. h[i] = g[i] /\ h[i - 1] = g[i - 1]
        BY <2>1, <2>2, <3>2
      <4>2. g[i] = st(g[i - 1], i) /\ i # 0
        BY <1>6, <3>2
      <4> QED
        BY <4>1, <4>2
    <3> QED
      BY <1>2, <3>1, <3>2
  <2>5. F(h)
    BY <2>3, <2>4
  <2> QED
    BY <2>5 DEF h
<1>8. F(f)
  <2> HIDE DEF F
  <2> QED
    BY <1>7
<1> HIDE DEF f
<1>9. f[0] = b /\ \A i \in 1 .. N : f[i] = st(f[i - 1], i)
  <2> HIDE DEF N
  <2> QED
    BY <1>2, <1>8
<1> QED
  BY <1>1, <1>9 DEF st, b


(* Where execute_line() is behind a command: b is what the chain did.      *)
Behind(b, op) == [s |-> b.s, r |-> b.r, prev |-> op, left |-> FALSE]

LEMMA ChainTurn ==
  ASSUME NEW b, NEW c, c.argv # << >>, c.op # <<"|">>
  PROVE  /\ Turn(Behind(b, << >>), c) = Behind(Run(b.s, c.argv), c.op)
         /\ b.r = 0 => Turn(Behind(b, AND), c) = Behind(Run(b.s, c.argv), c.op)
         /\ b.r # 0 => Turn(Behind(b, AND), c) = Behind(b, c.op)
         /\ b.r # 0 => Turn(Behind(b, OR), c) = Behind(Run(b.s, c.argv), c.op)
         /\ b.r = 0 => Turn(Behind(b, OR), c) = Behind(b, c.op)
<1>1. AND # OR /\ AND # << >> /\ OR # << >>
  BY DEF AND, OR
<1>2. ASSUME NEW op
      PROVE  /\ Behind(b, op).s = b.s /\ Behind(b, op).r = b.r /\ Behind(b, op).prev = op
             /\ Behind(b, op).left = FALSE
             /\ [Behind(b, op) EXCEPT !.prev = c.op] = Behind(b, c.op)
  <2> DEFINE r == [Behind(b, op) EXCEPT !.prev = c.op]
  <2>1. r = [f \in {"s", "r", "prev", "left"} |-> r[f]] /\ r.s = b.s /\ r.r = b.r /\ r.prev = c.op /\ r.left = FALSE
    BY DEF Behind
  <2>2. /\ Behind(b, op).s = b.s /\ Behind(b, op).r = b.r /\ Behind(b, op).prev = op
        /\ Behind(b, op).left = FALSE
    BY DEF Behind
  <2> HIDE DEF r
  <2>3. r = [s |-> r.s, r |-> r.r, prev |-> r.prev, left |-> r.left]
    BY <2>1
  <2>4. r = Behind(b, c.op)
    BY <2>1, <2>3 DEF Behind
  <2> QED
    BY <2>2, <2>4 DEF r
<1>3. ASSUME NEW op, ~((op = AND /\ b.r # 0) \/ (op = OR /\ b.r = 0))
      PROVE  Turn(Behind(b, op), c) = Behind(Run(b.s, c.argv), c.op)
  <2> DEFINE acc == Behind(b, op)
  <2>1. acc.s = b.s /\ acc.r = b.r /\ acc.prev = op /\ acc.left = FALSE
    BY <1>2
  <2> HIDE DEF acc
  <2>2. Turn(acc, c) = [s |-> Run(acc.s, c.argv).s, r |-> Run(acc.s, c.argv).r, prev |-> c.op, left |-> FALSE]
    BY <1>3, <2>1 DEF Turn
  <2> QED
    BY <2>1, <2>2 DEF acc, Behind
<1>4. ASSUME NEW op, (op = AND /\ b.r # 0) \/ (op = OR /\ b.r = 0)
      PROVE  Turn(Behind(b, op), c) = Behind(b, c.op)
  <2> DEFINE acc == Behind(b, op)
  <2>1. acc.r = b.r /\ acc.prev = op /\ acc.left = FALSE /\ [acc EXCEPT !.prev = c.op] = Behind(b, c.op)
    BY <1>2
  <2> HIDE DEF acc
  <2>2. Turn(acc, c) = [acc EXCEPT !.prev = c.op]
    BY <1>4, <2>1 DEF Turn, Skipped
  <2> QED
    BY <2>1, <2>2 DEF acc
<1> QED
  BY <1>1, <1>3, <1>4

(* Commands with && and || between them, as the scan of a line leaves them. *)
Chained(commands) ==
  /\ Len(commands) \in Nat
  /\ \A k \in 1 .. Len(commands) :
       /\ commands[k].argv # << >> /\ commands[k].op # <<"|">>
       /\ k < Len(commands) => commands[k].op \in {AND, OR}

(* The loop of execute_line() over commands with && and || between them    *)
(* runs the commands of the chain and no others, for every chain: the flags*)
(* that a skipped command leaves are those the next one needs              *)
(* (shell.c:1175).                                                         *)
THEOREM FlagsFollowTheChain ==
  ASSUME NEW s, NEW commands, Chained(commands)
  PROVE  AllTurns(s, commands).s = RunChain(s, commands)
<1> DEFINE N == Len(commands)
           opOf(k) == IF k = 0 THEN << >> ELSE commands[k].op
<1>1. /\ N \in Nat
      /\ \A k \in 1 .. N : commands[k].argv # << >> /\ commands[k].op # <<"|">>
      /\ \A k \in 1 .. N : k < N => commands[k].op \in {AND, OR}
  BY DEF Chained
<1>2. PICK f : /\ f[0] = [s |-> s, r |-> 0, prev |-> << >>, left |-> FALSE]
               /\ \A i \in 1 .. N : f[i] = Turn(f[i - 1], commands[i])
               /\ AllTurns(s, commands) = f[N]
  BY <1>1, TurnSteps
<1>3. PICK g : /\ g[0] = Result(s, 0)
               /\ \A i \in 1 .. N : g[i] = IF i = 1 \/ ((g[i - 1].r = 0) = (commands[i - 1].op = AND))
                                           THEN Run(g[i - 1].s, commands[i].argv) ELSE g[i - 1]
               /\ RunChain(s, commands) = g[N].s
  BY <1>1, ChainSteps
<1> HIDE DEF N
<1> DEFINE S == {i \in 0 .. N : f[i] = Behind(g[i], opOf(i))}
<1>4. 0 \in S
  <2>1. g[0].s = s /\ g[0].r = 0
    BY <1>3 DEF Result
  <2>2. opOf(0) = << >> /\ 0 \in 0 .. N
    BY <1>1
  <2> HIDE DEF opOf
  <2>3. f[0] = Behind(g[0], opOf(0))
    BY <1>2, <2>1, <2>2 DEF Behind
  <2> QED
    BY <2>2, <2>3
<1>5. ASSUME NEW i \in 0 .. N, i \in S, i < N
      PROVE  i + 1 \in S
  <2> DEFINE c == commands[i + 1]
             b == g[i]
  <2>1. i + 1 \in 1 .. N /\ i + 1 # 0 /\ (i + 1) - 1 = i /\ (i + 1 = 1 <=> i = 0) /\ i + 1 \in 0 .. N
    BY <1>1, <1>5
  <2>2. f[i + 1] = Turn(f[i], c) /\ f[i] = Behind(b, opOf(i))
    BY <1>2, <1>5, <2>1
  <2>3. c.argv # << >> /\ c.op # <<"|">> /\ opOf(i + 1) = c.op
    BY <1>1, <2>1
  <2>4. /\ i = 0 \/ ((b.r = 0) = (commands[i].op = AND)) => g[i + 1] = Run(b.s, c.argv)
        /\ i # 0 /\ (b.r = 0) # (commands[i].op = AND) => g[i + 1] = b
    BY <1>3, <2>1
  <2>5. i # 0 => opOf(i) = commands[i].op /\ commands[i].op \in {AND, OR}
    <3> SUFFICES ASSUME i # 0 PROVE opOf(i) = commands[i].op /\ commands[i].op \in {AND, OR}
      OBVIOUS
    <3>1. i \in 1 .. N
      BY <1>1
    <3> QED
      BY <1>1, <1>5, <3>1
  <2>6. i = 0 => opOf(i) = << >>
    OBVIOUS
  <2>7. AND # OR
    BY DEF AND, OR
  <2> HIDE DEF c, b, opOf
  <2>8. CASE i = 0
    <3>1. f[i + 1] = Turn(Behind(b, << >>), c)
      BY <2>2, <2>6, <2>8
    <3>2. f[i + 1] = Behind(Run(b.s, c.argv), c.op)
      BY <2>3, <3>1, ChainTurn
    <3> QED
      BY <2>1, <2>3, <2>4, <2>8, <3>2
  <2>9. CASE i # 0 /\ commands[i].op = AND /\ b.r = 0
    <3>1. f[i + 1] = Behind(Run(b.s, c.argv), c.op)
      BY <2>2, <2>3, <2>5, <2>9, ChainTurn
    <3> QED
      BY <2>1, <2>3, <2>4, <2>9, <3>1
  <2>10. CASE i # 0 /\ commands[i].op = AND /\ b.r # 0
    <3>1. f[i + 1] = Behind(b, c.op)
      BY <2>2, <2>3, <2>5, <2>10, ChainTurn
    <3> QED
      BY <2>1, <2>3, <2>4, <2>10, <3>1
  <2>11. CASE i # 0 /\ commands[i].op = OR /\ b.r = 0
    <3>1. f[i + 1] = Behind(b, c.op)
      BY <2>2, <2>3, <2>5, <2>11, ChainTurn
    <3> QED
      BY <2>1, <2>3, <2>4, <2>7, <2>11, <3>1
  <2>12. CASE i # 0 /\ commands[i].op = OR /\ b.r # 0
    <3>1. f[i + 1] = Behind(Run(b.s, c.argv), c.op)
      BY <2>2, <2>3, <2>5, <2>12, ChainTurn
    <3> QED
      BY <2>1, <2>3, <2>4, <2>7, <2>12, <3>1
  <2> QED
    BY <2>5, <2>8, <2>9, <2>10, <2>11, <2>12
<1>6. 0 .. N \subseteq S
  <2> HIDE DEF S
  <2> QED
    BY <1>1, <1>4, <1>5, UpTo
<1>7. f[N] = Behind(g[N], opOf(N))
  <2>1. N \in 0 .. N
    BY <1>1
  <2> QED
    BY <1>6, <2>1
<1> QED
  BY <1>2, <1>3, <1>7 DEF Behind

=============================================================================
