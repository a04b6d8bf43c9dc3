------------------------------- MODULE Snake -------------------------------
(***************************************************************************)
(* The game of servers/snake.c: a snake on a walled board, turned by the   *)
(* keys it reads between two frames.                                       *)
(*                                                                         *)
(* A frame of the loop of snake_game() is one step: it reads at most one   *)
(* key, moves the snake and draws it.  The screen is the set of cells that *)
(* do not show blank; glyphs, colours and delays are left out.  rand() may *)
(* return anything.  The slot that a growing snake reads before it is      *)
(* written may exclude one more cell for the food, which any free cell     *)
(* covers.                                                                 *)
(***************************************************************************)
EXTENDS Integers, Sequences

CONSTANTS
  GAME_WIDTH, GAME_HEIGHT,  \* 40 and 20 in the code, walls included
  MAX_SNAKE_LENGTH,         \* 100 in the code
  MaxScore                  \* bound of the model: no food is eaten beyond it

ASSUME SnakeAssumption ==
  /\ GAME_WIDTH \in Nat /\ GAME_WIDTH >= 6
  /\ GAME_HEIGHT \in Nat /\ GAME_HEIGHT >= 4
  /\ MAX_SNAKE_LENGTH \in 3 .. (GAME_WIDTH - 2) * (GAME_HEIGHT - 2) - 1
  /\ MaxScore \in Nat

VARIABLES
  snake,           \* its cells, the head first; the length is snake_length
  direction, next_direction,
  food,
  score,
  game_over,       \* 0: playing, 1: collision, 2: q was pressed
  shown,           \* the cells inside the walls that do not show blank
  phase            \* where snake_game() is

snakeVars == <<snake, direction, next_direction, food, score, game_over, shown, phase>>

Direction == {"UP", "DOWN", "LEFT", "RIGHT"}
Key == Direction \cup {"q", "other"}
Cell == (0 .. GAME_WIDTH - 1) \X (0 .. GAME_HEIGHT - 1)
Inside == (1 .. GAME_WIDTH - 2) \X (1 .. GAME_HEIGHT - 2)
Body(s) == {s[i] : i \in 1 .. Len(s)}

Opposite(d) ==
  CASE d = "UP" -> "DOWN" [] d = "DOWN" -> "UP" [] d = "LEFT" -> "RIGHT" [] d = "RIGHT" -> "LEFT"

Ahead(c, d) ==
  CASE d = "UP"    -> <<c[1], c[2] - 1>>
    [] d = "DOWN"  -> <<c[1], c[2] + 1>>
    [] d = "LEFT"  -> <<c[1] - 1, c[2]>>
    [] d = "RIGHT" -> <<c[1] + 1, c[2]>>

(* generate_food(): where its loop can end.                                *)
FreeForFood(s) == Inside \ Body(s)

StartSnake ==
  LET middle == <<GAME_WIDTH \div 2, GAME_HEIGHT \div 2>>
  IN  [i \in 1 .. 3 |-> <<middle[1] - (i - 1), middle[2]>>]

(* init_game() up to its wait for a key; the game area is drawn empty.     *)
NewGame ==
  /\ snake' = StartSnake
  /\ direction' = "RIGHT"
  /\ next_direction' = "RIGHT"
  /\ food' \in FreeForFood(StartSnake)
  /\ score' = 0
  /\ game_over' = 0
  /\ shown' = {}
  /\ phase' = "start"

(* Any key starts; it is not a turn.                                       *)
StartKey ==
  /\ phase = "start"
  /\ shown' = Body(snake) \cup {food}
  /\ phase' = "play"
  /\ UNCHANGED <<snake, direction, next_direction, food, score, game_over>>

(* check_collision(): the walls, and every segment but the head.           *)
CheckCollision(c) ==
  c \notin Inside \/ \E i \in 2 .. Len(snake) : snake[i] = c

(* update_game(): a turn is taken unless it is a reversal.                 *)
Turned(wanted) == IF wanted = Opposite(direction) THEN direction ELSE wanted

(* Mutant: the tail is erased after the move. *)
MutErased(s) == {s[Len(s) - 1]}

(* The cell the tail leaves.                                               *)
Erased(s) == {s[Len(s)]}

Moved(head, length) == <<head>> \o SubSeq(snake, 1, length - 1)

(* The rest of update_game() when the way is free, and the drawing: food   *)
(* makes the snake longer up to the maximum, and the next food is placed   *)
(* before the head has moved.  Only a step without food erases the tail.   *)
Move(head) ==
  /\ IF head = food
     THEN /\ score + 10 <= MaxScore
          /\ score' = score + 10
          /\ food' \in FreeForFood(snake)
          /\ snake' = Moved(head, IF Len(snake) < MAX_SNAKE_LENGTH THEN Len(snake) + 1 ELSE Len(snake))
          /\ shown' = shown \cup Body(snake') \cup {food'}
     ELSE /\ UNCHANGED <<score, food>>
          /\ snake' = Moved(head, Len(snake))
          /\ shown' = (shown \ Erased(snake)) \cup Body(snake') \cup {food}

(* Leaving a game.  What is left in the variables is not read again, but   *)
(* for the slot that the food's choice covers: the model forgets it.       *)
Leave ==
  /\ snake' = << >> /\ direction' = "UP" /\ next_direction' = "UP"
  /\ food' = <<0, 0>> /\ score' = 0 /\ game_over' = 0
  /\ shown' = {} /\ phase' = "off"

(* The direction of a frame that reads k.                                  *)
Steered(k) == Turned(IF k \in Direction THEN k ELSE next_direction)

(* One pass of the game loop: process_input(), update_game(), the drawing, *)
(* and the loop's test.  k is the key read, or "none".  A q is overruled   *)
(* by a collision in the same frame.                                       *)
Collide(k) ==
  /\ phase = "play"
  /\ CheckCollision(Ahead(snake[1], Steered(k)))
  /\ next_direction' = IF k \in Direction THEN k ELSE next_direction
  /\ direction' = Steered(k)
  /\ game_over' = 1
  /\ shown' = {}
  /\ phase' = "over"
  /\ UNCHANGED <<snake, food, score>>

Advance(k) ==
  /\ phase = "play" /\ k # "q"
  /\ ~CheckCollision(Ahead(snake[1], Steered(k)))
  /\ next_direction' = IF k \in Direction THEN k ELSE next_direction
  /\ direction' = Steered(k)
  /\ Move(Ahead(snake[1], Steered(k)))
  /\ UNCHANGED <<game_over, phase>>

Quit ==
  /\ phase = "play"
  /\ ~CheckCollision(Ahead(snake[1], Steered("q")))
  /\ Leave

(* The game over screen: q leaves, another key starts the next game.       *)
OverKey(k) ==
  /\ phase = "over"
  /\ IF k = "q" THEN Leave ELSE NewGame

SnakeInit ==
  /\ snake = << >> /\ direction = "UP" /\ next_direction = "UP"
  /\ food = <<0, 0>> /\ score = 0 /\ game_over = 0
  /\ shown = {} /\ phase = "off"

SnakeNext ==
  \/ StartKey
  \/ \E k \in Key \cup {"none"} : Advance(k)
  \/ \E k \in Key \cup {"none"} : Collide(k)
  \/ Quit
  \/ \E k \in Key : OverKey(k)

-----------------------------------------------------------------------------
SnakeTypeOK ==
  /\ snake \in Seq(Inside)
  /\ {direction, next_direction} \subseteq Direction
  /\ food \in Cell
  /\ score \in 0 .. MaxScore
  /\ game_over \in 0 .. 2
  /\ shown \subseteq Inside
  /\ phase \in {"off", "start", "play", "over"}

(* The segments are distinct neighbours, as many as the score says.        *)
BodyOK ==
  /\ \A i, j \in 1 .. Len(snake) : snake[i] = snake[j] => i = j
  /\ \A i \in 1 .. Len(snake) - 1 : \E d \in Direction : snake[i] = Ahead(snake[i + 1], d)
  /\ phase # "off" =>
       Len(snake) = IF 3 + score \div 10 < MAX_SNAKE_LENGTH THEN 3 + score \div 10 ELSE MAX_SNAKE_LENGTH
  /\ phase = "play" => FreeForFood(snake) # {}

(* As long as no food was eaten at the greatest length the screen shows    *)
(* the snake and the food and nothing else: each frame only erases what    *)
(* the tail left.                                                          *)
BoardOK ==
  phase = "play" =>
    /\ Body(snake) \cup {food} \subseteq shown
    /\ 3 + score \div 10 <= MAX_SNAKE_LENGTH => shown = Body(snake) \cup {food}

(* The game never loses track of its snake: what is drawn, what collides   *)
(* and what the score counts agree, whatever keys come between two frames  *)
(* (snake.c:294-359).                                                      *)
SnakeInv == SnakeTypeOK /\ BodyOK /\ BoardOK
=============================================================================
