-------------------------------- MODULE Snake --------------------------------
(***************************************************************************)
(* The game behind the shell's "yilan" (apps/games/snake.c): its window's  *)
(* update callback moves the snake in the timer interrupt, its key         *)
(* callback turns it in the keyboard's, any number of times between moves. *)
(***************************************************************************)
EXTENDS Integers, Sequences

CONSTANTS
  GAME_WIDTH, GAME_HEIGHT,
  SNAKE_MAX_LEN,
  StartX, StartY,   \* where the head begins: 5, 5
  MaxScore          \* bound: points before the model stops

ASSUME SnakeAssumption ==
  /\ {GAME_WIDTH, GAME_HEIGHT, SNAKE_MAX_LEN} \subseteq Nat /\ SNAKE_MAX_LEN >= 3
  /\ StartX \in 2 .. GAME_WIDTH - 1 /\ StartY \in 0 .. GAME_HEIGHT - 1

Board == (0 .. GAME_WIDTH - 1) \X (0 .. GAME_HEIGHT - 1)

(* cell[i] is x[i - 1], y[i - 1], and memory that kmalloc left as it was is *)
(* "unset"; d is dx, dy; grown, a history variable, whether the last move  *)
(* made the snake longer.                                                  *)
VARIABLE snake

(* init_snake_game over fresh memory, and the reset of snake_key over the  *)
(* cells of the game before.                                               *)
Started(cell, food) ==
  [cell |-> [cell EXCEPT ![1] = <<StartX, StartY>>, ![2] = <<StartX - 1, StartY>>,
                         ![3] = <<StartX - 2, StartY>>],
   length |-> 3, d |-> <<1, 0>>, food |-> food, score |-> 0, game_over |-> FALSE,
   grown |-> FALSE]

SnakeInit ==
  \E food \in Board : snake = Started([i \in 1 .. SNAKE_MAX_LEN |-> "unset"], food)

ShiftedUpwards(s) == [i \in DOMAIN s.cell |->
  IF i = 1 \/ i > s.length THEN s.cell[i] ELSE s.cell[1]]

(* Each segment takes the place of the one before it, from the tail on.    *)
Shifted(s) == [i \in DOMAIN s.cell |->
  IF i = 1 \/ i > s.length THEN s.cell[i] ELSE s.cell[i - 1]]

Dead(head, cell, length) ==
  head \notin Board \/ \E i \in 2 .. length : cell[i] = head

(* snake_update, once more than two ticks have gone by. *)
Move ==
  /\ ~snake.game_over /\ snake.score < MaxScore
  /\ LET head == <<snake.cell[1][1] + snake.d[1], snake.cell[1][2] + snake.d[2]>>
         cell == [Shifted(snake) EXCEPT ![1] = head]
         moved == [snake EXCEPT !.cell = cell, !.grown = FALSE,
                                !.game_over = Dead(head, cell, snake.length)]
         grows == snake.length < SNAKE_MAX_LEN
     IN IF head # snake.food THEN snake' = moved
        ELSE \E food \in Board :
               snake' = [moved EXCEPT !.score = @ + 10, !.food = food, !.grown = grows,
                                      !.length = IF grows THEN @ + 1 ELSE @]

(* snake_key: w and s while the snake goes sideways, a and d while it goes *)
(* up or down.                                                             *)
Turn ==
  /\ ~snake.game_over
  /\ \E d \in {<<0, -1>>, <<0, 1>>, <<-1, 0>>, <<1, 0>>} :
       /\ IF d[1] = 0 THEN snake.d[2] = 0 ELSE snake.d[1] = 0
       /\ snake' = [snake EXCEPT !.d = d]

Restart ==
  /\ snake.game_over
  /\ \E food \in Board : snake' = Started(snake.cell, food)

SnakeNext == Move \/ Turn \/ Restart

-----------------------------------------------------------------------------
SnakeTypeOK ==
  /\ snake.length \in 3 .. SNAKE_MAX_LEN
  /\ snake.food \in Board

Adjacent(c, e) == <<e[1] - c[1], e[2] - c[2]>> \in {<<0, -1>>, <<0, 1>>, <<-1, 0>>, <<1, 0>>}

(* While the game goes on its snake is a path on the board that does not   *)
(* meet its own head, and has a segment for every ten points until it is   *)
(* as long as it can be. The cell of a segment that was just won is not a  *)
(* part of the path until the next move: it holds what was there.          *)
(* (snake_update, snake_key)                                               *)
BodyIsAPath ==
  ~snake.game_over =>
    LET body == snake.length - (IF snake.grown THEN 1 ELSE 0)
    IN /\ snake.cell[1] \in Board
       /\ \A i \in 2 .. body : /\ Adjacent(snake.cell[i - 1], snake.cell[i])
                               /\ snake.cell[i] # snake.cell[1]
       /\ snake.length < SNAKE_MAX_LEN => snake.score = 10 * (snake.length - 3)
=============================================================================
