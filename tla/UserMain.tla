------------------------------ MODULE UserMain ------------------------------
(***************************************************************************)
(* The text of the user programs: every main of user/main.c with the       *)
(* printf of user/printf.c, as sequences of instructions.  UserProgram     *)
(* says what the instructions do.                                          *)
(*                                                                         *)
(* The second part says what the theorems about UserProgram ask of the     *)
(* text, instruction by instruction; MCParts has it evaluated.             *)
(***************************************************************************)
EXTENDS Integers, Sequences, FiniteSets

Do(op) == <<[op |-> op]>>
Put(kind, c) == <<[op |-> "putc", kind |-> kind, char |-> c]>>

(* printf of a line with the pid and a value: its arguments, vprintfmt     *)
(* with putc, and what follows vprintfmt in printf.                        *)
TailKept  == <<>>
TailReset == Do("reset")
printf(label, value) ==
  Do("getpid") \o Do(value) \o Put("label", label) \o Put("pid", "a0")
    \o Put("value", "value") \o Put("NUL", "NUL") \o Do("write") \o TailReset

(* while (1) body: wait() only takes time, which every step may. *)
Loop(body) == body \o <<[op |-> "jump", by |-> -Len(body)]>>

(* if (pid == 0) child else parent, where child never ends. *)
Branch(child, parent) == <<[op |-> "bnez", by |-> Len(child) + 1]>> \o child \o parent

Counting(label) == printf(label, "global_variable++")
Message(label) == printf(label, "message")

(* Without a test main prints one line and then loops for ever. *)
NOTEST == Put("label", "No test") \o Put("NUL", "NUL") \o Do("write") \o TailReset
            \o Loop(<<>>)
PFH1  == Loop(printf("U-MODE", "++counter"))
PFH2  == Loop(printf("U-MODE", "global_variable++"))
FORK1 == Do("fork") \o Branch(Loop(Counting("U-CHILD")), Loop(Counting("U-PARENT")))
FORK2 == Counting("U") \o Counting("U") \o Counting("U") \o Do("store") \o Do("fork")
           \o Branch(Message("U-CHILD") \o Loop(Counting("U-CHILD")),
                     Message("U-PARENT") \o Loop(Counting("U-PARENT")))
ForkedAgain == Counting("U") \o Do("fork") \o Do("fork") \o Counting("U")
                 \o Do("fork") \o Do("fork") \o Loop(Counting("U"))
FORK3 == Counting("U") \o Do("fork") \o Do("fork") \o Counting("U") \o Do("fork")
           \o Loop(Counting("U"))

AllMains == {NOTEST, PFH1, PFH2, FORK1, FORK2, FORK3}

(* The characters of a line of program m, by kind. *)
Line(m) == IF m = NOTEST THEN <<"label", "NUL">> ELSE <<"label", "pid", "value", "NUL">>

-----------------------------------------------------------------------------
(* What the theorems ask.  A condition says what is to hold at an          *)
(* instruction, and that it passes on to those that may follow.            *)
Op(m, k) == m[k].op
Follows(m, k) ==
  CASE Op(m, k) = "jump" -> {k + m[k].by}
    [] Op(m, k) = "bnez" -> {k + 1, k + m[k].by}
    [] OTHER             -> {k + 1}

Assignments == {"global_variable++", "++counter", "message"}
Operations  == Assignments \cup {"getpid", "store", "putc", "write", "reset", "jump",
                                 "bnez", "fork"}

(* The text does not run past its end. *)
Closed(m) ==
  /\ DOMAIN m \subseteq Nat /\ 1 \in DOMAIN m
  /\ \A k \in DOMAIN m : Op(m, k) \in Operations /\ Follows(m, k) \subseteq DOMAIN m

(* The number of characters in the buffer. *)
Before(m, kind) == CHOOSE n \in 0 .. Len(Line(m)) - 1 : Line(m)[n + 1] = kind
Filled(m, k) ==
  CASE Op(m, k) = "putc" -> Before(m, m[k].kind)
    [] Op(m, k) \in {"write", "reset"} -> Len(Line(m))
    [] OTHER -> 0

(* The program holds its pid in a0, from getpid to the putc that prints it. *)
KnowsPid(m, k) ==
  m # NOTEST /\ (Op(m, k) \in Assignments \/ (Op(m, k) = "putc" /\ Filled(m, k) <= 1))

(* A line is put into an empty buffer in its order, written and removed.   *)
LineUp(m, k, t) ==
  /\ Filled(m, t) = IF Op(m, k) = "putc" THEN Filled(m, k) + 1
                    ELSE IF Op(m, k) = "reset" THEN 0 ELSE Filled(m, k)
  /\ KnowsPid(m, t) => Op(m, k) = "getpid"
                         \/ (KnowsPid(m, k) /\ Op(m, k) \in Assignments \cup {"putc"})
LinesFormed(m) ==
  /\ Filled(m, 1) = 0 /\ ~KnowsPid(m, 1)
  /\ \A k \in DOMAIN m :
       /\ \A t \in Follows(m, k) : LineUp(m, k, t)
       /\ Op(m, k) = "putc" => /\ Filled(m, k) \in 0 .. Len(Line(m)) - 1
                               /\ m[k].kind = Line(m)[Filled(m, k) + 1]

(* The two sides of an if, and what comes before it. *)
Branches(m)      == {b \in DOMAIN m : Op(m, b) = "bnez"}
BeforeIf(m, k)   == \E b \in Branches(m) : k < b
ChildSide(m, k)  == \E b \in Branches(m) : b < k /\ k < b + m[b].by
ParentSide(m, k) == \E b \in Branches(m) : k >= b + m[b].by

(* Parent and child part at the if behind the fork, and stay apart.        *)
PartWays(m, k, t) ==
  /\ BeforeIf(m, t) => BeforeIf(m, k)
  /\ Op(m, t) = "bnez" => Op(m, k) = "fork" /\ BeforeIf(m, k)
  /\ ChildSide(m, t) => ChildSide(m, k) \/ (Op(m, k) = "bnez" /\ t = k + 1)
  /\ ParentSide(m, t) => ParentSide(m, k) \/ (Op(m, k) = "bnez" /\ t # k + 1)
BranchesFormed(m) ==
  /\ ~ChildSide(m, 1) /\ Op(m, 1) # "bnez"
  /\ \A k \in DOMAIN m :
       /\ \A t \in Follows(m, k) : PartWays(m, k, t)
       /\ Op(m, k) = "bnez" => m[k].by \in Nat \ {0, 1}
       /\ Op(m, k) = "fork" => ~BeforeIf(m, k + 1) /\ ~ParentSide(m, k + 1)
       /\ Op(m, k) = "putc" => /\ m[k].char = "U-CHILD"  => ChildSide(m, k)
                               /\ m[k].char = "U-PARENT" => ParentSide(m, k)

(* A value has been computed and is not yet shown. *)
InLine(m, k) == Op(m, k) \in {"putc", "write"}
Stored(m, k) == \E j \in 1 .. k - 1 : Op(m, j) = "store"

(* Each line shows a value of its own, messages only those that exist.     *)
ValueOnce(m, k, t) ==
  /\ InLine(m, t) <=> Op(m, k) \in Assignments \cup {"putc"}
  /\ Stored(m, t) => Stored(m, k) \/ Op(m, k) = "store"
CountsFormed(m) ==
  m # NOTEST =>
    /\ ~InLine(m, 1)
    /\ \A k \in DOMAIN m :
         /\ \A t \in Follows(m, k) : ValueOnce(m, k, t)
         /\ Op(m, k) = "++counter" => m = PFH1
         /\ Op(m, k) = "global_variable++" => m # PFH1
         /\ Op(m, k) = "message" => Stored(m, k)

(* The number of tasks that a task at instruction k may become. *)
Offspring(m, k) == 2 ^ Cardinality({j \in DOMAIN m : j >= k /\ Op(m, j) = "fork"})

(* A fork makes two tasks of one, and none is made in a loop. *)
ForksFormed(m) ==
  \A k \in DOMAIN m :
    /\ Offspring(m, k) \in Nat \ {0}
    /\ \A t \in Follows(m, k) :
         Offspring(m, k) >= IF Op(m, k) = "fork" THEN 2 * Offspring(m, t) ELSE Offspring(m, t)

Formed(m) ==
  Closed(m) /\ LinesFormed(m) /\ BranchesFormed(m) /\ CountsFormed(m) /\ ForksFormed(m)
=============================================================================
