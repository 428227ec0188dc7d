------------------------------ MODULE Drawing ------------------------------
(***************************************************************************)
(* What the drawing functions of the IO chip promise the program that uses *)
(* them, without threads: the program writes argument registers and        *)
(* commits methods; the committed methods are performed one by one, in the *)
(* order of their commits, each with the arguments it was committed with   *)
(* and the brush that the methods before it left.  How long a committed    *)
(* method has to wait is not said.                                         *)
(***************************************************************************)
EXTENDS Sequences

CONSTANTS Registers, Values, Methods, SetBody, SetOutline, Shapes

VARIABLES
  args,      \* the argument registers
  todo,      \* what is committed and not performed
  brush,     \* the colours of body and outline
  vram       \* the shapes painted, each with its arguments and its colours

dvars == <<args, todo, brush, vram>>

DInit ==
  /\ args \in [Registers -> Values]
  /\ todo = <<>>
  /\ brush \in [body : Values, outline : Values]
  /\ vram = <<>>

SetArgument(r, v) ==
  /\ args' = [args EXCEPT ![r] = v]
  /\ UNCHANGED <<todo, brush, vram>>

Commit(m) ==
  /\ todo' = Append(todo, [method |-> m, args |-> args])
  /\ UNCHANGED <<args, brush, vram>>

Colour(i) ==
  /\ brush' = CASE i.method = SetBody    -> [brush EXCEPT !.body = i.args[1]]
                [] i.method = SetOutline -> [brush EXCEPT !.outline = i.args[1]]
                [] OTHER                 -> brush
  /\ vram' = IF i.method \in Shapes THEN Append(vram, [shape |-> i, brush |-> brush]) ELSE vram

Perform ==
  /\ todo # <<>>
  /\ Colour(Head(todo))
  /\ todo' = Tail(todo)
  /\ UNCHANGED args

DNext ==
  \/ \E r \in Registers, v \in Values : SetArgument(r, v)
  \/ \E m \in Methods : Commit(m)
  \/ Perform

DSpec == DInit /\ [][DNext]_dvars
=============================================================================
