----------------------------- MODULE Ownership -----------------------------
(***************************************************************************)
(* Resources from the checker to the running program.  A behaviour first   *)
(* writes a function, statement by statement: a statement is written only  *)
(* if the checker (mort/typechecker.py) accepts it, and what the code      *)
(* generator (mort/codegen.py) emits for it is appended to `code'.  Then   *)
(* the emitted C is executed, every condition going either way.  The two   *)
(* passes of the compiler are taken together, statement by statement: the  *)
(* generator never changes what the checker sees.                          *)
(***************************************************************************)
EXTENDS Integers, Sequences, SequencesExt, FiniteSets

CONSTANTS
    Names,          \* names of local bindings
    Styles,         \* kinds of function: the forms of statement it is written
                    \* with, whether it returns void, or else a resource or
                    \* an error, and, a bound, its number of statements
    Shadowing       \* an inner block may declare a name again

ASSUME NamesAssumption == IsFiniteSet(Names)
ASSUME StyleAssumption ==
    /\ Shadowing \in BOOLEAN
    /\ \A st \in Styles : st.void \in BOOLEAN /\ st.bound \in Nat

VARIABLES
    style,      \* the kind of function that is written
    decls,      \* every declaration so far: its name, scope depth and loop depth
    visible,    \* the declarations (indices of decls) in an open scope
    moved,      \* the checker: bindings with "moved"
    frames,     \* open blocks, innermost last
    items,      \* defer_scopes, flattened: what leaving each scope must emit
    code,       \* the C emitted so far
    size,       \* statements so far
    pc,         \* 0 while compiling, then the next instruction
    inst,       \* run: the resource a declared variable holds, 0 for garbage
    live,       \* run: the mort_live flag of a declared variable
    status      \* run: what became of the resource a declaration created

compiler == <<style, decls, visible, moved, frames, items, code, size>>
machine == <<inst, live, status>>
vars == <<compiler, pc, machine>>

----------------------------------------------------------------------------
(* Emitted C.  A variable is named by the declaration C resolves it to at  *)
(* that point of the text; a block, by the number of the statement.        *)

Ops == {"fresh", "from", "copy", "take", "out", "destroy", "drop", "deferred",
        "use", "if", "else", "end", "loop", "test", "again", "break",
        "continue", "ret"}
I(op, at) == [op |-> op, at |-> at, src |-> at, flag |-> at]

Emit(s) == code' = code \o s
Position(op, at) ==
    SelectInSeq(code, LAMBDA i : i.op = op /\ i.at = at)

(* Innermost declaration of a name: inner scopes are declared later.       *)
Named(x) == {d \in visible : decls[d].name = x}
Resolve(x) == CHOOSE d \in Named(x) : \A e \in Named(x) : e <= d
Declared(x) == Named(x) # {}

Depth == Len(frames)
Top == frames[Depth]
InLoop(f) == f.kind \in {"while", "forever"}
LoopDepth == Cardinality({k \in 1 .. Depth : InLoop(frames[k])})
LoopBase == CHOOSE k \in 1 .. Depth :
    InLoop(frames[k]) /\ \A j \in k + 1 .. Depth : ~InLoop(frames[j])

(* The scopes outside depth d come first in defer_scopes.                  *)
Outside(d) == CHOOSE n \in 0 .. Len(items) :
    \A k \in DOMAIN items : k <= n <=> items[k].depth < d
Kept(d) == SubSeq(items, 1, Outside(d))
Inner(d) == SubSeq(items, Outside(d) + 1, Len(items))

(* _emit_defer_scopes(d): the items of the scopes from depth d inwards, in *)
(* reverse order, their names resolved where the code is emitted.          *)
Owed(d) == LET inner == Inner(d)
           IN  [k \in DOMAIN inner |-> I(inner[k].op, Resolve(inner[k].name))]
Cleanup(d) == Reverse(Owed(d))

(* Leaving the function cleans up every scope, a loop its own and inner.   *)
Leaving == Cleanup(1) \o <<I("ret", 0)>>
(* Mutant: no cleanup before the jump. *)
LoopJumpBare(op) == <<I(op, frames[LoopBase].id)>>
LoopJump(op) == Cleanup(LoopBase) \o <<I(op, frames[LoopBase].id)>>

Item(op, x) == [op |-> op, name |-> x, depth |-> Depth]
(* Mutant: registered in front of its scope. *)
RegisterFirst(op, x) == Kept(Depth) \o <<Item(op, x)>> \o Inner(Depth)
Register(op, x) == Append(items, Item(op, x))

----------------------------------------------------------------------------
(* The checker's tests.                                                    *)

(* _declare: not twice in one scope; an outer local may be shadowed.       *)
MayDeclare(x) ==
    \A d \in Named(x) : Shadowing /\ decls[d].depth < Depth

(* _lookup: a moved binding is not used.                                   *)
MayUse(x) == Declared(x) /\ Resolve(x) \notin moved

(* A Move expression: not twice, and not out of a loop that repeats it.    *)
(* Mutant: loops are not looked at. *)
CrossesNoLoop(d) == FALSE
CrossesLoop(d) == LoopDepth > 0 /\ decls[d].loop < LoopDepth
MayMove(x) == MayUse(x) /\ ~CrossesLoop(Resolve(x))

Consumed(x) == moved \cup {Resolve(x)}

Declaration(x) == [name |-> x, depth |-> Depth, loop |-> LoopDepth]

Writes(form) ==
    /\ pc = 0 /\ form \in style.forms /\ size < style.bound
    /\ size' = size + 1
    /\ UNCHANGED <<style, pc, machine>>

----------------------------------------------------------------------------
(* Statements that declare a binding.                                      *)

Declares(x, op, src, flag) ==
    LET new == Len(decls) + 1 IN
    /\ MayDeclare(x)
    /\ decls' = Append(decls, Declaration(x))
    /\ visible' = visible \cup {new}
    /\ items' = Register("drop", x)
    /\ Emit(<<[op |-> op, at |-> new, src |-> src, flag |-> flag]>>)
    /\ UNCHANGED frames

(* let x = T { ... };                                                      *)
Let(x) ==
    /\ Writes("let")
    /\ Declares(x, "fresh", 0, 0)
    /\ UNCHANGED moved

(* let x = move y;  In C the new variable is already in scope in its own   *)
(* initializer, but its flag is declared after it.                         *)
LetMove(x, y) ==
    /\ Writes("letMove") /\ MayMove(y)
    /\ Declares(x, "from", IF x = y THEN Len(decls) + 1 ELSE Resolve(y), Resolve(y))
    /\ moved' = Consumed(y)

(* let x = y.field;  A resource read out of a field is no Var, so no       *)
(* `move' is asked for.                                                    *)
LetField(x, y) ==
    /\ Writes("letField") /\ MayUse(y)
    /\ Declares(x, "copy", IF x = y THEN Len(decls) + 1 ELSE Resolve(y), 0)
    /\ UNCHANGED moved

----------------------------------------------------------------------------
(* Statements without a block.                                             *)

Plain == UNCHANGED <<decls, visible, frames>>
Moves(x) == MayMove(x) /\ moved' = Consumed(x)

(* print(x.v);                                                             *)
Use(x) ==
    /\ Writes("use") /\ Plain /\ MayUse(x)
    /\ Emit(<<I("use", Resolve(x))>>)
    /\ UNCHANGED <<moved, items>>

(* consume(move x);  The callee's parameter is destroyed when it returns.  *)
Take(x) ==
    /\ Writes("take") /\ Plain /\ Moves(x)
    /\ Emit(<<I("take", Resolve(x))>>)
    /\ UNCHANGED items

(* try g();  An error leaves through every scope's cleanup.                *)
Propagate == <<I("if", size)>> \o Leaving \o <<I("end", size)>>
Try ==
    /\ Writes("try") /\ Plain /\ ~style.void
    /\ Emit(Propagate)
    /\ UNCHANGED <<moved, items>>

(* consume(move x, try g());  The try is hoisted in front of the call.     *)
TakeTry(x) ==
    /\ Writes("takeTry") /\ Plain /\ ~style.void /\ Moves(x)
    /\ Emit(Propagate \o <<I("take", Resolve(x))>>)
    /\ UNCHANGED items

(* destroy(&x);                                                            *)
Destroy(x) ==
    /\ Writes("destroy") /\ Plain /\ MayUse(x)
    /\ moved' = Consumed(x)
    /\ Emit(<<I("destroy", Resolve(x))>>)
    /\ UNCHANGED items

(* defer print(x.v);                                                       *)
DeferUse(x) ==
    /\ Writes("deferUse") /\ Plain /\ MayUse(x)
    /\ items' = Register("use", x)
    /\ UNCHANGED <<moved, code>>

(* defer destroy(&x);  The binding's own cleanup is taken off every scope. *)
DeferDestroy(x) ==
    /\ Writes("deferDestroy") /\ Plain /\ MayUse(x)
    /\ items' = Append(
           SelectSeq(items, LAMBDA it : it.op # "drop" \/ it.name # x),
           Item("deferred", x))
    /\ UNCHANGED <<moved, code>>

----------------------------------------------------------------------------
(* Jumps.  Everything after one in its block is still checked and emitted. *)

Jumps == UNCHANGED <<decls, visible, items>>
Returning(fs) == [fs EXCEPT ![Len(fs)].returns = TRUE]

Return ==
    /\ Writes("return") /\ Jumps /\ style.void
    /\ frames' = Returning(frames)
    /\ Emit(Leaving)
    /\ UNCHANGED moved

(* return move x;                                                          *)
ReturnMove(x) ==
    /\ Writes("returnMove") /\ Jumps /\ ~style.void /\ Moves(x)
    /\ frames' = Returning(frames)
    /\ Emit(<<I("out", Resolve(x))>> \o Leaving)

Break ==
    /\ Writes("break") /\ Jumps /\ LoopDepth > 0
    /\ frames' = [frames EXCEPT ![LoopBase].breaks = TRUE]
    /\ Emit(LoopJump("break"))
    /\ UNCHANGED moved
Continue ==
    /\ Writes("continue") /\ Jumps /\ LoopDepth > 0
    /\ Emit(LoopJump("continue"))
    /\ UNCHANGED <<frames, moved>>

----------------------------------------------------------------------------
(* Blocks.  A frame keeps the moves before its branches and after each     *)
(* branch that falls through, and whether every earlier branch returns.    *)

Opened(kind, before) ==
    [kind |-> kind, id |-> size, before |-> before, joins |-> {},
     all |-> TRUE, returns |-> FALSE, breaks |-> FALSE, from |-> 0]
Opens(kind, before) ==
    /\ frames' = Append(frames, Opened(kind, before))
    /\ moved' = before
NoBinding == UNCHANGED <<decls, visible, items>>

OpenIf ==
    /\ Writes("if") /\ NoBinding
    /\ Opens("then", moved)
    /\ Emit(<<I("if", size)>>)

OpenBlock ==
    /\ Writes("block") /\ NoBinding
    /\ Opens("block", moved)
    /\ UNCHANGED code

OpenWhile(kind) ==
    /\ Writes(kind) /\ NoBinding
    /\ Opens(kind, moved)
    /\ Emit(<<I("loop", size)>> \o
            (IF kind = "while" THEN <<I("test", size)>> ELSE << >>))

(* while consume(move x) { : the condition is checked outside the loop it  *)
(* is evaluated in.                                                        *)
OpenWhileMove(x) ==
    /\ Writes("whileMove") /\ NoBinding /\ MayMove(x)
    /\ Opens("while", Consumed(x))
    /\ Emit(<<I("loop", size), I("take", Resolve(x)), I("test", size)>>)

(* match move x { A(y) => ...   An arm's payload is declared in its scope. *)
Payload(y, fs) ==
    LET new == Len(decls) + 1
        open == {d \in visible : decls[d].depth < Len(fs)} IN
    /\ Shadowing \/ \A d \in open : decls[d].name # y
    /\ decls' = Append(decls, [name |-> y, depth |-> Len(fs), loop |-> LoopDepth])
    /\ items' = Append(Kept(Len(fs)), [op |-> "drop", name |-> y, depth |-> Len(fs)])
    /\ visible' = open \cup {new}

OpenMatch(x, y) ==
    LET new == Len(decls) + 1 IN
    /\ Writes("match") /\ MayMove(x)
    /\ frames' = Append(frames, [Opened("arm", Consumed(x))
                                    EXCEPT !.from = Resolve(x)])
    /\ moved' = Consumed(x)
    /\ Payload(y, frames')
    /\ Emit(<<I("if", size), [op |-> "from", at |-> new, src |-> Resolve(x),
                              flag |-> Resolve(x)]>>)

(* The moves a finished branch hands on: none when it always returns.      *)
Joins(f) == f.joins \cup (IF f.returns THEN {} ELSE {moved})
NextBranch(kind) ==
    [Top EXCEPT !.kind = kind, !.joins = Joins(Top),
                !.all = Top.all /\ Top.returns, !.returns = FALSE]

Closes ==
    /\ pc = 0
    /\ UNCHANGED <<style, size, pc, machine>>
InFrame(kinds) == Depth > 0 /\ Top.kind \in kinds

Else ==
    /\ Closes /\ InFrame({"then"})
    /\ frames' = [frames EXCEPT ![Depth] = NextBranch("else")]
    /\ moved' = Top.before
    /\ items' = Kept(Depth)
    /\ visible' = {d \in visible : decls[d].depth < Depth}
    /\ Emit(Cleanup(Depth) \o <<I("else", Top.id)>>)
    /\ UNCHANGED decls

NextArm(y) ==
    LET new == Len(decls) + 1 IN
    /\ Closes /\ InFrame({"arm"})
    /\ frames' = [frames EXCEPT ![Depth] = NextBranch("lastArm")]
    /\ moved' = Top.before
    /\ Payload(y, frames)
    /\ Emit(Cleanup(Depth) \o
            <<I("else", Top.id), [op |-> "from", at |-> new, src |-> Top.from,
                                  flag |-> Top.from]>>)

(* The moves after a block: those of any branch that falls through.        *)
(* Mutant: moved only if every branch moves. *)
MergedByAll(joins, before) == {d \in UNION joins : \A j \in joins : d \in j}
Merged(joins, before) == IF joins = {} THEN before ELSE UNION joins
After ==
    CASE Top.kind = "then" -> Merged(Joins(Top) \cup {Top.before}, Top.before)
      [] Top.kind \in {"else", "lastArm"} -> Merged(Joins(Top), Top.before)
      [] OTHER -> moved

(* _block_always_returns, for the block just closed.                       *)
AlwaysReturns ==
    CASE Top.kind = "block" -> Top.returns
      [] Top.kind \in {"else", "lastArm"} -> Top.all /\ Top.returns
      [] Top.kind = "forever" -> ~Top.breaks
      [] OTHER -> FALSE

Ending ==
    CASE InLoop(Top) -> <<I("again", Top.id)>>
      [] Top.kind = "block" -> << >>
      [] OTHER -> <<I("end", Top.id)>>

Close ==
    /\ Closes
    /\ InFrame({"then", "else", "lastArm", "block", "while", "forever"})
    /\ Depth > 1
    /\ LET outer == SubSeq(frames, 1, Depth - 1)
       IN  frames' = IF AlwaysReturns THEN Returning(outer) ELSE outer
    /\ moved' = After
    /\ items' = Kept(Depth)
    /\ visible' = {d \in visible : decls[d].depth < Depth}
    /\ Emit(Cleanup(Depth) \o Ending)
    /\ UNCHANGED decls

(* The end of the function, if the checker lets it end there; main calls.  *)
EndFn ==
    /\ pc = 0 /\ Depth = 1
    /\ style.void \/ Top.returns
    /\ Emit(IF style.void THEN Leaving ELSE <<I("ret", 0)>>)
    /\ pc' = 1 /\ frames' = << >>
    /\ inst' = [d \in 1 .. Len(decls) |-> 0]
    /\ live' = [d \in 1 .. Len(decls) |-> FALSE]
    /\ status' = [d \in 1 .. Len(decls) |-> "none"]
    /\ decls' = << >> /\ moved' = {} /\ visible' = {} /\ items' = << >>
    /\ UNCHANGED <<style, size>>

Init ==
    /\ style \in Styles
    /\ decls = << >> /\ visible = {} /\ moved = {} /\ items = << >>
    /\ frames = <<[kind |-> "fn", id |-> 0, before |-> {}, joins |-> {},
                   all |-> TRUE, returns |-> FALSE, breaks |-> FALSE, from |-> 0]>>
    /\ code = << >> /\ size = 0 /\ pc = 0
    /\ inst = << >> /\ live = << >> /\ status = << >>

Statement ==
    \/ \E x \in Names : Let(x) \/ Use(x) \/ Take(x) \/ TakeTry(x) \/ Destroy(x)
                        \/ DeferUse(x) \/ DeferDestroy(x) \/ ReturnMove(x)
                        \/ OpenWhileMove(x) \/ NextArm(x)
    \/ \E x, y \in Names : LetMove(x, y) \/ LetField(x, y) \/ OpenMatch(x, y)
    \/ \E kind \in {"while", "forever"} : OpenWhile(kind)
    \/ Try \/ Return \/ Break \/ Continue
    \/ OpenIf \/ OpenBlock \/ Else \/ Close \/ EndFn

----------------------------------------------------------------------------
(* The compiled function runs.  Executing a declaration, every variable    *)
(* declared after it in the text is out of scope.                          *)

Now == code[pc]
Ends(i) == [status EXCEPT ![inst[i.at]] = "dead"]
Falls == pc' = pc + 1
Goto(op) == pc' = Position(op, Now.at) + 1
Running(ops) == pc \in 1 .. Len(code) /\ Now.op \in ops /\ UNCHANGED compiler
Data == UNCHANGED machine

Holding(r) == [d \in DOMAIN inst |->
    IF d < Now.at THEN inst[d] ELSE IF d = Now.at THEN r ELSE 0]
Live == [d \in DOMAIN live |-> d < Now.at /\ live[d]]

RunLet ==
    /\ Running({"fresh"}) /\ Falls
    /\ inst' = Holding(Now.at)
    /\ live' = [Live EXCEPT ![Now.at] = TRUE]
    /\ status' = [status EXCEPT ![Now.at] = "live"]

(* A variable read in its own initializer is garbage.                      *)
Value == IF Now.src = Now.at THEN 0 ELSE inst[Now.src]
RunCopy ==
    /\ Running({"from", "copy"}) /\ Falls
    /\ inst' = Holding(Value)
    /\ live' = [d \in DOMAIN live |->
                   d = Now.at \/ (Live[d] /\ (Now.op = "from" => d # Now.flag))]
    /\ UNCHANGED status

(* A call that destroys: the callee's, destroy's, the scope's cleanup.     *)
RunDestroy ==
    /\ Running({"take", "destroy", "deferred"}) /\ Falls
    /\ status' = Ends(Now)
    /\ live' = IF Now.op = "deferred" THEN live ELSE [live EXCEPT ![Now.at] = FALSE]
    /\ UNCHANGED inst

RunDrop ==
    /\ Running({"drop"}) /\ Falls
    /\ status' = IF live[Now.at] THEN Ends(Now) ELSE status
    /\ UNCHANGED <<inst, live>>

RunUse == Running({"use"}) /\ Falls /\ Data

RunOut ==
    /\ Running({"out"}) /\ Falls
    /\ status' = [status EXCEPT ![inst[Now.at]] = "out"]
    /\ live' = [live EXCEPT ![Now.at] = FALSE]
    /\ UNCHANGED inst

(* Conditions go either way.                                               *)
RunIf ==
    /\ Running({"if"}) /\ Data
    /\ Falls \/ IF Position("else", Now.at) # 0 THEN Goto("else") ELSE Goto("end")
RunTest == Running({"test"}) /\ Data /\ (Falls \/ Goto("again"))
RunElse == Running({"else"}) /\ Data /\ Goto("end")
RunLoop == Running({"again", "continue"}) /\ Data /\ Goto("loop")
RunBreak == Running({"break"}) /\ Data /\ Goto("again")
RunOn == Running({"end", "loop"}) /\ Data /\ Falls
RunRet == Running({"ret"}) /\ Data /\ pc' = Len(code) + 1

Execute ==
    \/ RunLet \/ RunCopy \/ RunDestroy \/ RunDrop \/ RunUse \/ RunOut
    \/ RunIf \/ RunTest \/ RunElse \/ RunLoop \/ RunBreak \/ RunOn \/ RunRet

Next == Statement \/ Execute

Spec == Init /\ [][Next]_vars

----------------------------------------------------------------------------
(* Properties.                                                             *)

(* The variables have the types the two passes and the machine give them.  *)
TypeOK ==
    /\ \A d \in DOMAIN decls : decls[d].name \in Names /\ decls[d].depth \in 1 .. size + 1
    /\ visible \subseteq DOMAIN decls /\ moved \subseteq DOMAIN decls
    /\ size \in 0 .. style.bound /\ pc \in 0 .. Len(code) + 1
    /\ \A k \in DOMAIN items : items[k].name \in Names /\ items[k].depth \in 1 .. Depth
    /\ \A k \in DOMAIN code :
           code[k].op \in Ops /\ code[k].at \in 0 .. style.bound * 3
    /\ inst \in [DOMAIN inst -> {0} \cup DOMAIN inst]
    /\ live \in [DOMAIN inst -> BOOLEAN]
    /\ status \in [DOMAIN inst -> {"none", "live", "dead", "out"}]

Executing(ops) == pc \in 1 .. Len(code) /\ Now.op \in ops

(* A resource is destroyed, given away or returned only while it is still  *)
(* whole: no accepted function destroys one twice.                         *)
DestroyedOnce ==
    (\/ Executing({"take", "destroy", "deferred", "out"})
     \/ Executing({"drop"}) /\ live[Now.at])
    => inst[Now.at] # 0 /\ status[inst[Now.at]] = "live"

(* What the checker does not follow: a resource copied out of a field, a   *)
(* deferred destroy next to another end of the binding, and a destroy or a *)
(* condition that a loop repeats.                                          *)
Written(forms) == style.forms \cap forms # {}
Followed ==
    /\ ~Written({"letField", "deferDestroy", "whileMove"})
    /\ ~(Written({"destroy"}) /\ Written({"while", "forever"}))

(* No accepted function of the forms it follows destroys a resource twice, *)
(* through branches, loops, jumps, matches and errors (_merge_moved_states *)
(* and the loop test of Move).                                             *)
FollowedDestroyedOnce == Followed => DestroyedOnce

(* Nor does one read a resource after its end, unless the read is deferred *)
(* past a move or goes through a copy out of a field.                      *)
EndingForms == {"letMove", "take", "takeTry", "destroy", "deferDestroy",
                "whileMove", "match", "returnMove"}
UsedWhole ==
    (Executing({"use"}) /\ (Written({"deferUse", "letField"}) => ~Written(EndingForms))) =>
        inst[Now.at] # 0 /\ status[inst[Now.at]] \in {"live", "out"}

(* Every resource is destroyed or handed on: none is left when the         *)
(* function has returned, nor when a loop creates the next one, unless a   *)
(* branch defers the destroy.                                              *)
NothingLeaks ==
    (Written({"deferDestroy"}) => ~Written({"if", "while", "forever", "block"})) =>
        /\ (pc = Len(code) + 1 /\ pc > 1) => \A d \in DOMAIN status : status[d] # "live"
        /\ Executing({"fresh"}) => status[Now.at] # "live"

(* Leaving scopes destroys in reverse order of declaration.                *)
ReverseOrder ==
    (Executing({"drop"}) /\ live[Now.at]) =>
        \A d \in DOMAIN inst : (d > Now.at /\ live[d] /\ inst[d] # 0)
                               => status[inst[d]] # "live"
=============================================================================
