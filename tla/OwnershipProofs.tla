-------------------------- MODULE OwnershipProofs --------------------------
(***************************************************************************)
(* Proofs about Ownership for every set of names and every kind of         *)
(* function made of the forms the checker follows: the code that is        *)
(* emitted can be annotated, instruction by instruction, with the          *)
(* bindings whose scope is open and those that are certainly whole, and    *)
(* every execution agrees with the annotation.                             *)
(***************************************************************************)
EXTENDS Ownership, SequenceTheorems, FiniteSetTheorems, NaturalsInduction,
        WellFoundedInduction, TLAPS

-----------------------------------------------------------------------------
(* The inductive invariant of the compiler. *)

Kinds == {"fn", "then", "else", "arm", "lastArm", "block", "while", "forever"}
Frame == [kind : Kinds, id : Nat, before : SUBSET Nat, joins : SUBSET SUBSET Nat,
          all : BOOLEAN, returns : BOOLEAN, breaks : BOOLEAN, from : Nat]
Binding == [name : Names, depth : Nat, loop : Nat]
Cleanups == [op : {"drop", "use"}, name : Names, depth : Nat]
Instruction == [op : Ops, at : Nat, src : Nat, flag : Nat]

Typed ==
    /\ style \in Styles /\ size \in Nat
    /\ decls \in Seq(Binding) /\ items \in Seq(Cleanups)
    /\ frames \in Seq(Frame) /\ code \in Seq(Instruction)
    /\ visible \subseteq 1 .. Len(decls) /\ moved \subseteq 1 .. Len(decls)

(* The bindings declared outside the block of frame k.                     *)
Around(k) == {d \in visible : decls[d].depth < k}
Loops(k) == Cardinality({j \in 1 .. k : InLoop(frames[j])})

(* The frames are the function's and then those of open statements, whose  *)
(* numbers increase.                                                       *)
Nesting ==
    /\ Depth > 0
    /\ \A k \in 1 .. Depth : frames[k].kind = "fn" <=> k = 1
    /\ \A k \in 2 .. Depth : frames[k].id < size
    /\ \A j, k \in 2 .. Depth : j < k => frames[j].id < frames[k].id

(* Open scopes hold different names, inner bindings are declared later,    *)
(* and a binding knows the loops around it.                                *)
Bindings ==
    /\ \A d \in visible : decls[d].depth \in 1 .. Depth
    /\ \A d \in visible : decls[d].loop = Loops(decls[d].depth)
    /\ \A d, e \in visible : decls[d].name = decls[e].name => d = e
    /\ \A d, e \in visible : d < e => decls[d].depth <= decls[e].depth

(* Every open binding has its cleanup in its scope, in order; whatever     *)
(* else is deferred names a binding that is cleaned up after it.           *)
Placed == \A k \in DOMAIN items : items[k].depth \in 1 .. Depth
Sorted == \A k, l \in DOMAIN items : k < l => items[k].depth <= items[l].depth
NamesOpen == \A k \in DOMAIN items : \E d \in visible :
                 decls[d].name = items[k].name /\ decls[d].depth <= items[k].depth
AtHome == \A k \in DOMAIN items, d \in visible :
              items[k].op = "drop" /\ items[k].name = decls[d].name
              => decls[d].depth = items[k].depth
EachDropped == \A d \in visible : \E k \in DOMAIN items :
                   items[k].op = "drop" /\ items[k].name = decls[d].name
InOrder == \A k, l \in DOMAIN items, d, e \in visible :
               (/\ k < l /\ items[k].op = "drop" /\ items[l].op = "drop"
                /\ items[k].name = decls[d].name /\ items[l].name = decls[e].name) => d < e
ReadBefore == \A l \in DOMAIN items : items[l].op = "use" =>
                  /\ Written({"deferUse"})
                  /\ \E k \in DOMAIN items :
                         k < l /\ items[k].op = "drop" /\ items[k].name = items[l].name
Deferred == /\ Placed /\ Sorted /\ NamesOpen /\ AtHome /\ EachDropped /\ InOrder
            /\ ReadBefore

(* What the checker takes for moved only grows from the beginning of a     *)
(* block to its end, and in a loop only by bindings of its own.            *)
Moved ==
    /\ \A k \in 1 .. Depth : frames[k].before \subseteq moved
    /\ \A j, k \in 1 .. Depth : j < k => frames[j].before \subseteq frames[k].before
    /\ \A k \in 1 .. Depth : \A m \in frames[k].joins :
           frames[k].before \subseteq m /\ m \subseteq 1 .. Len(decls)
    /\ \A k \in 1 .. Depth : InLoop(frames[k]) =>
           \A d \in Around(k) \ frames[k].before :
               /\ d \notin moved
               /\ \A j \in k + 1 .. Depth :
                      d \notin frames[j].before /\ \A m \in frames[j].joins : d \notin m

(* What a frame knows of its branches.                                     *)
Branches ==
    /\ \A k \in 1 .. Depth : frames[k].kind \in {"then", "arm"} =>
           frames[k].joins = {} /\ frames[k].all
    /\ \A k \in 1 .. Depth : frames[k].kind \in {"else", "lastArm"} =>
           (frames[k].joins = {} <=> frames[k].all)
    /\ \A k \in 1 .. Depth : frames[k].kind = "arm" =>
           frames[k].from \in Around(k) \cap frames[k].before
    /\ \A k \in 1 .. Depth : InLoop(frames[k]) => Written({"while", "forever"})
    /\ ~Written(EndingForms) =>
           moved = {} /\ \A k \in 1 .. Depth : frames[k].before = {} /\ frames[k].joins \subseteq {{}}

Scoped == Typed /\ Nesting /\ Bindings /\ Deferred /\ Moved /\ Branches

-----------------------------------------------------------------------------
(* The annotation of the emitted code. *)

(* What holds before an instruction: whether the checker's flow reaches    *)
(* it, the bindings that are still to be cleaned up, and those of them     *)
(* that certainly hold a whole resource.                                   *)
Notes == {v \in [reached : BOOLEAN, open : SUBSET Nat, whole : SUBSET Nat] :
              v.whole \subseteq v.open}
Known(open, whole) == [reached |-> TRUE, open |-> open, whole |-> whole]
Unreached == [reached |-> FALSE, open |-> {}, whole |-> {}]

(* Whatever satisfies v satisfies w.                                       *)
Flows(v, w) ==
    v.reached => w.reached /\ w.open = v.open /\ w.whole \subseteq v.whole

(* Every reader of a resource is in front of its end when nothing but the  *)
(* scopes ends one, or when no reader is deferred.                         *)
ReadsWhole == ~Written({"deferUse"}) \/ ~Written(EndingForms)

(* What an instruction makes of v.  All jumps of a statement join what     *)
(* holds at its head (a loop's start, the second branch) or at its tail.   *)
Rule(i, v, w, labels) ==
    \/ /\ i.op = "fresh"
       /\ v.reached =>
              /\ \A d \in v.open : d < i.at
              /\ Flows(Known(v.open \cup {i.at}, v.whole \cup {i.at}), w)
    \/ /\ i.op = "from" /\ i.flag = i.src
       /\ v.reached =>
              /\ i.src \in v.whole /\ \A d \in v.open : d < i.at
              /\ Flows(Known(v.open \cup {i.at}, (v.whole \ {i.src}) \cup {i.at}), w)
    \/ /\ i.op \in {"take", "destroy", "out"}
       /\ v.reached => i.at \in v.whole /\ Flows(Known(v.open, v.whole \ {i.at}), w)
    \/ /\ i.op = "drop"
       /\ v.reached =>
              /\ i.at \in v.open /\ \A d \in v.open : d <= i.at
              /\ Flows(Known(v.open \ {i.at}, v.whole \ {i.at}), w)
    \/ /\ i.op = "use" /\ Flows(v, w)
       /\ v.reached => (ReadsWhole => i.at \in v.whole)
    \/ i.op = "if" /\ Flows(v, labels[i.at].head) /\ Flows(v, w)
    \/ i.op = "loop" /\ Flows(v, labels[i.at].head)
       /\ Flows(labels[i.at].head, w)
    \/ i.op = "else" /\ Flows(v, labels[i.at].tail) /\ Flows(labels[i.at].head, w)
    \/ i.op = "end" /\ Flows(v, labels[i.at].tail) /\ Flows(labels[i.at].tail, w)
    \/ i.op = "test" /\ Flows(v, labels[i.at].tail) /\ Flows(v, w)
    \/ i.op = "again" /\ Flows(v, labels[i.at].head) /\ Flows(labels[i.at].tail, w)
    \/ i.op = "continue" /\ Flows(v, labels[i.at].head)
    \/ i.op = "break" /\ Flows(v, labels[i.at].tail)
    \/ i.op = "ret" /\ (v.reached => v.open = {})

Labels == [Nat -> [head : Notes, tail : Notes]]

(* The code s can be annotated so that v holds at its end.                 *)
Flowing(s, v, labels) ==
    \E notes \in [1 .. Len(s) + 1 -> Notes] :
        /\ notes[1] = Known({}, {}) /\ notes[Len(s) + 1] = v
        /\ \A k \in 1 .. Len(s) : Rule(s[k], notes[k], notes[k + 1], labels)

(* Code is annotated further, one piece after the other.                   *)
LEMMA FlowOn ==
    ASSUME NEW s \in Seq(Instruction), NEW r \in Seq(Instruction), NEW v, NEW labels,
           Flowing(s, v, labels),
           NEW path \in [0 .. Len(r) -> Notes], path[0] = v,
           \A j \in 1 .. Len(r) : Rule(r[j], path[j - 1], path[j], labels)
    PROVE  s \o r \in Seq(Instruction) /\ Flowing(s \o r, path[Len(r)], labels)
<1> DEFINE n == Len(s)
           m == Len(r)
           Good(notes) ==
               /\ notes[1] = Known({}, {}) /\ notes[n + 1] = v
               /\ \A k \in 1 .. n : Rule(s[k], notes[k], notes[k + 1], labels)
<1>1. PICK old \in [1 .. n + 1 -> Notes] : Good(old)
    BY DEF Flowing
<1> DEFINE new == [k \in 1 .. n + m + 1 |-> IF k <= n + 1 THEN old[k] ELSE path[k - n - 1]]
<1>2. /\ n \in Nat /\ m \in Nat /\ s \o r \in Seq(Instruction) /\ Len(s \o r) = n + m
      /\ \A k \in 1 .. n + m : (s \o r)[k] = IF k <= n THEN s[k] ELSE r[k - n]
    BY ConcatProperties, LenProperties
<1> HIDE DEF n, m
<1>3. new \in [1 .. n + m + 1 -> Notes]
    <2> SUFFICES ASSUME NEW k \in 1 .. n + m + 1
                 PROVE  (IF k <= n + 1 THEN old[k] ELSE path[k - n - 1]) \in Notes
        OBVIOUS
    <2>1. k <= n + 1 => k \in 1 .. n + 1
        BY <1>2
    <2>2. ~(k <= n + 1) => k - n - 1 \in 0 .. m
        BY <1>2
    <2>3. QED BY <1>1, <2>1, <2>2 DEF m
<1>4. new[1] = Known({}, {}) /\ new[n + m + 1] = path[m]
    <2>1. new[1] = old[1]
        <3>1. 1 \in 1 .. n + m + 1 /\ 1 <= n + 1
            BY <1>2
        <3>2. QED BY <3>1
    <2>2. new[n + m + 1] = path[m]
        <3>1. CASE m = 0
            <4>1. n + m + 1 = n + 1
                BY <1>2, <3>1
            <4>2. new[n + 1] = old[n + 1]
                <5>1. n + 1 \in 1 .. n + m + 1 /\ n + 1 <= n + 1
                    BY <1>2, <3>1
                <5>2. QED BY <5>1
            <4>3. QED BY <1>1, <3>1, <4>1, <4>2
        <3>2. CASE m # 0
            <4>1. n + m + 1 \in 1 .. n + m + 1 /\ ~(n + m + 1 <= n + 1) /\ ((n + m) + 1) - n - 1 = m
                BY <1>2, <3>2
            <4>2. \A k \in 1 .. n + m + 1 : ~(k <= n + 1) => new[k] = path[k - n - 1]
                OBVIOUS
            <4> HIDE DEF new
            <4>3. new[n + m + 1] = path[((n + m) + 1) - n - 1]
                BY <4>1, <4>2
            <4>4. QED BY <4>1, <4>3
        <3>3. QED BY <3>1, <3>2
    <2>3. QED BY <1>1, <2>1, <2>2
<1>5. ASSUME NEW k \in 1 .. n + m
      PROVE  Rule((s \o r)[k], new[k], new[k + 1], labels)
    <2>1. CASE k <= n
        <3>1. k \in 1 .. n /\ (s \o r)[k] = s[k] /\ new[k] = old[k] /\ new[k + 1] = old[k + 1]
            BY <1>2, <2>1
        <3>2. QED BY <1>1, <3>1
    <2>2. CASE ~(k <= n)
        <3> DEFINE j == k - n
        <3>1. j \in 1 .. m /\ (s \o r)[k] = r[j] /\ (k + 1) - n - 1 = j /\ ~(k + 1 <= n + 1)
            BY <1>2, <2>2
        <3>2. new[k + 1] = path[j]
            BY <1>2, <3>1
        <3>3. new[k] = path[j - 1]
            <4>1. CASE k = n + 1
                BY <1>1, <1>2, <4>1
            <4>2. CASE k # n + 1
                <5>1. ~(k <= n + 1) /\ k - n - 1 = j - 1 /\ k \in 1 .. n + m + 1
                    BY <1>2, <2>2, <4>2
                <5>2. QED BY <5>1
            <4>3. QED BY <4>1, <4>2
        <3> HIDE DEF j, new
        <3>4. QED BY <3>1, <3>2, <3>3 DEF m
    <2>3. QED BY <2>1, <2>2
<1> HIDE DEF new
<1>6. /\ new \in [1 .. Len(s \o r) + 1 -> Notes]
      /\ new[1] = Known({}, {}) /\ new[Len(s \o r) + 1] = path[m]
      /\ \A k \in 1 .. Len(s \o r) : Rule((s \o r)[k], new[k], new[k + 1], labels)
    BY <1>2, <1>3, <1>4, <1>5
<1>7. Flowing(s \o r, path[m], labels)
    BY <1>6 DEF Flowing
<1>8. QED BY <1>2, <1>7 DEF m

(* One instruction more.                                                   *)
LEMMA FlowOne ==
    ASSUME NEW s \in Seq(Instruction), NEW i \in Instruction, NEW v \in Notes, NEW w \in Notes,
           NEW labels, Flowing(s, v, labels), Rule(i, v, w, labels)
    PROVE  s \o <<i>> \in Seq(Instruction) /\ Flowing(s \o <<i>>, w, labels)
<1> DEFINE r == <<i>>
           path == [j \in 0 .. 1 |-> IF j = 0 THEN v ELSE w]
<1>1. r \in Seq(Instruction) /\ Len(r) = 1 /\ r[1] = i
    OBVIOUS
<1>2. path \in [0 .. 1 -> Notes] /\ path[0] = v /\ path[1] = w
    OBVIOUS
<1> HIDE DEF r, path
<1>3. \A j \in 1 .. Len(r) : Rule(r[j], path[j - 1], path[j], labels)
    <2> SUFFICES ASSUME NEW j \in 1 .. Len(r)
                 PROVE  Rule(r[j], path[j - 1], path[j], labels)
        OBVIOUS
    <2>1. j = 1 /\ j - 1 = 0
        BY <1>1
    <2>2. QED BY <1>1, <1>2, <2>1
<1>4. path \in [0 .. Len(r) -> Notes] /\ path[Len(r)] = w
    BY <1>1, <1>2
<1>5. s \o r \in Seq(Instruction) /\ Flowing(s \o r, path[Len(r)], labels)
    BY <1>1, <1>2, <1>3, <1>4, FlowOn
<1>6. QED BY <1>4, <1>5 DEF r

-----------------------------------------------------------------------------
(* Jumps and the places they go to. *)

Controls == {"if", "else", "end", "loop", "test", "again", "break", "continue"}
Marks(s, op) == {s[k].at : k \in {j \in DOMAIN s : s[j].op = op}}

(* Every jump of s has its target, but for those of the open branches B,   *)
(* of which E are past their "else", and of the open loops L.  sz is above *)
(* the numbers of all blocks, and n declarations have been made.           *)
Matched(s, T, sz, n, B, E, L) ==
    /\ \A a \in Marks(s, "if") : a \in B \/
           (a \in Marks(s, "end") /\ (a \in Marks(s, "else") \/ Flows(T[a].head, T[a].tail)))
    /\ \A a \in Marks(s, "else") : a \in E \/ a \in Marks(s, "end")
    /\ \A a \in Marks(s, "test") \cup Marks(s, "break") : a \in L \/ a \in Marks(s, "again")
    /\ \A a \in Marks(s, "again") \cup Marks(s, "continue") : a \in Marks(s, "loop")
    /\ \A op \in Controls : \A a \in Marks(s, op) : a < sz
    /\ \A a \in Marks(s, "fresh") \cup Marks(s, "from") : a \in 1 .. n
    /\ \A a \in B \cup L : a < sz /\ a \notin Marks(s, "end") /\ a \notin Marks(s, "again")
    /\ \A a \in E : a \in B /\ a \in Marks(s, "else")
    /\ \A a \in L : a \in Marks(s, "loop") /\ a \notin B

Sound(s, v, T, sz, n, B, E, L) ==
    /\ s \in Seq(Instruction) /\ v \in Notes /\ T \in Labels /\ sz \in Nat /\ n \in Nat
    /\ B \subseteq Nat /\ E \subseteq Nat /\ L \subseteq Nat
    /\ Flowing(s, v, T) /\ Matched(s, T, sz, n, B, E, L)

(* Flows is reflexive and transitive.                                      *)
LEMMA FlowsSame == ASSUME NEW v PROVE Flows(v, v)
BY DEF Flows

(* What flows to a note that flows on flows there too.                     *)
LEMMA FlowsThrough ==
    ASSUME NEW u, NEW v, NEW w, Flows(u, v), Flows(v, w)
    PROVE  Flows(u, w)
BY DEF Flows

(* Appended code adds its marks.                                           *)
LEMMA MarksOn ==
    ASSUME NEW s \in Seq(Instruction), NEW r \in Seq(Instruction), NEW op
    PROVE  Marks(s \o r, op) = Marks(s, op) \cup Marks(r, op)
<1>1. /\ Len(s) \in Nat /\ Len(r) \in Nat /\ DOMAIN s = 1 .. Len(s) /\ DOMAIN r = 1 .. Len(r)
      /\ DOMAIN (s \o r) = 1 .. Len(s) + Len(r)
      /\ \A k \in 1 .. Len(s) + Len(r) :
             (s \o r)[k] = IF k <= Len(s) THEN s[k] ELSE r[k - Len(s)]
    BY ConcatProperties, LenProperties
<1>2. ASSUME NEW a \in Marks(s \o r, op)
      PROVE  a \in Marks(s, op) \cup Marks(r, op)
    <2>1. PICK k \in 1 .. Len(s) + Len(r) : (s \o r)[k].op = op /\ (s \o r)[k].at = a
        BY <1>1, <1>2 DEF Marks
    <2>2. CASE k <= Len(s)
        <3>1. k \in DOMAIN s /\ s[k].op = op /\ s[k].at = a
            BY <1>1, <2>1, <2>2
        <3>2. QED BY <3>1 DEF Marks
    <2>3. CASE ~(k <= Len(s))
        <3>1. k - Len(s) \in DOMAIN r /\ r[k - Len(s)].op = op /\ r[k - Len(s)].at = a
            BY <1>1, <2>1, <2>3
        <3>2. QED BY <3>1 DEF Marks
    <2>4. QED BY <2>2, <2>3
<1>3. ASSUME NEW a \in Marks(s, op)
      PROVE  a \in Marks(s \o r, op)
    <2>1. PICK k \in 1 .. Len(s) : s[k].op = op /\ s[k].at = a
        BY <1>1, <1>3 DEF Marks
    <2>2. k \in DOMAIN (s \o r) /\ (s \o r)[k] = s[k]
        BY <1>1, <2>1
    <2>3. QED BY <2>1, <2>2 DEF Marks
<1>4. ASSUME NEW a \in Marks(r, op)
      PROVE  a \in Marks(s \o r, op)
    <2>1. PICK k \in 1 .. Len(r) : r[k].op = op /\ r[k].at = a
        BY <1>1, <1>4 DEF Marks
    <2>2. k + Len(s) \in DOMAIN (s \o r) /\ (s \o r)[k + Len(s)] = r[k]
        BY <1>1, <2>1
    <2>3. QED BY <2>1, <2>2 DEF Marks
<1>5. QED BY <1>2, <1>3, <1>4

(* An instruction marks the place it names, and only that one.             *)
LEMMA MarksOne ==
    ASSUME NEW s \in Seq(Instruction), NEW i \in Instruction, NEW op
    PROVE  Marks(s \o <<i>>, op) = Marks(s, op) \cup (IF i.op = op THEN {i.at} ELSE {})
<1> DEFINE r == <<i>>
<1>1. r \in Seq(Instruction) /\ Marks(r, op) = IF i.op = op THEN {i.at} ELSE {}
    BY DEF Marks
<1> HIDE DEF r
<1>2. Marks(s \o r, op) = Marks(s, op) \cup Marks(r, op)
    BY <1>1, MarksOn
<1>3. QED BY <1>1, <1>2 DEF r

(* Places are numbers.                                                     *)
LEMMA MarksType ==
    ASSUME NEW s \in Seq(Instruction), NEW op
    PROVE  Marks(s, op) \subseteq Nat
<1>1. ASSUME NEW k \in DOMAIN s PROVE s[k].at \in Nat
    <2>1. k \in 1 .. Len(s)
        BY LenProperties
    <2>2. s[k] \in Instruction
        BY <2>1, ElementOfSeq
    <2>3. QED BY <2>2 DEF Instruction
<1>2. QED BY <1>1 DEF Marks

(* A label may change while nothing has gone through it.                   *)
LEMMA RuleRelabel ==
    ASSUME NEW i, NEW v, NEW w, NEW T, NEW U, Rule(i, v, w, T),
           i.op \in Controls => /\ U[i.at].head = T[i.at].head
                                /\ Flows(T[i.at].tail, U[i.at].tail),
           i.op \in {"end", "again"} => U[i.at].tail = T[i.at].tail
    PROVE  Rule(i, v, w, U)
<1>1. CASE i.op \notin Controls
    BY <1>1 DEF Rule, Controls
<1>2. CASE i.op \in {"end", "again"}
    BY <1>2 DEF Rule, Controls
<1>3. CASE i.op \in Controls \ {"end", "again"}
    <2>1. U[i.at].head = T[i.at].head /\ (Flows(v, T[i.at].tail) => Flows(v, U[i.at].tail))
        BY <1>3, FlowsThrough
    <2>2. QED BY <1>3, <2>1 DEF Rule, Controls
<1>4. QED BY <1>1, <1>2, <1>3

(* A statement that is still open, or whose number is not used yet, may    *)
(* get weaker labels: nothing emitted so far depends on them.              *)
LEMMA Relabel ==
    ASSUME NEW s, NEW v, NEW T, NEW sz, NEW n, NEW B, NEW E, NEW L,
           Sound(s, v, T, sz, n, B, E, L),
           NEW U \in Labels,
           \A a \in Nat : a < sz =>
               /\ U[a].head = T[a].head
               /\ U[a].tail = T[a].tail \/ (a \in B \cup L /\ Flows(T[a].tail, U[a].tail))
    PROVE  Sound(s, v, U, sz, n, B, E, L)
<1>1. /\ s \in Seq(Instruction) /\ Flowing(s, v, T) /\ Matched(s, T, sz, n, B, E, L)
      /\ \A op : Marks(s, op) \subseteq Nat
    BY MarksType DEF Sound
<1>2. Flowing(s, v, U)
    <2>1. PICK notes \in [1 .. Len(s) + 1 -> Notes] :
              /\ notes[1] = Known({}, {}) /\ notes[Len(s) + 1] = v
              /\ \A k \in 1 .. Len(s) : Rule(s[k], notes[k], notes[k + 1], T)
        BY <1>1 DEF Flowing
    <2>2. ASSUME NEW k \in 1 .. Len(s)
          PROVE  Rule(s[k], notes[k], notes[k + 1], U)
        <3>1. DOMAIN s = 1 .. Len(s)
            BY <1>1, LenProperties
        <3>2. ASSUME s[k].op \in Controls
              PROVE  /\ U[s[k].at].head = T[s[k].at].head
                     /\ Flows(T[s[k].at].tail, U[s[k].at].tail)
                     /\ s[k].op \in {"end", "again"} => U[s[k].at].tail = T[s[k].at].tail
            <4>1. s[k].at \in Marks(s, s[k].op)
                BY <3>1 DEF Marks
            <4>2. s[k].at \in Nat /\ s[k].at < sz
                BY <1>1, <3>2, <4>1 DEF Matched
            <4>3. s[k].op \in {"end", "again"} => s[k].at \notin B \cup L
                BY <1>1, <4>1 DEF Matched
            <4>4. QED BY <4>2, <4>3, FlowsSame
        <3>3. s[k].op \in {"end", "again"} => s[k].op \in Controls
            BY DEF Controls
        <3>4. QED BY <2>1, <3>2, <3>3, RuleRelabel
    <2>3. QED BY <2>1, <2>2 DEF Flowing
<1>3. \A a \in Marks(s, "if") : a \in B \/
          (a \in Marks(s, "end") /\ (a \in Marks(s, "else") \/ Flows(U[a].head, U[a].tail)))
    <2> SUFFICES ASSUME NEW a \in Marks(s, "if"), a \notin B
                 PROVE  /\ a \in Marks(s, "end")
                        /\ a \in Marks(s, "else") \/ Flows(U[a].head, U[a].tail)
        OBVIOUS
    <2>1. a \in Marks(s, "end") /\ a \notin B \cup L /\ a \in Nat
        BY <1>1 DEF Matched
    <2>2. a < sz
        BY <1>1, <2>1 DEF Matched, Controls
    <2>3. U[a].head = T[a].head /\ U[a].tail = T[a].tail
        BY <2>1, <2>2
    <2>4. a \in Marks(s, "else") \/ Flows(T[a].head, T[a].tail)
        BY <1>1 DEF Matched
    <2>5. QED BY <2>1, <2>3, <2>4
<1>4. Matched(s, U, sz, n, B, E, L)
    BY <1>1, <1>3 DEF Matched
<1>5. QED BY <1>2, <1>4 DEF Sound

(* Code without jumps or blocks, behind which more statements and          *)
(* declarations are counted.                                               *)
LEMMA Straight ==
    ASSUME NEW s, NEW v, NEW T, NEW sz, NEW n, NEW B, NEW E, NEW L,
           Sound(s, v, T, sz, n, B, E, L),
           NEW r \in Seq(Instruction), NEW sz2 \in Nat, NEW n2 \in Nat, sz <= sz2, n <= n2,
           NEW path \in [0 .. Len(r) -> Notes], path[0] = v,
           \A j \in 1 .. Len(r) : Rule(r[j], path[j - 1], path[j], T),
           \A j \in 1 .. Len(r) : /\ r[j].op \notin Controls
                                  /\ r[j].op \in {"fresh", "from"} => r[j].at \in 1 .. n2
    PROVE  Sound(s \o r, path[Len(r)], T, sz2, n2, B, E, L)
<1>1. /\ s \in Seq(Instruction) /\ v \in Notes /\ T \in Labels /\ sz \in Nat /\ n \in Nat
      /\ B \subseteq Nat /\ E \subseteq Nat /\ L \subseteq Nat
      /\ Flowing(s, v, T) /\ Matched(s, T, sz, n, B, E, L)
    BY DEF Sound
<1>2. s \o r \in Seq(Instruction) /\ Flowing(s \o r, path[Len(r)], T)
    BY <1>1, FlowOn
<1>3. path[Len(r)] \in Notes
    <2>1. Len(r) \in 0 .. Len(r)
        BY LenProperties
    <2>2. QED BY <2>1
<1>4. DOMAIN r = 1 .. Len(r)
    BY LenProperties
<1>5. ASSUME NEW op \in Controls PROVE Marks(s \o r, op) = Marks(s, op)
    <2>1. Marks(r, op) = {}
        BY <1>4, <1>5 DEF Marks
    <2>2. Marks(s \o r, op) = Marks(s, op) \cup Marks(r, op)
        BY <1>1, MarksOn
    <2>3. QED BY <2>1, <2>2
<1>6. \A a \in Marks(s \o r, "fresh") \cup Marks(s \o r, "from") : a \in 1 .. n2
    <2>1. \A a \in Marks(r, "fresh") \cup Marks(r, "from") : a \in 1 .. n2
        BY <1>4 DEF Marks
    <2>2. /\ Marks(s \o r, "fresh") = Marks(s, "fresh") \cup Marks(r, "fresh")
          /\ Marks(s \o r, "from") = Marks(s, "from") \cup Marks(r, "from")
        BY <1>1, MarksOn
    <2>3. \A a \in Marks(s, "fresh") \cup Marks(s, "from") : a \in 1 .. n
        BY <1>1 DEF Matched
    <2>4. \A a \in 1 .. n : a \in 1 .. n2
        BY <1>1
    <2>5. QED BY <2>1, <2>2, <2>3, <2>4
<1>7. Matched(s \o r, T, sz2, n2, B, E, L)
    <2>1. /\ Marks(s \o r, "if") = Marks(s, "if")
          /\ Marks(s \o r, "else") = Marks(s, "else")
          /\ Marks(s \o r, "end") = Marks(s, "end")
          /\ Marks(s \o r, "loop") = Marks(s, "loop")
          /\ Marks(s \o r, "test") = Marks(s, "test")
          /\ Marks(s \o r, "again") = Marks(s, "again")
          /\ Marks(s \o r, "break") = Marks(s, "break")
          /\ Marks(s \o r, "continue") = Marks(s, "continue")
        BY <1>5 DEF Controls
    <2>2. \A a \in Nat : a < sz => a < sz2
        BY <1>1
    <2>3. \A op \in Controls : \A a \in Marks(s \o r, op) : a < sz2
        BY <1>1, <1>5, <2>2, MarksType DEF Matched
    <2>4. \A a \in B \cup L : a < sz2
        BY <1>1, <2>2 DEF Matched
    <2>5. QED BY <1>1, <1>6, <2>1, <2>3, <2>4 DEF Matched
<1>8. QED BY <1>1, <1>2, <1>3, <1>7 DEF Sound

(* An instruction that is no jump goes behind sound code.                  *)
LEMMA StraightOne ==
    ASSUME NEW s, NEW v, NEW T, NEW sz, NEW n, NEW B, NEW E, NEW L,
           Sound(s, v, T, sz, n, B, E, L),
           NEW i \in Instruction, NEW w \in Notes, NEW sz2 \in Nat, NEW n2 \in Nat,
           sz <= sz2, n <= n2, Rule(i, v, w, T), i.op \notin Controls,
           i.op \in {"fresh", "from"} => i.at \in 1 .. n2
    PROVE  Sound(s \o <<i>>, w, T, sz2, n2, B, E, L)
<1> DEFINE r == <<i>>
           path == [j \in 0 .. 1 |-> IF j = 0 THEN v ELSE w]
<1>1. r \in Seq(Instruction) /\ Len(r) = 1 /\ r[1] = i
    OBVIOUS
<1>2. path \in [0 .. 1 -> Notes] /\ path[0] = v /\ path[1] = w
    BY DEF Sound
<1> HIDE DEF r, path
<1>3. \A j \in 1 .. Len(r) : j = 1 /\ j - 1 = 0
    BY <1>1
<1>4. /\ path \in [0 .. Len(r) -> Notes] /\ path[Len(r)] = w
      /\ \A j \in 1 .. Len(r) : Rule(r[j], path[j - 1], path[j], T)
      /\ \A j \in 1 .. Len(r) : /\ r[j].op \notin Controls
                                /\ r[j].op \in {"fresh", "from"} => r[j].at \in 1 .. n2
    BY <1>1, <1>2, <1>3
<1>5. Sound(s \o r, path[Len(r)], T, sz2, n2, B, E, L)
    BY <1>1, <1>2, <1>4, Straight
<1>6. QED BY <1>4, <1>5 DEF r

(* One more jump or block: its rule, its place and its target.             *)
LEMMA ControlOne ==
    ASSUME NEW s, NEW v, NEW T, NEW sz, NEW n, NEW B, NEW E, NEW L,
           Sound(s, v, T, sz, n, B, E, L),
           NEW i \in Instruction, NEW w \in Notes, Rule(i, v, w, T), i.op \in Controls
    PROVE  LET r == s \o <<i>> IN
           /\ r \in Seq(Instruction) /\ w \in Notes /\ T \in Labels /\ sz \in Nat /\ n \in Nat
           /\ B \subseteq Nat /\ E \subseteq Nat /\ L \subseteq Nat
           /\ Flowing(r, w, T) /\ Matched(s, T, sz, n, B, E, L)
           /\ Marks(r, "fresh") = Marks(s, "fresh") /\ Marks(r, "from") = Marks(s, "from")
           /\ \A op : Marks(r, op) = Marks(s, op) \cup (IF i.op = op THEN {i.at} ELSE {})
<1>1. /\ s \in Seq(Instruction) /\ v \in Notes /\ T \in Labels /\ sz \in Nat /\ n \in Nat
      /\ B \subseteq Nat /\ E \subseteq Nat /\ L \subseteq Nat
      /\ Flowing(s, v, T) /\ Matched(s, T, sz, n, B, E, L)
    BY DEF Sound
<1>2. s \o <<i>> \in Seq(Instruction) /\ Flowing(s \o <<i>>, w, T)
    BY <1>1, FlowOne
<1>3. \A op : Marks(s \o <<i>>, op) = Marks(s, op) \cup (IF i.op = op THEN {i.at} ELSE {})
    BY <1>1, MarksOne
<1>4. i.op # "fresh" /\ i.op # "from"
    BY DEF Controls
<1>5. /\ Marks(s \o <<i>>, "fresh") = Marks(s, "fresh")
      /\ Marks(s \o <<i>>, "from") = Marks(s, "from")
    BY <1>3, <1>4
<1>6. QED BY <1>1, <1>2, <1>3, <1>5

(* A branch begins.                                                        *)
LEMMA BeginIf ==
    ASSUME NEW s, NEW v, NEW T, NEW sz, NEW n, NEW B, NEW E, NEW L,
           Sound(s, v, T, sz, n, B, E, L),
           NEW i \in Instruction, i.op = "if", i.at = sz, Flows(v, T[sz].head)
    PROVE  Sound(s \o <<i>>, v, T, sz + 1, n, B \cup {sz}, E, L)
<1> DEFINE r == s \o <<i>>
<1>1. Rule(i, v, v, T) /\ i.op \in Controls /\ v \in Notes
    BY FlowsSame DEF Rule, Controls, Sound
<1>2. /\ r \in Seq(Instruction) /\ T \in Labels /\ sz \in Nat /\ n \in Nat
      /\ B \subseteq Nat /\ E \subseteq Nat /\ L \subseteq Nat
      /\ Flowing(r, v, T) /\ Matched(s, T, sz, n, B, E, L)
      /\ Marks(r, "fresh") = Marks(s, "fresh") /\ Marks(r, "from") = Marks(s, "from")
      /\ \A op : Marks(r, op) = Marks(s, op) \cup (IF i.op = op THEN {i.at} ELSE {})
    BY <1>1, ControlOne
<1> HIDE DEF r
<1>3. Marks(r, "if") = Marks(s, "if") \cup {sz}
    BY <1>2
<1>4. ASSUME NEW op, op # "if" PROVE Marks(r, op) = Marks(s, op)
    <2>1. Marks(r, op) = Marks(s, op) \cup (IF i.op = op THEN {i.at} ELSE {})
        BY <1>2
    <2>2. i.op # op
        BY <1>4
    <2>3. QED BY <2>1, <2>2
<1>5. \A op \in Controls : \A a \in Marks(r, op) : a < sz + 1
    BY <1>2, MarksType DEF Matched, Sound
<1>6. \A a \in Marks(s, "end") \cup Marks(s, "again") : a < sz
    BY <1>2 DEF Matched, Controls
<1>7. Matched(r, T, sz + 1, n, B \cup {sz}, E, L)
    BY <1>2, <1>3, <1>4, <1>5, <1>6 DEF Matched
<1>8. QED BY <1>1, <1>2, <1>7 DEF Sound, r

(* A label has a note for its head and one for its tail.                   *)
LEMMA LabelType ==
    ASSUME NEW T \in Labels, NEW a \in Nat
    PROVE  T[a].head \in Notes /\ T[a].tail \in Notes
BY DEF Labels

(* The second branch begins.                                               *)
LEMMA TurnElse ==
    ASSUME NEW s, NEW v, NEW T, NEW sz, NEW n, NEW B, NEW E, NEW L,
           Sound(s, v, T, sz, n, B, E, L),
           NEW i \in Instruction, i.op = "else", i.at \in B,
           Flows(v, T[i.at].tail)
    PROVE  Sound(s \o <<i>>, T[i.at].head, T, sz, n, B, E \cup {i.at}, L)
<1> DEFINE r == s \o <<i>>
<1>1. Rule(i, v, T[i.at].head, T) /\ i.op \in Controls /\ T[i.at].head \in Notes
    BY FlowsSame, LabelType DEF Rule, Controls, Sound
<1>2. /\ r \in Seq(Instruction) /\ T \in Labels /\ sz \in Nat /\ n \in Nat
      /\ B \subseteq Nat /\ E \subseteq Nat /\ L \subseteq Nat
      /\ Flowing(r, T[i.at].head, T) /\ Matched(s, T, sz, n, B, E, L)
      /\ Marks(r, "fresh") = Marks(s, "fresh") /\ Marks(r, "from") = Marks(s, "from")
      /\ \A op : Marks(r, op) = Marks(s, op) \cup (IF i.op = op THEN {i.at} ELSE {})
    BY <1>1, ControlOne
<1> HIDE DEF r
<1>3. Marks(r, "else") = Marks(s, "else") \cup {i.at}
    BY <1>2
<1>4. ASSUME NEW op, op # "else" PROVE Marks(r, op) = Marks(s, op)
    <2>1. Marks(r, op) = Marks(s, op) \cup (IF i.op = op THEN {i.at} ELSE {})
        BY <1>2
    <2>2. i.op # op
        BY <1>4
    <2>3. QED BY <2>1, <2>2
<1>5. ASSUME NEW op \in Controls, NEW a \in Marks(r, op) PROVE a < sz
    <2>1. Marks(r, op) = Marks(s, op) \cup (IF i.op = op THEN {i.at} ELSE {})
        BY <1>2
    <2>2. i.at < sz /\ \A b \in Marks(s, op) : b < sz
        BY <1>2 DEF Matched
    <2>3. QED BY <2>1, <2>2
<1>6. Matched(r, T, sz, n, B, E \cup {i.at}, L)
    BY <1>2, <1>3, <1>4, <1>5 DEF Matched
<1>7. QED BY <1>1, <1>2, <1>6 DEF Sound, r

(* A branch ends, either past its "else" or such that its head flows on.   *)
LEMMA EndBranch ==
    ASSUME NEW s, NEW v, NEW T, NEW sz, NEW n, NEW B, NEW E, NEW L,
           Sound(s, v, T, sz, n, B, E, L),
           NEW i \in Instruction, i.op = "end", i.at \in B,
           i.at \in E \/ Flows(T[i.at].head, T[i.at].tail), Flows(v, T[i.at].tail)
    PROVE  Sound(s \o <<i>>, T[i.at].tail, T, sz, n, B \ {i.at}, E \ {i.at}, L)
<1> DEFINE r == s \o <<i>>
<1>1. Rule(i, v, T[i.at].tail, T) /\ i.op \in Controls /\ T[i.at].tail \in Notes
    BY FlowsSame, LabelType DEF Rule, Controls, Sound
<1>2. /\ r \in Seq(Instruction) /\ T \in Labels /\ sz \in Nat /\ n \in Nat
      /\ B \subseteq Nat /\ E \subseteq Nat /\ L \subseteq Nat
      /\ Flowing(r, T[i.at].tail, T) /\ Matched(s, T, sz, n, B, E, L)
      /\ Marks(r, "fresh") = Marks(s, "fresh") /\ Marks(r, "from") = Marks(s, "from")
      /\ \A op : Marks(r, op) = Marks(s, op) \cup (IF i.op = op THEN {i.at} ELSE {})
    BY <1>1, ControlOne
<1> HIDE DEF r
<1>3. Marks(r, "end") = Marks(s, "end") \cup {i.at}
    BY <1>2
<1>4. ASSUME NEW op, op # "end" PROVE Marks(r, op) = Marks(s, op)
    <2>1. Marks(r, op) = Marks(s, op) \cup (IF i.op = op THEN {i.at} ELSE {})
        BY <1>2
    <2>2. i.op # op
        BY <1>4
    <2>3. QED BY <2>1, <2>2
<1>5. ASSUME NEW op \in Controls, NEW a \in Marks(r, op) PROVE a < sz
    <2>1. Marks(r, op) = Marks(s, op) \cup (IF i.op = op THEN {i.at} ELSE {})
        BY <1>2
    <2>2. i.at < sz /\ \A b \in Marks(s, op) : b < sz
        BY <1>2 DEF Matched
    <2>3. QED BY <2>1, <2>2
<1>6. i.at \notin L
    BY <1>2 DEF Matched
<1>7. Matched(r, T, sz, n, B \ {i.at}, E \ {i.at}, L)
    BY <1>2, <1>3, <1>4, <1>5, <1>6 DEF Matched
<1>8. QED BY <1>1, <1>2, <1>7 DEF Sound, r

(* A loop begins.                                                          *)
LEMMA BeginLoop ==
    ASSUME NEW s, NEW v, NEW T, NEW sz, NEW n, NEW B, NEW E, NEW L,
           Sound(s, v, T, sz, n, B, E, L),
           NEW i \in Instruction, i.op = "loop", i.at = sz, T[sz].head = v
    PROVE  Sound(s \o <<i>>, v, T, sz + 1, n, B, E, L \cup {sz})
<1> DEFINE r == s \o <<i>>
<1>1. Rule(i, v, v, T) /\ i.op \in Controls /\ v \in Notes
    BY FlowsSame DEF Rule, Controls, Sound
<1>2. /\ r \in Seq(Instruction) /\ T \in Labels /\ sz \in Nat /\ n \in Nat
      /\ B \subseteq Nat /\ E \subseteq Nat /\ L \subseteq Nat
      /\ Flowing(r, v, T) /\ Matched(s, T, sz, n, B, E, L)
      /\ Marks(r, "fresh") = Marks(s, "fresh") /\ Marks(r, "from") = Marks(s, "from")
      /\ \A op : Marks(r, op) = Marks(s, op) \cup (IF i.op = op THEN {i.at} ELSE {})
    BY <1>1, ControlOne
<1> HIDE DEF r
<1>3. Marks(r, "loop") = Marks(s, "loop") \cup {sz}
    BY <1>2
<1>4. ASSUME NEW op, op # "loop" PROVE Marks(r, op) = Marks(s, op)
    <2>1. Marks(r, op) = Marks(s, op) \cup (IF i.op = op THEN {i.at} ELSE {})
        BY <1>2
    <2>2. i.op # op
        BY <1>4
    <2>3. QED BY <2>1, <2>2
<1>5. \A op \in Controls : \A a \in Marks(r, op) : a < sz + 1
    BY <1>2, MarksType DEF Matched, Sound
<1>6. /\ \A a \in Marks(s, "end") \cup Marks(s, "again") : a < sz
      /\ \A a \in B \cup L : a < sz
    BY <1>2 DEF Matched, Controls
<1>7. Matched(r, T, sz + 1, n, B, E, L \cup {sz})
    BY <1>2, <1>3, <1>4, <1>5, <1>6 DEF Matched
<1>8. QED BY <1>1, <1>2, <1>7 DEF Sound, r

(* The condition of a loop is tested.                                      *)
LEMMA LoopTest ==
    ASSUME NEW s, NEW v, NEW T, NEW sz, NEW n, NEW B, NEW E, NEW L,
           Sound(s, v, T, sz, n, B, E, L),
           NEW i \in Instruction, i.op = "test", i.at \in L, Flows(v, T[i.at].tail)
    PROVE  Sound(s \o <<i>>, v, T, sz, n, B, E, L)
<1> DEFINE r == s \o <<i>>
<1>1. Rule(i, v, v, T) /\ i.op \in Controls /\ v \in Notes
    BY FlowsSame DEF Rule, Controls, Sound
<1>2. /\ r \in Seq(Instruction) /\ T \in Labels /\ sz \in Nat /\ n \in Nat
      /\ B \subseteq Nat /\ E \subseteq Nat /\ L \subseteq Nat
      /\ Flowing(r, v, T) /\ Matched(s, T, sz, n, B, E, L)
      /\ Marks(r, "fresh") = Marks(s, "fresh") /\ Marks(r, "from") = Marks(s, "from")
      /\ \A op : Marks(r, op) = Marks(s, op) \cup (IF i.op = op THEN {i.at} ELSE {})
    BY <1>1, ControlOne
<1> HIDE DEF r
<1>3. Marks(r, "test") = Marks(s, "test") \cup {i.at}
    BY <1>2
<1>4. ASSUME NEW op, op # "test" PROVE Marks(r, op) = Marks(s, op)
    <2>1. Marks(r, op) = Marks(s, op) \cup (IF i.op = op THEN {i.at} ELSE {})
        BY <1>2
    <2>2. i.op # op
        BY <1>4
    <2>3. QED BY <2>1, <2>2
<1>5. ASSUME NEW op \in Controls, NEW a \in Marks(r, op) PROVE a < sz
    <2>1. Marks(r, op) = Marks(s, op) \cup (IF i.op = op THEN {i.at} ELSE {})
        BY <1>2
    <2>2. i.at < sz /\ \A b \in Marks(s, op) : b < sz
        BY <1>2 DEF Matched
    <2>3. QED BY <2>1, <2>2
<1>6. Matched(r, T, sz, n, B, E, L)
    BY <1>2, <1>3, <1>4, <1>5 DEF Matched
<1>7. QED BY <1>1, <1>2, <1>6 DEF Sound, r

(* A loop is left.                                                         *)
LEMMA LeaveLoop ==
    ASSUME NEW s, NEW v, NEW T, NEW sz, NEW n, NEW B, NEW E, NEW L,
           Sound(s, v, T, sz, n, B, E, L),
           NEW i \in Instruction, i.op = "break", i.at \in L, Flows(v, T[i.at].tail),
           NEW w \in Notes
    PROVE  Sound(s \o <<i>>, w, T, sz, n, B, E, L)
<1> DEFINE r == s \o <<i>>
<1>1. Rule(i, v, w, T) /\ i.op \in Controls /\ w \in Notes
    BY FlowsSame DEF Rule, Controls, Sound
<1>2. /\ r \in Seq(Instruction) /\ T \in Labels /\ sz \in Nat /\ n \in Nat
      /\ B \subseteq Nat /\ E \subseteq Nat /\ L \subseteq Nat
      /\ Flowing(r, w, T) /\ Matched(s, T, sz, n, B, E, L)
      /\ Marks(r, "fresh") = Marks(s, "fresh") /\ Marks(r, "from") = Marks(s, "from")
      /\ \A op : Marks(r, op) = Marks(s, op) \cup (IF i.op = op THEN {i.at} ELSE {})
    BY <1>1, ControlOne
<1> HIDE DEF r
<1>3. Marks(r, "break") = Marks(s, "break") \cup {i.at}
    BY <1>2
<1>4. ASSUME NEW op, op # "break" PROVE Marks(r, op) = Marks(s, op)
    <2>1. Marks(r, op) = Marks(s, op) \cup (IF i.op = op THEN {i.at} ELSE {})
        BY <1>2
    <2>2. i.op # op
        BY <1>4
    <2>3. QED BY <2>1, <2>2
<1>5. ASSUME NEW op \in Controls, NEW a \in Marks(r, op) PROVE a < sz
    <2>1. Marks(r, op) = Marks(s, op) \cup (IF i.op = op THEN {i.at} ELSE {})
        BY <1>2
    <2>2. i.at < sz /\ \A b \in Marks(s, op) : b < sz
        BY <1>2 DEF Matched
    <2>3. QED BY <2>1, <2>2
<1>6. Matched(r, T, sz, n, B, E, L)
    BY <1>2, <1>3, <1>4, <1>5 DEF Matched
<1>7. QED BY <1>1, <1>2, <1>6 DEF Sound, r

(* A loop is continued.                                                    *)
LEMMA NextRound ==
    ASSUME NEW s, NEW v, NEW T, NEW sz, NEW n, NEW B, NEW E, NEW L,
           Sound(s, v, T, sz, n, B, E, L),
           NEW i \in Instruction, i.op = "continue", i.at \in L, Flows(v, T[i.at].head),
           NEW w \in Notes
    PROVE  Sound(s \o <<i>>, w, T, sz, n, B, E, L)
<1> DEFINE r == s \o <<i>>
<1>1. Rule(i, v, w, T) /\ i.op \in Controls /\ w \in Notes
    BY FlowsSame DEF Rule, Controls, Sound
<1>2. /\ r \in Seq(Instruction) /\ T \in Labels /\ sz \in Nat /\ n \in Nat
      /\ B \subseteq Nat /\ E \subseteq Nat /\ L \subseteq Nat
      /\ Flowing(r, w, T) /\ Matched(s, T, sz, n, B, E, L)
      /\ Marks(r, "fresh") = Marks(s, "fresh") /\ Marks(r, "from") = Marks(s, "from")
      /\ \A op : Marks(r, op) = Marks(s, op) \cup (IF i.op = op THEN {i.at} ELSE {})
    BY <1>1, ControlOne
<1> HIDE DEF r
<1>3. Marks(r, "continue") = Marks(s, "continue") \cup {i.at}
    BY <1>2
<1>4. ASSUME NEW op, op # "continue" PROVE Marks(r, op) = Marks(s, op)
    <2>1. Marks(r, op) = Marks(s, op) \cup (IF i.op = op THEN {i.at} ELSE {})
        BY <1>2
    <2>2. i.op # op
        BY <1>4
    <2>3. QED BY <2>1, <2>2
<1>5. ASSUME NEW op \in Controls, NEW a \in Marks(r, op) PROVE a < sz
    <2>1. Marks(r, op) = Marks(s, op) \cup (IF i.op = op THEN {i.at} ELSE {})
        BY <1>2
    <2>2. i.at < sz /\ \A b \in Marks(s, op) : b < sz
        BY <1>2 DEF Matched
    <2>3. QED BY <2>1, <2>2
<1>6. Matched(r, T, sz, n, B, E, L)
    BY <1>2, <1>3, <1>4, <1>5 DEF Matched
<1>7. QED BY <1>1, <1>2, <1>6 DEF Sound, r

(* A loop ends.                                                            *)
LEMMA EndLoop ==
    ASSUME NEW s, NEW v, NEW T, NEW sz, NEW n, NEW B, NEW E, NEW L,
           Sound(s, v, T, sz, n, B, E, L),
           NEW i \in Instruction, i.op = "again", i.at \in L, Flows(v, T[i.at].head)
    PROVE  Sound(s \o <<i>>, T[i.at].tail, T, sz, n, B, E, L \ {i.at})
<1> DEFINE r == s \o <<i>>
<1>1. Rule(i, v, T[i.at].tail, T) /\ i.op \in Controls /\ T[i.at].tail \in Notes
    BY FlowsSame, LabelType DEF Rule, Controls, Sound
<1>2. /\ r \in Seq(Instruction) /\ T \in Labels /\ sz \in Nat /\ n \in Nat
      /\ B \subseteq Nat /\ E \subseteq Nat /\ L \subseteq Nat
      /\ Flowing(r, T[i.at].tail, T) /\ Matched(s, T, sz, n, B, E, L)
      /\ Marks(r, "fresh") = Marks(s, "fresh") /\ Marks(r, "from") = Marks(s, "from")
      /\ \A op : Marks(r, op) = Marks(s, op) \cup (IF i.op = op THEN {i.at} ELSE {})
    BY <1>1, ControlOne
<1> HIDE DEF r
<1>3. Marks(r, "again") = Marks(s, "again") \cup {i.at}
    BY <1>2
<1>4. ASSUME NEW op, op # "again" PROVE Marks(r, op) = Marks(s, op)
    <2>1. Marks(r, op) = Marks(s, op) \cup (IF i.op = op THEN {i.at} ELSE {})
        BY <1>2
    <2>2. i.op # op
        BY <1>4
    <2>3. QED BY <2>1, <2>2
<1>5. ASSUME NEW op \in Controls, NEW a \in Marks(r, op) PROVE a < sz
    <2>1. Marks(r, op) = Marks(s, op) \cup (IF i.op = op THEN {i.at} ELSE {})
        BY <1>2
    <2>2. i.at < sz /\ \A b \in Marks(s, op) : b < sz
        BY <1>2 DEF Matched
    <2>3. QED BY <2>1, <2>2
<1>6. i.at \notin B /\ i.at \in Marks(s, "loop")
    BY <1>2 DEF Matched
<1>7. Matched(r, T, sz, n, B, E, L \ {i.at})
    BY <1>2, <1>3, <1>4, <1>5, <1>6 DEF Matched
<1>8. QED BY <1>1, <1>2, <1>7 DEF Sound, r

-----------------------------------------------------------------------------
(* Leaving scopes. *)

(* A set of numbers that is not empty has a least one.                     *)
LEMMA Least ==
    ASSUME NEW T \in SUBSET Nat, T # {}
    PROVE  \E n \in T : \A m \in T : n <= m
<1> DEFINE R == {ss \in Nat \X Nat : ss[1] < ss[2]}
<1>1. IsWellFoundedOn(R, Nat)
    BY NatLessThanWellFounded DEF OpToRel
<1> HIDE DEF R
<1>2. PICK n \in T : \A m \in T : ~(<<m, n>> \in R)
    BY <1>1, WFMin
<1>3. ASSUME NEW m \in T, ~(n <= m)
      PROVE  FALSE
    <2>1. <<m, n>> \in R
        BY <1>3 DEF R
    <2>2. QED BY <1>2, <2>1
<1>4. QED BY <1>3

(* The scopes outside depth d are a prefix of the items.                   *)
LEMMA OutsideIs ==
    ASSUME items \in Seq(Cleanups), NEW d \in Nat,
           \A k, l \in DOMAIN items : k < l => items[k].depth <= items[l].depth
    PROVE  /\ Outside(d) \in 0 .. Len(items)
           /\ \A k \in DOMAIN items : k <= Outside(d) <=> items[k].depth < d
<1> DEFINE n == Len(items)
           Past == {k \in 1 .. n + 1 : k = n + 1 \/ ~(items[k].depth < d)}
<1>1. n \in Nat /\ DOMAIN items = 1 .. n
    BY LenProperties
<1>2. \A k \in 1 .. n : items[k].depth \in Nat
    <2> SUFFICES ASSUME NEW k \in 1 .. n PROVE items[k].depth \in Nat
        OBVIOUS
    <2>1. items[k] \in Cleanups
        BY ElementOfSeq
    <2>2. QED BY <2>1 DEF Cleanups
<1> HIDE DEF n
<1>3. Past \in SUBSET Nat /\ n + 1 \in Past
    BY <1>1
<1>4. PICK p \in Past : \A q \in Past : p <= q
    BY <1>3, Least
<1>5. p - 1 \in 0 .. n
    BY <1>1, <1>4
<1>6. ASSUME NEW k \in 1 .. n PROVE k <= p - 1 <=> items[k].depth < d
    <2>1. CASE k <= p - 1
        <3>1. k \notin Past
            BY <1>1, <1>4, <2>1
        <3>2. QED BY <1>1, <2>1, <3>1
    <2>2. CASE ~(k <= p - 1)
        <3>1. p \in 1 .. n /\ ~(items[p].depth < d) /\ (p = k \/ p < k)
            BY <1>1, <1>4, <2>2
        <3>2. items[p].depth <= items[k].depth
            BY <1>1, <1>2, <3>1
        <3>3. QED BY <1>2, <2>2, <3>1, <3>2
    <2>3. QED BY <2>1, <2>2
<1>7. \E m \in 0 .. Len(items) : \A k \in DOMAIN items : k <= m <=> items[k].depth < d
    BY <1>1, <1>5, <1>6 DEF n
<1>8. QED BY <1>7 DEF Outside

(* Positions counted from the end.                                         *)
LEMMA Mirror ==
    ASSUME NEW n \in Nat, NEW o \in 0 .. n, NEW m, m = n - o, NEW j \in 1 .. m
    PROVE  (m - j) + 1 \in 1 .. m /\ o + ((m - j) + 1) = (n - j) + 1 /\ (n - j) + 1 \in o + 1 .. n
OBVIOUS

(* The instructions that leave the scopes from depth d inwards.            *)
LEMMA CleanupIs ==
    ASSUME items \in Seq(Cleanups), NEW d \in Nat,
           \A k, l \in DOMAIN items : k < l => items[k].depth <= items[l].depth
    PROVE  LET n == Len(items)
               m == n - Outside(d)
           IN  /\ m \in Nat /\ Len(Cleanup(d)) = m
               /\ Cleanup(d) = [j \in 1 .. m |-> Cleanup(d)[j]]
               /\ \A j \in 1 .. m : /\ (n - j) + 1 \in Outside(d) + 1 .. n
                                    /\ Cleanup(d)[j] = I(items[(n - j) + 1].op,
                                                         Resolve(items[(n - j) + 1].name))
<1> DEFINE n == Len(items)
           o == Outside(d)
           m == n - o
           inner == Inner(d)
<1>1. n \in Nat /\ o \in 0 .. n /\ m \in Nat
    BY OutsideIs, LenProperties
<1>2. /\ inner \in Seq(Cleanups) /\ Len(inner) = m
      /\ \A i \in 1 .. m : inner[i] = items[o + i]
    <2>1. \A i \in o + 1 .. n : items[i] \in Cleanups
        BY <1>1, ElementOfSeq
    <2> HIDE DEF n, o
    <2>2. o + 1 \in Int /\ n \in Int
        BY <1>1
    <2>3. /\ SubSeq(items, o + 1, n) \in Seq(Cleanups)
          /\ Len(SubSeq(items, o + 1, n)) = IF o + 1 <= n THEN n - (o + 1) + 1 ELSE 0
          /\ \A i \in 1 .. n - (o + 1) + 1 : SubSeq(items, o + 1, n)[i] = items[(o + 1) + i - 1]
        BY <2>1, <2>2, SubSeqProperties
    <2>4. inner = SubSeq(items, o + 1, n)
        BY DEF Inner, n, o
    <2>5. (IF o + 1 <= n THEN n - (o + 1) + 1 ELSE 0) = m
        BY <1>1
    <2>6. ASSUME NEW i \in 1 .. m PROVE i \in 1 .. n - (o + 1) + 1 /\ (o + 1) + i - 1 = o + i
        BY <1>1
    <2>7. QED BY <2>3, <2>4, <2>5, <2>6
<1> DEFINE owed == [k \in 1 .. m |-> I(inner[k].op, Resolve(inner[k].name))]
<1>3. Owed(d) = owed
    BY <1>2, LenProperties DEF Owed
<1> HIDE DEF n, o, inner
<1>4. owed = [k \in 1 .. m |-> I(items[o + k].op, Resolve(items[o + k].name))]
    BY <1>2
<1>5. Len(owed) = m
    BY <1>1
<1> HIDE DEF m, owed
<1>6. Reverse(owed) = [j \in 1 .. m |-> owed[(m - j) + 1]]
    <2>1. Reverse(owed) = [j \in 1 .. Len(owed) |-> owed[(Len(owed) - j) + 1]]
        BY DEF Reverse
    <2>2. QED BY <1>5, <2>1
<1>7. Len(Reverse(owed)) = m /\ Reverse(owed) = [j \in 1 .. m |-> Reverse(owed)[j]]
    BY <1>1, <1>6
<1>8. ASSUME NEW j \in 1 .. m
      PROVE  /\ (n - j) + 1 \in o + 1 .. n
             /\ Reverse(owed)[j] = I(items[(n - j) + 1].op, Resolve(items[(n - j) + 1].name))
    <2>1. (m - j) + 1 \in 1 .. m /\ o + ((m - j) + 1) = (n - j) + 1 /\ (n - j) + 1 \in o + 1 .. n
        <3>1. m = n - o
            BY DEF m
        <3>2. QED BY <1>1, <3>1, Mirror
    <2>2. Reverse(owed)[j] = owed[(m - j) + 1]
        BY <1>6
    <2>3. owed[(m - j) + 1] = I(items[o + ((m - j) + 1)].op, Resolve(items[o + ((m - j) + 1)].name))
        BY <1>4, <2>1
    <2>4. QED BY <2>1, <2>2, <2>3
<1>9. QED BY <1>1, <1>3, <1>7, <1>8 DEF Cleanup, n, o, m

-----------------------------------------------------------------------------
(* What the checker knows where the next statement is written. *)

Note(reached, open, gone) == IF reached THEN Known(open, open \ gone) ELSE Unreached
Reached(k) == \A j \in 1 .. k : ~frames[j].returns
Cur == Note(Reached(Depth), visible, moved)

(* What the checker knows at a statement is a note.                        *)
LEMMA NoteType ==
    ASSUME NEW reached \in BOOLEAN, NEW open \in SUBSET Nat, NEW gone
    PROVE  Note(reached, open, gone) \in Notes
BY DEF Note, Notes, Known, Unreached

(* A name means the only open binding that has it.                         *)
LEMMA ResolveIs ==
    ASSUME Bindings, visible \subseteq Nat
    PROVE  /\ \A d \in visible : Resolve(decls[d].name) = d
           /\ \A x \in Names : Declared(x) => Resolve(x) \in visible /\ decls[Resolve(x)].name = x
<1>1. ASSUME NEW d \in visible PROVE Resolve(decls[d].name) = d
    <2>1. Named(decls[d].name) = {d}
        BY DEF Named, Bindings
    <2>2. d <= d
        OBVIOUS
    <2>3. QED BY <2>1, <2>2 DEF Resolve
<1>2. ASSUME NEW x \in Names, Declared(x)
      PROVE  Resolve(x) \in visible /\ decls[Resolve(x)].name = x
    <2>1. PICK d \in visible : decls[d].name = x
        BY <1>2 DEF Declared, Named
    <2>2. QED BY <1>1, <2>1
<1>3. QED BY <1>1, <1>2

(* The types, spelled out for the places the proofs look at.               *)
LEMMA TypedIs ==
    ASSUME Typed
    PROVE  /\ visible \subseteq Nat /\ Len(items) \in Nat /\ DOMAIN items = 1 .. Len(items)
           /\ Len(decls) \in Nat /\ Depth \in Nat /\ Len(code) \in Nat
           /\ \A k \in DOMAIN items : /\ items[k].op \in {"drop", "use"} /\ items[k].name \in Names
                                      /\ items[k].depth \in Nat
           /\ \A d \in 1 .. Len(decls) : /\ decls[d].name \in Names /\ decls[d].depth \in Nat
                                         /\ decls[d].loop \in Nat
           /\ \A k \in 1 .. Depth : frames[k] \in Frame
<1>1. Len(items) \in Nat /\ DOMAIN items = 1 .. Len(items) /\ Len(decls) \in Nat
      /\ Depth \in Nat /\ Len(code) \in Nat
    BY LenProperties DEF Typed, Depth
<1>2. visible \subseteq Nat
    BY <1>1 DEF Typed
<1>3. ASSUME NEW k \in DOMAIN items
      PROVE  items[k].op \in {"drop", "use"} /\ items[k].name \in Names /\ items[k].depth \in Nat
    <2>1. items[k] \in Cleanups
        BY <1>1, ElementOfSeq DEF Typed
    <2>2. QED BY <2>1 DEF Cleanups
<1>4. ASSUME NEW d \in 1 .. Len(decls)
      PROVE  decls[d].name \in Names /\ decls[d].depth \in Nat /\ decls[d].loop \in Nat
    <2>1. decls[d] \in Binding
        BY <1>1, ElementOfSeq DEF Typed
    <2>2. QED BY <2>1 DEF Binding
<1>5. \A k \in 1 .. Depth : frames[k] \in Frame
    BY <1>1, ElementOfSeq DEF Typed, Depth
<1>6. QED BY <1>1, <1>2, <1>3, <1>4, <1>5

(* The bindings cleaned up by the first q items.                           *)
Upto(q) == {d \in visible : \E l \in DOMAIN items :
               l <= q /\ items[l].op = "drop" /\ items[l].name = decls[d].name}

(* The cleanups r lead from v to w.                                        *)
Leads(r, v, w) ==
    \E path \in [0 .. Len(r) -> Notes] :
        /\ path[0] = v /\ path[Len(r)] = w
        /\ \A j \in 1 .. Len(r) :
               r[j].op \in {"drop", "use"} /\ \A labels : Rule(r[j], path[j - 1], path[j], labels)

(* The code that leaves the scopes from depth k inwards leads from all     *)
(* open bindings to those around depth k.                                  *)
LEMMA CleanupFlows ==
    ASSUME Typed, Bindings, Deferred, NEW d \in Nat, NEW reached \in BOOLEAN, NEW gone,
           ~Written(EndingForms) => gone = {}
    PROVE  /\ Cleanup(d) \in Seq(Instruction) /\ Len(Cleanup(d)) \in Nat
           /\ Leads(Cleanup(d), Note(reached, visible, gone), Note(reached, Around(d), gone))
<1> DEFINE n == Len(items)
           o == Outside(d)
           m == n - o
           r == Cleanup(d)
<1>1. /\ items \in Seq(Cleanups) /\ n \in Nat /\ DOMAIN items = 1 .. n /\ visible \in SUBSET Nat
      /\ \A k \in DOMAIN items : items[k].op \in {"drop", "use"} /\ items[k].name \in Names
                                 /\ items[k].depth \in Nat
      /\ \A k, l \in DOMAIN items : k < l => items[k].depth <= items[l].depth
      /\ \A e \in visible : decls[e].depth \in Nat
    BY TypedIs DEF Typed, Deferred, Sorted
<1>2. /\ o \in 0 .. n /\ m \in Nat
      /\ \A k \in DOMAIN items : k <= o <=> items[k].depth < d
    <2>1. /\ items \in Seq(Cleanups)
          /\ \A k, l \in DOMAIN items : k < l => items[k].depth <= items[l].depth
        BY <1>1
    <2>2. o \in 0 .. n /\ \A k \in DOMAIN items : k <= o <=> items[k].depth < d
        BY <2>1, OutsideIs
    <2>3. m \in Nat
        BY <1>1, <2>2
    <2>4. QED BY <2>2, <2>3
<1>3. /\ Len(r) = m /\ r = [j \in 1 .. m |-> r[j]]
      /\ \A j \in 1 .. m : /\ (n - j) + 1 \in o + 1 .. n
                           /\ r[j] = I(items[(n - j) + 1].op, Resolve(items[(n - j) + 1].name))
    BY <1>1, CleanupIs
<1> HIDE DEF n, o, r, m
<1>4. m = n - o
    BY DEF m
(* The item of an instruction and its binding. *)
<1>5. ASSUME NEW l \in DOMAIN items
      PROVE  \E e \in visible : decls[e].name = items[l].name /\ Resolve(items[l].name) = e
    <2>1. PICK e \in visible : decls[e].name = items[l].name
        BY DEF Deferred, NamesOpen
    <2>2. Resolve(decls[e].name) = e
        BY <1>1, ResolveIs
    <2>3. QED BY <2>1, <2>2
<1>6. r \in Seq(Instruction)
    <2>1. ASSUME NEW j \in 1 .. m PROVE r[j] \in Instruction
        <3>1. (n - j) + 1 \in DOMAIN items
            BY <1>1, <1>2, <1>3
        <3>2. r[j] = I(items[(n - j) + 1].op, Resolve(items[(n - j) + 1].name))
            BY <1>3
        <3>3. PICK e \in visible : Resolve(items[(n - j) + 1].name) = e
            BY <1>5, <3>1
        <3>4. items[(n - j) + 1].op \in Ops
            BY <1>1, <3>1 DEF Ops
        <3>5. QED BY <1>1, <3>2, <3>3, <3>4 DEF Instruction, I
    <2>2. QED BY <1>2, <1>3, <2>1, IsASeq
(* What is still open after the cleanups past item q. *)
<1> DEFINE V(q) == Note(reached, Upto(q), gone)
<1>7. Upto(n) = visible
    <2>1. ASSUME NEW e \in visible PROVE e \in Upto(n)
        <3>1. PICK l \in DOMAIN items : items[l].op = "drop" /\ items[l].name = decls[e].name
            BY DEF Deferred, EachDropped
        <3>2. l <= n
            BY <1>1
        <3>3. QED BY <3>1, <3>2 DEF Upto
    <2>2. QED BY <2>1 DEF Upto
<1>8. Upto(o) = Around(d)
    <2>1. ASSUME NEW e \in Upto(o) PROVE e \in Around(d)
        <3>1. PICK l \in DOMAIN items : l <= o /\ items[l].op = "drop" /\ items[l].name = decls[e].name
            BY <2>1 DEF Upto
        <3>2. e \in visible /\ decls[e].depth = items[l].depth /\ items[l].depth < d
            BY <1>2, <2>1, <3>1 DEF Upto, Deferred, AtHome
        <3>3. QED BY <3>2 DEF Around
    <2>2. ASSUME NEW e \in Around(d) PROVE e \in Upto(o)
        <3>1. e \in visible /\ decls[e].depth < d
            BY <2>2 DEF Around
        <3>2. PICK l \in DOMAIN items : items[l].op = "drop" /\ items[l].name = decls[e].name
            BY <3>1 DEF Deferred, EachDropped
        <3>3. decls[e].depth = items[l].depth
            BY <3>1, <3>2 DEF Deferred, AtHome
        <3>4. l <= o
            BY <1>2, <3>1, <3>3
        <3>5. QED BY <3>1, <3>2, <3>4 DEF Upto
    <2>3. QED BY <2>1, <2>2
<1>9. \A k, l \in DOMAIN items : \A f, e \in visible :
         (/\ k < l /\ items[k].op = "drop" /\ items[l].op = "drop"
          /\ items[k].name = decls[f].name /\ items[l].name = decls[e].name) => f < e
    BY DEF Deferred, InOrder
<1>10. ASSUME NEW l \in DOMAIN items, NEW labels
       PROVE  /\ items[l].op \in {"drop", "use"}
              /\ Rule(I(items[l].op, Resolve(items[l].name)), V(l), V(l - 1), labels)
    <2>1. PICK e \in visible : decls[e].name = items[l].name /\ Resolve(items[l].name) = e
        BY <1>5
    <2>2. CASE items[l].op = "drop"
        <3>1. e \in Upto(l)
            <4>1. l <= l
                BY <1>1
            <4>2. QED BY <2>1, <2>2, <4>1 DEF Upto
        <3>2. \A f \in Upto(l) : f <= e /\ (f # e => f \in Upto(l - 1))
            <4> SUFFICES ASSUME NEW f \in Upto(l)
                         PROVE  f <= e /\ (f # e => f \in Upto(l - 1))
                OBVIOUS
            <4>1. f \in Nat /\ e \in Nat
                BY <1>1 DEF Upto
            <4>2. CASE f = e
                BY <4>1, <4>2
            <4> SUFFICES ASSUME f # e PROVE f < e /\ f \in Upto(l - 1)
                BY <4>1, <4>2
            <4>3. PICK k \in DOMAIN items : k <= l /\ items[k].op = "drop" /\ items[k].name = decls[f].name
                BY DEF Upto
            <4>4. f \in visible /\ k # l
                BY <2>1, <4>3 DEF Upto, Bindings
            <4>5. k < l /\ k <= l - 1
                BY <1>1, <4>3, <4>4
            <4>6. f < e
                BY <1>9, <2>1, <2>2, <4>3, <4>4, <4>5
            <4>7. QED BY <4>3, <4>4, <4>5, <4>6 DEF Upto
        <3>3. e \notin Upto(l - 1)
            <4> SUFFICES ASSUME e \in Upto(l - 1) PROVE FALSE
                OBVIOUS
            <4>1. PICK k \in DOMAIN items : k <= l - 1 /\ items[k].op = "drop" /\ items[k].name = decls[e].name
                BY DEF Upto
            <4>2. k < l
                BY <1>1, <4>1
            <4>3. e < e
                BY <1>9, <2>1, <2>2, <4>1, <4>2
            <4>4. e \in Nat
                BY <1>1, <2>1
            <4>5. QED BY <4>3, <4>4
        <3>4. \A f \in Upto(l - 1) : f \in Upto(l)
            <4>1. \A k \in DOMAIN items : k <= l - 1 => k <= l
                BY <1>1
            <4>2. QED BY <4>1 DEF Upto
        <3>5. Upto(l - 1) = Upto(l) \ {e}
            BY <3>2, <3>3, <3>4
        <3>6. QED BY <2>1, <2>2, <3>1, <3>2, <3>5 DEF Rule, I, Note, Known, Unreached, Flows
    <2>3. CASE items[l].op = "use"
        <3>1. PICK k \in DOMAIN items : k < l /\ items[k].op = "drop" /\ items[k].name = items[l].name
            BY <2>3 DEF Deferred, ReadBefore
        <3>2. k <= l
            BY <1>1, <3>1
        <3>3. e \in Upto(l)
            BY <2>1, <3>1, <3>2 DEF Upto
        <3>4. \A j \in DOMAIN items : items[j].op = "drop" => (j <= l <=> j <= l - 1)
            BY <1>1, <2>3
        <3>5. Upto(l - 1) = Upto(l)
            BY <3>4 DEF Upto
        <3>6. Written({"deferUse"})
            BY <2>3 DEF Deferred, ReadBefore
        <3>7. ReadsWhole => gone = {}
            BY <3>6 DEF ReadsWhole
        <3>8. QED BY <2>1, <2>3, <3>3, <3>5, <3>7 DEF Rule, I, Note, Known, Unreached, Flows
    <2>4. QED BY <1>1, <2>2, <2>3
<1> DEFINE path == [j \in 0 .. m |-> V(n - j)]
<1>11. path \in [0 .. m -> Notes]
    <2>1. \A q : Upto(q) \in SUBSET Nat
        BY <1>1 DEF Upto
    <2>2. QED BY <2>1, NoteType
<1>12. path[0] = V(n) /\ path[m] = V(o)
    <2>1. n - 0 = n /\ n - m = o /\ 0 \in 0 .. m /\ m \in 0 .. m
        BY <1>1, <1>2, <1>4
    <2> HIDE DEF V
    <2>2. QED BY <2>1
<1>13. ASSUME NEW j \in 1 .. m
       PROVE  /\ r[j].op \in {"drop", "use"}
              /\ \A labels : Rule(r[j], path[j - 1], path[j], labels)
    <2>1. (n - j) + 1 \in DOMAIN items /\ j - 1 \in 0 .. m /\ j \in 0 .. m
          /\ n - (j - 1) = (n - j) + 1 /\ ((n - j) + 1) - 1 = n - j
        <3>1. (n - j) + 1 \in o + 1 .. n /\ n \in Nat /\ o \in 0 .. n /\ DOMAIN items = 1 .. n /\ m \in Nat
            BY <1>1, <1>2, <1>3
        <3>2. QED BY <3>1
    <2> HIDE DEF V
    <2>2. path[j - 1] = V((n - j) + 1) /\ path[j] = V(n - j)
        BY <2>1
    <2> HIDE DEF path
    <2>3. r[j].op = items[(n - j) + 1].op
        BY <1>3 DEF I
    <2>4. QED BY <1>3, <1>10, <2>1, <2>2, <2>3
<1> HIDE DEF path
<1>14. Leads(r, V(n), V(o))
    BY <1>3, <1>11, <1>12, <1>13 DEF Leads
<1>15. QED BY <1>2, <1>3, <1>6, <1>7, <1>8, <1>14 DEF r

(* Scopes are left behind other code.                                      *)
LEMMA CleanedUp ==
    ASSUME Typed, Bindings, Deferred, NEW d \in Nat, NEW reached \in BOOLEAN, NEW gone,
           ~Written(EndingForms) => gone = {},
           NEW s, NEW T, NEW sz, NEW n, NEW B, NEW E, NEW L,
           Sound(s, Note(reached, visible, gone), T, sz, n, B, E, L),
           NEW sz2 \in Nat, sz <= sz2
    PROVE  /\ Cleanup(d) \in Seq(Instruction)
           /\ Sound(s \o Cleanup(d), Note(reached, Around(d), gone), T, sz2, n, B, E, L)
<1> DEFINE r == Cleanup(d)
<1>1. r \in Seq(Instruction) /\ Len(r) \in Nat
    BY CleanupFlows
<1>2. Leads(r, Note(reached, visible, gone), Note(reached, Around(d), gone))
    BY CleanupFlows
<1> HIDE DEF r
<1>3. PICK path \in [0 .. Len(r) -> Notes] :
          /\ path[0] = Note(reached, visible, gone) /\ path[Len(r)] = Note(reached, Around(d), gone)
          /\ \A j \in 1 .. Len(r) :
                 r[j].op \in {"drop", "use"} /\ \A labels : Rule(r[j], path[j - 1], path[j], labels)
    BY <1>2 DEF Leads
<1>4. n \in Nat /\ sz \in Nat
    BY DEF Sound
<1>5. n <= n
    BY <1>4
<1>6. \A j \in 1 .. Len(r) : /\ r[j].op \notin Controls
                             /\ r[j].op \in {"fresh", "from"} => r[j].at \in 1 .. n
    BY <1>3 DEF Controls
<1>7. Sound(s \o r, path[Len(r)], T, sz2, n, B, E, L)
    <2>1. /\ path \in [0 .. Len(r) -> Notes] /\ path[0] = Note(reached, visible, gone)
          /\ \A j \in 1 .. Len(r) : Rule(r[j], path[j - 1], path[j], T)
        BY <1>3
    <2>2. QED BY <1>1, <1>4, <1>5, <1>6, <2>1, Straight
<1>8. QED BY <1>1, <1>7, <1>3 DEF r

(* Nothing is declared outside the function's own block.                   *)
LEMMA AroundOne == ASSUME Bindings, Typed PROVE Around(1) = {}
<1>1. Depth \in Nat /\ \A d \in visible : decls[d].depth \in 1 .. Depth
    BY TypedIs DEF Bindings
<1>2. \A d \in visible : ~(decls[d].depth < 1)
    BY <1>1
<1>3. QED BY <1>2 DEF Around

(* The function is left.                                                   *)
LEMMA LeftBehind ==
    ASSUME Typed, Bindings, Deferred, NEW reached \in BOOLEAN, NEW gone,
           ~Written(EndingForms) => gone = {},
           NEW s, NEW T, NEW sz, NEW n, NEW B, NEW E, NEW L,
           Sound(s, Note(reached, visible, gone), T, sz, n, B, E, L),
           NEW sz2 \in Nat, sz <= sz2
    PROVE  /\ Leaving \in Seq(Instruction)
           /\ Sound(s \o Leaving, Unreached, T, sz2, n, B, E, L)
<1> DEFINE r == Cleanup(1)
           i == I("ret", 0)
<1>1. i \in Instruction /\ i.op = "ret" /\ Unreached \in Notes
    BY DEF Instruction, Ops, I, Unreached, Notes
<1>2. r \in Seq(Instruction) /\ Sound(s \o r, Note(reached, {}, gone), T, sz, n, B, E, L)
    <2>1. sz \in Nat
        BY DEF Sound
    <2>2. sz <= sz
        BY <2>1
    <2>3. 1 \in Nat
        OBVIOUS
    <2>4. QED BY <2>1, <2>2, <2>3, CleanedUp, AroundOne
<1>3. s \in Seq(Instruction) /\ n \in Nat
    BY DEF Sound
<1> HIDE DEF r, i
<1>4. \A v, w, labels : (v.reached => v.open = {}) => Rule(i, v, w, labels)
    BY <1>1 DEF Rule
<1>5. Rule(i, Note(reached, {}, gone), Unreached, T)
    BY <1>4 DEF Note, Known, Unreached
<1>6. n <= n /\ i.op \notin Controls /\ i.op \notin {"fresh", "from"}
    BY <1>1, <1>3 DEF Controls
<1>7. Sound((s \o r) \o <<i>>, Unreached, T, sz2, n, B, E, L)
    BY <1>1, <1>2, <1>3, <1>5, <1>6, StraightOne
<1>8. <<i>> \in Seq(Instruction)
    BY <1>1
<1>9. r \o <<i>> \in Seq(Instruction) /\ (s \o r) \o <<i>> = s \o (r \o <<i>>)
    BY <1>2, <1>3, <1>8, ConcatProperties, ConcatAssociative
<1>10. QED BY <1>7, <1>9 DEF Leaving, r, i

-----------------------------------------------------------------------------
(* The inductive invariant of the emitted code. *)

Branching == {"then", "else", "arm", "lastArm"}
PastElse == {"else", "lastArm"}
Looping == {"while", "forever"}
Ids(kinds) == {frames[k].id : k \in {j \in 2 .. Depth : frames[j].kind \in kinds}}

(* What holds where the block of frame k began, but for what an arm takes, *)
(* and where the jumps made so far leave it.                               *)
HeadNote(k) == Note(Reached(k - 1), Around(k),
                    IF frames[k].kind = "arm" THEN frames[k].before \ {frames[k].from}
                                              ELSE frames[k].before)
TailNote(k) ==
    IF InLoop(frames[k])
    THEN Note(Reached(k - 1) /\ (frames[k].kind = "while" \/ frames[k].breaks),
              Around(k), frames[k].before)
    ELSE Note(Reached(k - 1) /\ frames[k].joins # {}, Around(k), UNION frames[k].joins)

Links(T) ==
    \A k \in 2 .. Depth :
        /\ frames[k].kind \in {"then", "arm"} \cup Looping => T[frames[k].id].head = HeadNote(k)
        /\ frames[k].kind # "block" => T[frames[k].id].tail = TailNote(k)

Compiled(T) ==
    /\ Sound(code, Cur, T, size, Len(decls), Ids(Branching), Ids(PastElse), Ids(Looping))
    /\ Links(T)
Compiling == Scoped /\ \E T \in Labels : Compiled(T)

-----------------------------------------------------------------------------
(* Statements without a block. *)

(* A loop between two depths is counted.                                   *)
LEMMA LoopsGrow ==
    ASSUME Typed, NEW j \in Nat, NEW k \in 1 .. Depth, j < k, InLoop(frames[k])
    PROVE  Loops(j) \in Nat /\ Loops(Depth) \in Nat /\ Loops(j) < Loops(Depth) /\ Loops(Depth) > 0
<1> DEFINE A == {i \in 1 .. j : InLoop(frames[i])}
           B == {i \in 1 .. Depth : InLoop(frames[i])}
<1>1. Depth \in Nat
    BY TypedIs
<1>2. A \subseteq B /\ k \in B /\ k \notin A
    BY <1>1
<1>3. IsFiniteSet(1 .. Depth) /\ B \subseteq 1 .. Depth
    BY <1>1, FS_Interval
<1>4. IsFiniteSet(B)
    BY <1>3, FS_Subset
<1>5. IsFiniteSet(B \ {k}) /\ Cardinality(B \ {k}) = Cardinality(B) - 1
    BY <1>2, <1>4, FS_RemoveElement
<1>6. A \subseteq B \ {k}
    BY <1>2
<1>7. IsFiniteSet(A) /\ Cardinality(A) <= Cardinality(B \ {k})
    BY <1>5, <1>6, FS_Subset
<1>8. Cardinality(A) \in Nat /\ Cardinality(B) \in Nat /\ Cardinality(B \ {k}) \in Nat
    BY <1>4, <1>5, <1>7, FS_CardinalityType
<1> HIDE DEF A, B
<1>9. Cardinality(A) < Cardinality(B) /\ Cardinality(B) > 0
    BY <1>5, <1>7, <1>8
<1>10. Loops(j) = Cardinality(A) /\ Loops(Depth) = Cardinality(B)
    BY DEF Loops, A, B
<1>11. QED BY <1>8, <1>9, <1>10

(* A name that may be used means an open binding that was not moved.       *)
LEMMA MayUseIs ==
    ASSUME Scoped, NEW x \in Names, MayUse(x)
    PROVE  /\ Resolve(x) \in visible \ moved /\ decls[Resolve(x)].name = x
           /\ Resolve(x) \in Nat /\ Resolve(x) \in 1 .. Len(decls)
BY ResolveIs, TypedIs DEF MayUse, Scoped, Typed

(* What may be moved was declared in the innermost loop, if there is one.  *)
LEMMA MayMoveIs ==
    ASSUME Scoped, NEW x \in Names, MayMove(x)
    PROVE  \A k \in 1 .. Depth : InLoop(frames[k]) => Resolve(x) \notin Around(k)
<1> DEFINE d == Resolve(x)
<1>1. d \in visible /\ d \in 1 .. Len(decls)
    BY MayUseIs DEF MayMove
<1> HIDE DEF d
<1>2. Typed /\ Depth \in Nat /\ decls[d].depth \in Nat
    BY <1>1, TypedIs DEF Scoped
<1>3. ASSUME NEW k \in 1 .. Depth, InLoop(frames[k]), decls[d].depth < k PROVE FALSE
    <2>1. Loops(decls[d].depth) < Loops(Depth) /\ Loops(Depth) > 0
        BY <1>2, <1>3, LoopsGrow
    <2>2. LoopDepth = Loops(Depth)
        BY DEF LoopDepth, Loops
    <2>3. decls[d].loop = Loops(decls[d].depth)
        BY <1>1 DEF Scoped, Bindings
    <2>4. CrossesLoop(d)
        BY <2>1, <2>2, <2>3 DEF CrossesLoop
    <2>5. QED BY <2>4 DEF MayMove, d
<1>4. QED BY <1>3 DEF Around, d

(* The open blocks stay what they are, but for what returns or breaks.     *)
SameBlocks ==
    /\ frames' \in Seq(Frame) /\ Len(frames') = Len(frames)
    /\ \A k \in 1 .. Depth :
           /\ frames'[k].kind = frames[k].kind /\ frames'[k].id = frames[k].id
           /\ frames'[k].before = frames[k].before /\ frames'[k].joins = frames[k].joins
           /\ frames'[k].all = frames[k].all /\ frames'[k].from = frames[k].from

(* A statement without a block may move bindings, not over a loop.         *)
LEMMA SteadyRest ==
    ASSUME Scoped, SameBlocks, style' = style, Len(decls') \in Nat, Len(decls) <= Len(decls'),
           \A k \in 1 .. Depth : Around(k)' = Around(k),
           size' \in Nat, size <= size',
           NEW gone \in SUBSET visible, moved' = moved \cup gone,
           gone # {} => Written(EndingForms),
           \A k \in 1 .. Depth : InLoop(frames[k]) => \A d \in gone : d \notin Around(k)
    PROVE  Nesting' /\ Moved' /\ Branches'
<1>1. Depth' = Depth /\ Depth \in Nat
    BY TypedIs DEF Depth, SameBlocks, Scoped
<1>2. \A k \in 1 .. Depth : InLoop(frames[k])' <=> InLoop(frames[k])
    BY DEF InLoop, SameBlocks
<1>3. Nesting'
    <2>1. ASSUME NEW k \in 2 .. Depth PROVE frames'[k].id < size'
        <3>1. frames[k] \in Frame /\ k \in 1 .. Depth
            BY <1>1, TypedIs DEF Scoped
        <3>2. frames[k].id \in Nat /\ frames[k].id < size /\ frames'[k].id = frames[k].id /\ size \in Nat
            BY <3>1 DEF Frame, Scoped, Nesting, Typed, SameBlocks
        <3>3. QED BY <3>2
    <2>2. \A k \in 2 .. Depth : k \in 1 .. Depth
        BY <1>1
    <2>3. \A k \in 1 .. Depth : frames'[k].kind = "fn" <=> k = 1
        BY DEF Scoped, Nesting, SameBlocks
    <2>4. \A j, k \in 2 .. Depth : j < k => frames'[j].id < frames'[k].id
        BY <2>2 DEF Scoped, Nesting, SameBlocks
    <2>5. QED BY <1>1, <2>1, <2>3, <2>4 DEF Scoped, Nesting
<1>4. Moved'
    <2>1. \A k \in 1 .. Depth : Around(k)' = Around(k)
        OBVIOUS
    <2>2. \A k \in 1 .. Depth : InLoop(frames[k]) =>
              \A d \in Around(k) \ frames[k].before :
                  /\ d \notin moved'
                  /\ \A j \in k + 1 .. Depth : j \in 1 .. Depth /\
                         d \notin frames[j].before /\ \A m \in frames[j].joins : d \notin m
        BY <1>1 DEF Scoped, Moved
    <2>3. \A k \in 1 .. Depth : InLoop(frames[k])' =>
              \A d \in Around(k)' \ frames'[k].before :
                  /\ d \notin moved'
                  /\ \A j \in k + 1 .. Depth :
                         d \notin frames'[j].before /\ \A m \in frames'[j].joins : d \notin m
        BY <1>2, <2>1, <2>2 DEF SameBlocks
    <2>4. /\ \A k \in 1 .. Depth : frames'[k].before \subseteq moved'
          /\ \A j, k \in 1 .. Depth : j < k => frames'[j].before \subseteq frames'[k].before
          /\ \A k \in 1 .. Depth : \A m \in frames'[k].joins :
                 frames'[k].before \subseteq m /\ m \subseteq 1 .. Len(decls')
        <3>1. \A e \in 1 .. Len(decls) : e \in 1 .. Len(decls')
            BY TypedIs DEF Scoped
        <3>2. QED BY <3>1 DEF Scoped, Moved, SameBlocks
    <2>5. QED BY <1>1, <2>3, <2>4 DEF Moved
<1>5. Branches'
    <2>1. \A k \in 1 .. Depth : Around(k)' = Around(k)
        OBVIOUS
    <2>2. /\ \A k \in 1 .. Depth : frames'[k].kind \in {"then", "arm"} =>
                 frames'[k].joins = {} /\ frames'[k].all
          /\ \A k \in 1 .. Depth : frames'[k].kind \in {"else", "lastArm"} =>
                 (frames'[k].joins = {} <=> frames'[k].all)
        BY DEF Scoped, Branches, SameBlocks
    <2>3. \A k \in 1 .. Depth : frames'[k].kind = "arm" =>
              frames'[k].from \in Around(k)' \cap frames'[k].before
        <3>1. \A k \in 1 .. Depth : frames[k].kind = "arm" =>
                  frames[k].from \in Around(k) \cap frames[k].before
            BY DEF Scoped, Branches
        <3>2. QED BY <2>1, <3>1 DEF SameBlocks
    <2>4. \A k \in 1 .. Depth : InLoop(frames[k])' => Written({"while", "forever"})'
        BY <1>2 DEF Scoped, Branches, Written
    <2>5. ~Written(EndingForms)' => moved' = {} /\ \A k \in 1 .. Depth :
              frames'[k].before = {} /\ frames'[k].joins \subseteq {{}}
        BY DEF Scoped, Branches, SameBlocks, Written, EndingForms
    <2>6. QED BY <1>1, <2>2, <2>3, <2>4, <2>5 DEF Branches
<1>6. QED BY <1>3, <1>4, <1>5

(* A statement that opens and closes no scope, and ends only bindings of   *)
(* the innermost loop, keeps the frames in order.                          *)
LEMMA QuietRest ==
    ASSUME Scoped, SameBlocks, UNCHANGED <<style, decls, visible>>,
           size' \in Nat, size <= size',
           NEW gone \in SUBSET visible, moved' = moved \cup gone,
           gone # {} => Written(EndingForms),
           \A k \in 1 .. Depth : InLoop(frames[k]) => \A d \in gone : d \notin Around(k)
    PROVE  Nesting' /\ Bindings' /\ Moved' /\ Branches'
<1>1. Depth' = Depth /\ Depth \in Nat
    BY TypedIs DEF Depth, SameBlocks, Scoped
<1>2. \A k \in 1 .. Depth : InLoop(frames[k])' <=> InLoop(frames[k])
    BY DEF InLoop, SameBlocks
<1>3. \A k \in 1 .. Depth : Around(k)' = Around(k)
    BY DEF Around
<1>4. Len(decls') \in Nat /\ Len(decls) <= Len(decls')
    BY TypedIs DEF Scoped
<1>5. Bindings'
    <2>1. ASSUME NEW d \in visible PROVE Loops(decls[d].depth)' = Loops(decls[d].depth)
        <3>1. decls[d].depth \in 1 .. Depth
            BY DEF Scoped, Bindings
        <3>2. \A j \in 1 .. decls[d].depth : j \in 1 .. Depth
            BY <1>1, <3>1
        <3>3. {j \in 1 .. decls[d].depth : InLoop(frames[j])'} = {j \in 1 .. decls[d].depth : InLoop(frames[j])}
            BY <1>2, <3>2
        <3>4. QED BY <3>3 DEF Loops
    <2>2. QED BY <1>1, <2>1 DEF Scoped, Bindings
<1>6. Nesting' /\ Moved' /\ Branches'
    BY <1>3, <1>4, SteadyRest
<1>7. QED BY <1>5, <1>6

(* Such a statement keeps the compiler's invariant of scopes.              *)
LEMMA QuietScoped ==
    ASSUME Scoped, SameBlocks, UNCHANGED <<style, decls, visible, items>>,
           size' \in Nat, size <= size', code' \in Seq(Instruction),
           NEW gone \in SUBSET visible, moved' = moved \cup gone,
           gone # {} => Written(EndingForms),
           \A k \in 1 .. Depth : InLoop(frames[k]) => \A d \in gone : d \notin Around(k)
    PROVE  Scoped'
<1>1. Depth' = Depth
    BY DEF Depth, SameBlocks
<1>2. Typed'
    BY DEF Typed, Scoped, SameBlocks
<1>3. Nesting' /\ Bindings' /\ Moved' /\ Branches'
    BY QuietRest
<1>4. Deferred'
    <2>1. Placed' /\ Sorted' /\ NamesOpen' /\ AtHome' /\ EachDropped'
        BY <1>1 DEF Scoped, Deferred, Placed, Sorted, NamesOpen, AtHome, EachDropped
    <2>2. InOrder'
        BY DEF Scoped, Deferred, InOrder
    <2>3. ReadBefore'
        BY DEF Scoped, Deferred, ReadBefore, Written
    <2>4. QED BY <2>1, <2>2, <2>3 DEF Deferred
<1>5. QED BY <1>2, <1>3, <1>4 DEF Scoped

(* A quiet statement keeps what is known of the open blocks.               *)
LEMMA SteadyLinks ==
    ASSUME Scoped, SameBlocks, \A k \in 1 .. Depth : Around(k)' = Around(k)
    PROVE  /\ \A kinds : Ids(kinds)' = Ids(kinds)
           /\ (/\ \A k \in 1 .. Depth : frames'[k].breaks = frames[k].breaks
               /\ \A k \in 1 .. Depth : k < Depth => frames'[k].returns = frames[k].returns)
              => \A T : Links(T) => Links(T)'
<1>1. Depth' = Depth /\ Depth \in Nat
    BY TypedIs DEF Depth, SameBlocks, Scoped
<1>2. \A k \in 2 .. Depth : k \in 1 .. Depth
    BY <1>1
<1>3. ASSUME NEW kinds PROVE Ids(kinds)' = Ids(kinds)
    BY <1>1, <1>2 DEF Ids, SameBlocks
<1>4. ASSUME NEW T, Links(T),
             \A k \in 1 .. Depth : frames'[k].breaks = frames[k].breaks,
             \A k \in 1 .. Depth : k < Depth => frames'[k].returns = frames[k].returns
      PROVE  Links(T)'
    <2>1. ASSUME NEW k \in 2 .. Depth
          PROVE  HeadNote(k)' = HeadNote(k) /\ TailNote(k)' = TailNote(k)
        <3>1. \A j \in 1 .. k - 1 : j \in 1 .. Depth /\ j < Depth
            BY <1>1
        <3>2. Reached(k - 1)' <=> Reached(k - 1)
            BY <1>4, <3>1 DEF Reached
        <3>3. Around(k)' = Around(k)
            BY <1>2
        <3>4. /\ frames'[k].kind = frames[k].kind /\ frames'[k].before = frames[k].before
              /\ frames'[k].joins = frames[k].joins /\ frames'[k].from = frames[k].from
              /\ frames'[k].breaks = frames[k].breaks
            BY <1>2, <1>4 DEF SameBlocks
        <3>5. Reached(k - 1) \in BOOLEAN /\ Reached(k - 1)' \in BOOLEAN
            BY DEF Reached
        <3>6. Reached(k - 1)' = Reached(k - 1)
            BY <3>2, <3>5
        <3>7. InLoop(frames[k])' <=> InLoop(frames[k])
            BY <3>4 DEF InLoop
        <3>8. HeadNote(k)' = HeadNote(k)
            BY <3>3, <3>4, <3>6 DEF HeadNote
        <3>9. TailNote(k)' = TailNote(k)
            BY <3>3, <3>4, <3>6, <3>7 DEF TailNote
        <3>10. QED BY <3>8, <3>9
    <2>2. ASSUME NEW k \in 2 .. Depth'
          PROVE  /\ frames'[k].kind \in {"then", "arm"} \cup Looping =>
                        T[frames'[k].id].head = HeadNote(k)'
                 /\ frames'[k].kind # "block" => T[frames'[k].id].tail = TailNote(k)'
        BY <1>1, <1>2, <1>4, <2>1 DEF Links, SameBlocks
    <2>3. QED BY <2>2 DEF Links
<1>5. QED BY <1>3, <1>4

(* Open statements keep their numbers and their labels when the blocks     *)
(* stay.                                                                   *)
LEMMA QuietLinks ==
    ASSUME Scoped, SameBlocks, UNCHANGED <<decls, visible>>
    PROVE  /\ \A kinds : Ids(kinds)' = Ids(kinds)
           /\ (/\ \A k \in 1 .. Depth : frames'[k].breaks = frames[k].breaks
               /\ \A k \in 1 .. Depth : k < Depth => frames'[k].returns = frames[k].returns)
              => \A T : Links(T) => Links(T)'
<1>1. \A k \in 1 .. Depth : Around(k)' = Around(k)
    BY DEF Around
<1>2. QED BY <1>1, SteadyLinks

(* Labels of statements that are still to come do not matter.              *)
LEMMA LinksFresh ==
    ASSUME Scoped, NEW T, NEW U, Links(T), \A a \in Nat : a < size => U[a] = T[a]
    PROVE  Links(U)
<1>1. ASSUME NEW k \in 2 .. Depth PROVE U[frames[k].id] = T[frames[k].id]
    <2>1. k \in 1 .. Depth
        BY <1>1, TypedIs DEF Scoped
    <2>2. frames[k].id \in Nat /\ frames[k].id < size
        BY <2>1, TypedIs DEF Scoped, Frame, Nesting
    <2>3. QED BY <2>2
<1>2. QED BY <1>1 DEF Links

(* What the checker knows now is a note.                                   *)
LEMMA CurType == ASSUME Scoped PROVE Cur \in Notes /\ Reached(Depth) \in BOOLEAN
<1>1. visible \in SUBSET Nat /\ Reached(Depth) \in BOOLEAN
    BY TypedIs DEF Scoped, Reached
<1>2. QED BY <1>1, NoteType DEF Cur

(* The code of a try hoisted in front of a statement.                      *)
LEMMA TryFlows ==
    ASSUME Scoped, NEW T \in Labels, Links(T), NEW n, NEW B, NEW E, NEW L,
           Sound(code, Cur, T, size, n, B, E, L)
    PROVE  /\ Propagate \in Seq(Instruction)
           /\ \E U \in Labels : /\ Sound(code \o Propagate, Cur, U, size + 1, n, B, E, L)
                                /\ Links(U)
<1> DEFINE U == [T EXCEPT ![size] = [head |-> Cur, tail |-> Cur]]
           i == I("if", size)
           e == I("end", size)
<1>1. /\ size \in Nat /\ code \in Seq(Instruction) /\ Cur \in Notes /\ Typed /\ Bindings /\ Deferred
      /\ Reached(Depth) \in BOOLEAN /\ (~Written(EndingForms) => moved = {})
    BY CurType DEF Scoped, Typed, Branches
<1>2. U \in Labels /\ U[size] = [head |-> Cur, tail |-> Cur] /\ \A a \in Nat : a < size => U[a] = T[a]
    BY <1>1 DEF Labels
<1>3. /\ i \in Instruction /\ i.op = "if" /\ i.at = size
      /\ e \in Instruction /\ e.op = "end" /\ e.at = size
    BY <1>1 DEF I, Instruction, Ops
<1> HIDE DEF U, i, e
<1>4. Links(U)
    BY <1>2, LinksFresh
<1>5. Sound(code, Cur, U, size, n, B, E, L)
    <2>1. \A a \in Nat : a < size => U[a].head = T[a].head /\ U[a].tail = T[a].tail
        BY <1>2
    <2>2. QED BY <1>2, <2>1, Relabel
<1>6. Sound(code \o <<i>>, Cur, U, size + 1, n, B \cup {size}, E, L)
    BY <1>2, <1>3, <1>5, FlowsSame, BeginIf
<1>7. /\ Leaving \in Seq(Instruction)
      /\ Sound((code \o <<i>>) \o Leaving, Unreached, U, size + 1, n, B \cup {size}, E, L)
    <2>1. size + 1 \in Nat /\ size + 1 <= size + 1
        BY <1>1
    <2>2. QED BY <1>1, <1>6, <2>1, LeftBehind DEF Cur
<1>8. Sound(((code \o <<i>>) \o Leaving) \o <<e>>, Cur, U, size + 1, n,
            (B \cup {size}) \ {size}, E \ {size}, L)
    <2>1. Flows(U[size].head, U[size].tail) /\ Flows(Unreached, U[size].tail)
        BY <1>2 DEF Flows, Unreached
    <2>2. U[size].tail = Cur /\ e.at \in B \cup {size}
        BY <1>2, <1>3
    <2> DEFINE s == (code \o <<i>>) \o Leaving
               C == B \cup {size}
    <2>3. Sound(s, Unreached, U, size + 1, n, C, E, L) /\ e.at \in C
          /\ Flows(U[e.at].head, U[e.at].tail) /\ Flows(Unreached, U[e.at].tail)
        BY <1>3, <1>7, <2>1, <2>2
    <2> HIDE DEF s, C
    <2>4. Sound(s \o <<e>>, U[e.at].tail, U, size + 1, n, C \ {e.at}, E \ {e.at}, L)
        BY <1>3, <2>3, EndBranch
    <2>5. QED BY <1>3, <2>2, <2>4 DEF s, C
<1>9. (B \cup {size}) \ {size} = B /\ E \ {size} = E
    <2>1. \A a \in B : a < size
        BY <1>5 DEF Sound, Matched
    <2>2. \A a \in E : a \in B
        BY <1>5 DEF Sound, Matched
    <2>3. size \notin B
        BY <1>1, <2>1
    <2>4. QED BY <2>2, <2>3
<1>10. ((code \o <<i>>) \o Leaving) \o <<e>> = code \o ((<<i>> \o Leaving) \o <<e>>)
    <2>1. <<i>> \in Seq(Instruction) /\ <<e>> \in Seq(Instruction)
        BY <1>3
    <2> DEFINE p == <<i>>
               q == <<e>>
    <2> HIDE DEF p, q
    <2>2. (code \o p) \o Leaving = code \o (p \o Leaving) /\ p \o Leaving \in Seq(Instruction)
        BY <1>1, <1>7, <2>1, ConcatAssociative, ConcatProperties DEF p
    <2> DEFINE m == p \o Leaving
    <2>3. code \in Seq(Instruction) /\ m \in Seq(Instruction) /\ q \in Seq(Instruction)
        BY <1>1, <2>1, <2>2 DEF q
    <2> HIDE DEF m
    <2>4. (code \o m) \o q = code \o (m \o q)
        BY <2>3, ConcatAssociative
    <2>5. QED BY <2>2, <2>4 DEF m, p, q
<1>11. Propagate \in Seq(Instruction)
    <2>1. <<i>> \in Seq(Instruction) /\ <<e>> \in Seq(Instruction)
        BY <1>3
    <2>2. (<<i>> \o Leaving) \o <<e>> \in Seq(Instruction)
        BY <1>7, <2>1, ConcatProperties
    <2>3. QED BY <2>2 DEF Propagate, i, e
<1>12. Propagate = (<<i>> \o Leaving) \o <<e>>
    BY DEF Propagate, i, e
<1>13. QED BY <1>2, <1>4, <1>8, <1>9, <1>10, <1>11, <1>12

(* What every statement has to preserve.                                   *)
Preserved == Scoped' /\ \E T \in Labels : Compiled(T)'

(* Annotations depend on the kind of function alone.                       *)
LEMMA SoundSame ==
    ASSUME style' = style
    PROVE  \A s, v, T, sz, n, B, E, L :
               Sound(s, v, T, sz, n, B, E, L)' <=> Sound(s, v, T, sz, n, B, E, L)
<1>1. ReadsWhole' <=> ReadsWhole
    BY DEF ReadsWhole, Written
<1>2. \A i, v, w, T : Rule(i, v, w, T)' <=> Rule(i, v, w, T)
    BY <1>1 DEF Rule
<1>3. \A s, v, T : Flowing(s, v, T)' <=> Flowing(s, v, T)
    BY <1>2 DEF Flowing
<1>4. QED BY <1>3 DEF Sound

(* Code that is sound after a step is compiled, whatever the step was.     *)
LEMMA CompiledNext ==
    ASSUME style' = style, NEW T, Links(T)',
           Sound(code', Cur', T, size', Len(decls'), Ids(Branching)', Ids(PastElse)', Ids(Looping)')
    PROVE  Compiled(T)'
BY SoundSame DEF Compiled

(* A statement that opens and closes no scope preserves the invariant when *)
(* its code is sound.                                                      *)
LEMMA QuietPreserved ==
    ASSUME Scoped, SameBlocks, UNCHANGED <<style, decls, visible, items>>,
           size' \in Nat, size <= size',
           NEW gone \in SUBSET visible, moved' = moved \cup gone,
           gone # {} => Written(EndingForms),
           \A k \in 1 .. Depth : InLoop(frames[k]) => \A d \in gone : d \notin Around(k),
           \A k \in 1 .. Depth : frames'[k].breaks = frames[k].breaks,
           \A k \in 1 .. Depth : k < Depth => frames'[k].returns = frames[k].returns,
           NEW U \in Labels, Links(U),
           Sound(code', Cur', U, size', Len(decls), Ids(Branching), Ids(PastElse), Ids(Looping))
    PROVE  Preserved
<1>1. code' \in Seq(Instruction)
    BY DEF Sound
<1>2. Scoped'
    BY <1>1, QuietScoped
<1>3. Links(U)'
    BY QuietLinks
<1>4. /\ Ids(Branching)' = Ids(Branching) /\ Ids(PastElse)' = Ids(PastElse)
      /\ Ids(Looping)' = Ids(Looping)
    BY QuietLinks
<1>5. Compiled(U)'
    <2>1. decls' = decls
        OBVIOUS
    <2>2. Sound(code', Cur', U, size', Len(decls'), Ids(Branching)', Ids(PastElse)', Ids(Looping)')
        BY <1>4, <2>1
    <2>3. QED BY <1>3, <2>2, CompiledNext
<1>6. QED BY <1>2, <1>5 DEF Preserved

(* Frames that do not change are the same blocks.                          *)
LEMMA PlainFrames ==
    ASSUME Typed, frames' = frames
    PROVE  /\ SameBlocks /\ Depth' = Depth /\ Reached(Depth)' = Reached(Depth)
           /\ \A k \in 1 .. Depth : frames'[k].breaks = frames[k].breaks
           /\ \A k \in 1 .. Depth : k < Depth => frames'[k].returns = frames[k].returns
BY DEF SameBlocks, Depth, Reached, Typed

(* A binding that is not moved is used, or ends.                           *)
LEMMA OneUse ==
    ASSUME Scoped, NEW x \in Names, MayUse(x), NEW T, NEW sz, NEW n, NEW B, NEW E, NEW L,
           NEW s, Sound(s, Cur, T, sz, n, B, E, L), NEW sz2 \in Nat, sz <= sz2
    PROVE  /\ I("use", Resolve(x)) \in Instruction
           /\ Sound(s \o <<I("use", Resolve(x))>>, Cur, T, sz2, n, B, E, L)
<1> DEFINE d == Resolve(x)
           i == I("use", d)
<1>1. d \in visible \ moved /\ d \in Nat
    BY MayUseIs
<1>2. i \in Instruction /\ i.op = "use" /\ i.at = d
    BY <1>1 DEF Instruction, Ops, I
<1>3. Cur.reached => d \in Cur.whole
    BY <1>1 DEF Cur, Note, Known, Unreached
<1> HIDE DEF i, d
<1>4. Rule(i, Cur, Cur, T)
    BY <1>2, <1>3, FlowsSame DEF Rule
<1>5. n \in Nat /\ n <= n /\ i.op \notin Controls /\ i.op \notin {"fresh", "from"} /\ Cur \in Notes
    <2>1. n \in Nat /\ Cur \in Notes
        BY DEF Sound
    <2>2. QED BY <1>2, <2>1 DEF Controls
<1>6. Sound(s \o <<i>>, Cur, T, sz2, n, B, E, L)
    BY <1>2, <1>4, <1>5, StraightOne
<1>7. QED BY <1>2, <1>6 DEF i, d

(* A binding that is not moved may be taken, destroyed or handed out.      *)
LEMMA OneEnd ==
    ASSUME Scoped, NEW x \in Names, MayUse(x), NEW T, NEW sz, NEW n, NEW B, NEW E, NEW L,
           NEW s, Sound(s, Cur, T, sz, n, B, E, L), NEW sz2 \in Nat, sz <= sz2,
           NEW op \in {"take", "destroy", "out"}
    PROVE  /\ I(op, Resolve(x)) \in Instruction
           /\ Sound(s \o <<I(op, Resolve(x))>>, Note(Reached(Depth), visible, Consumed(x)),
                    T, sz2, n, B, E, L)
<1> DEFINE d == Resolve(x)
           i == I(op, d)
           w == Note(Reached(Depth), visible, Consumed(x))
<1>1. d \in visible \ moved /\ d \in Nat
    BY MayUseIs
<1>2. i \in Instruction /\ i.op = op /\ i.at = d
    BY <1>1 DEF Instruction, Ops, I
<1>3. /\ Cur.reached => d \in Cur.whole
      /\ Cur.reached => Flows(Known(Cur.open, Cur.whole \ {d}), w)
    BY <1>1 DEF Cur, Note, Known, Unreached, Flows, Consumed
<1>4. w \in Notes
    <2>1. visible \in SUBSET Nat /\ Reached(Depth) \in BOOLEAN
        BY TypedIs DEF Scoped, Reached
    <2>2. QED BY <2>1, NoteType
<1> HIDE DEF i, d, w
<1>5. Rule(i, Cur, w, T)
    BY <1>2, <1>3 DEF Rule
<1>6. n \in Nat /\ n <= n /\ i.op \notin Controls /\ i.op \notin {"fresh", "from"}
    <2>1. n \in Nat
        BY DEF Sound
    <2>2. QED BY <1>2, <2>1 DEF Controls
<1>7. Sound(s \o <<i>>, w, T, sz2, n, B, E, L)
    BY <1>2, <1>4, <1>5, <1>6, StraightOne
<1>8. QED BY <1>2, <1>7 DEF i, d, w

(* An instruction behind two pieces of code.                               *)
LEMMA PieceAndOne ==
    ASSUME NEW s \in Seq(Instruction), NEW p \in Seq(Instruction), NEW i \in Instruction
    PROVE  (s \o p) \o <<i>> = s \o (p \o <<i>>)
<1> DEFINE q == <<i>>
<1>1. q \in Seq(Instruction)
    OBVIOUS
<1> HIDE DEF q
<1>2. (s \o p) \o q = s \o (p \o q)
    BY <1>1, ConcatAssociative
<1>3. QED BY <1>2 DEF q

(* What a statement of one unit starts from.                               *)
LEMMA QuietSizes ==
    ASSUME Scoped, NEW T \in Labels, Compiled(T), size' = size + 1
    PROVE  /\ size \in Nat /\ size' \in Nat /\ size <= size' /\ size <= size /\ Typed
           /\ code \in Seq(Instruction) /\ Links(T) /\ (~Written(EndingForms) => moved = {})
           /\ Bindings /\ Deferred /\ Reached(Depth) \in BOOLEAN
           /\ Sound(code, Cur, T, size, Len(decls), Ids(Branching), Ids(PastElse), Ids(Looping))
<1>1. size \in Nat /\ Typed /\ code \in Seq(Instruction) /\ Bindings /\ Deferred
    BY DEF Scoped, Typed
<1>2. size' \in Nat /\ size <= size' /\ size <= size
    BY <1>1
<1>3. ~Written(EndingForms) => moved = {}
    BY DEF Scoped, Branches
<1>4. QED BY <1>1, <1>2, <1>3, CurType DEF Compiled

(* print(x.v);                                                             *)
LEMMA UseStep ==
    ASSUME Scoped, NEW T \in Labels, Compiled(T), NEW x \in Names, Use(x)
    PROVE  Preserved
<1>1. /\ size' = size + 1 /\ UNCHANGED <<style, decls, visible, items, frames, moved>>
      /\ MayUse(x) /\ code' = code \o <<I("use", Resolve(x))>>
    BY DEF Use, Writes, Plain, Emit
<1>2. SameBlocks /\ Cur' = Cur
    BY <1>1, PlainFrames DEF Cur, Scoped
<1>3. Sound(code', Cur', T, size', Len(decls), Ids(Branching), Ids(PastElse), Ids(Looping))
    BY <1>1, <1>2, QuietSizes, OneUse
<1>4. moved' = moved \cup {} /\ {} \in SUBSET visible
    BY <1>1
<1>5. QED BY <1>1, <1>2, <1>3, <1>4, QuietSizes, QuietPreserved, PlainFrames

(* consume(move x);                                                        *)
LEMMA TakeStep ==
    ASSUME Scoped, NEW T \in Labels, Compiled(T), NEW x \in Names, Take(x)
    PROVE  Preserved
<1>1. /\ size' = size + 1 /\ UNCHANGED <<style, decls, visible, items, frames>>
      /\ MayMove(x) /\ MayUse(x) /\ moved' = Consumed(x) /\ Written(EndingForms)
      /\ code' = code \o <<I("take", Resolve(x))>>
    BY DEF Take, Writes, Plain, Emit, Moves, MayMove, Written, EndingForms
<1>2. SameBlocks /\ Cur' = Note(Reached(Depth), visible, Consumed(x))
    BY <1>1, PlainFrames DEF Cur, Scoped
<1>3. Sound(code', Cur', T, size', Len(decls), Ids(Branching), Ids(PastElse), Ids(Looping))
    BY <1>1, <1>2, QuietSizes, OneEnd
<1>4. /\ moved' = moved \cup {Resolve(x)} /\ {Resolve(x)} \in SUBSET visible
      /\ \A k \in 1 .. Depth : InLoop(frames[k]) => \A d \in {Resolve(x)} : d \notin Around(k)
    BY <1>1, MayUseIs, MayMoveIs DEF Consumed
<1>5. QED BY <1>1, <1>2, <1>3, <1>4, QuietSizes, QuietPreserved, PlainFrames

(* consume(move x, try g());                                               *)
LEMMA TakeTryStep ==
    ASSUME Scoped, NEW T \in Labels, Compiled(T), NEW x \in Names, TakeTry(x)
    PROVE  Preserved
<1>1. /\ size' = size + 1 /\ UNCHANGED <<style, decls, visible, items, frames>>
      /\ MayMove(x) /\ MayUse(x) /\ moved' = Consumed(x) /\ Written(EndingForms)
      /\ code' = code \o (Propagate \o <<I("take", Resolve(x))>>)
    BY DEF TakeTry, Writes, Plain, Emit, Moves, MayMove, Written, EndingForms
<1>2. SameBlocks /\ Cur' = Note(Reached(Depth), visible, Consumed(x))
    BY <1>1, PlainFrames DEF Cur, Scoped
<1>3. Propagate \in Seq(Instruction)
    BY QuietSizes, TryFlows, <1>1
<1>4. PICK U \in Labels :
          /\ Sound(code \o Propagate, Cur, U, size + 1, Len(decls),
                   Ids(Branching), Ids(PastElse), Ids(Looping))
          /\ Links(U)
    BY QuietSizes, TryFlows, <1>1
<1>5. /\ <<I("take", Resolve(x))>> \in Seq(Instruction)
      /\ Sound((code \o Propagate) \o <<I("take", Resolve(x))>>, Cur', U, size', Len(decls),
               Ids(Branching), Ids(PastElse), Ids(Looping))
    <2>1. size + 1 \in Nat /\ size + 1 <= size + 1
        BY QuietSizes, <1>1
    <2>2. /\ I("take", Resolve(x)) \in Instruction
          /\ Sound((code \o Propagate) \o <<I("take", Resolve(x))>>,
                   Note(Reached(Depth), visible, Consumed(x)), U, size + 1, Len(decls),
                   Ids(Branching), Ids(PastElse), Ids(Looping))
        BY <1>1, <1>4, <2>1, OneEnd
    <2>3. <<I("take", Resolve(x))>> \in Seq(Instruction)
        BY <2>2
    <2>4. QED BY <1>1, <1>2, <2>2, <2>3
<1>6. (code \o Propagate) \o <<I("take", Resolve(x))>> = code'
    <2>1. code \in Seq(Instruction)
        BY <1>1, QuietSizes
    <2>2. I("take", Resolve(x)) \in Instruction
        BY <1>1, MayUseIs DEF I, Instruction, Ops
    <2>3. QED BY <1>1, <1>3, <2>1, <2>2, PieceAndOne
<1>7. Sound(code', Cur', U, size', Len(decls), Ids(Branching), Ids(PastElse), Ids(Looping))
    BY <1>5, <1>6
<1>8. /\ moved' = moved \cup {Resolve(x)} /\ {Resolve(x)} \in SUBSET visible
      /\ \A k \in 1 .. Depth : InLoop(frames[k]) => \A d \in {Resolve(x)} : d \notin Around(k)
    BY <1>1, MayUseIs, MayMoveIs DEF Consumed
<1>9. QED BY <1>1, <1>2, <1>7, <1>4, <1>8, QuietSizes, QuietPreserved, PlainFrames

(* try g();                                                                *)
LEMMA TryStep ==
    ASSUME Scoped, NEW T \in Labels, Compiled(T), Try
    PROVE  Preserved
<1>1. /\ size' = size + 1 /\ UNCHANGED <<style, decls, visible, items, frames, moved>>
      /\ code' = code \o Propagate
    BY DEF Try, Writes, Plain, Emit
<1>2. SameBlocks /\ Cur' = Cur
    BY <1>1, PlainFrames DEF Cur, Scoped
<1>3. PICK U \in Labels :
          /\ Sound(code \o Propagate, Cur, U, size + 1, Len(decls),
                   Ids(Branching), Ids(PastElse), Ids(Looping))
          /\ Links(U)
    BY QuietSizes, TryFlows, <1>1
<1>4. moved' = moved \cup {} /\ {} \in SUBSET visible
    BY <1>1
<1>5. QED BY <1>1, <1>2, <1>3, <1>4, QuietSizes, QuietPreserved, PlainFrames

(* destroy(&x);  No loop is open where one may be written.                 *)
LEMMA DestroyStep ==
    ASSUME Scoped, NEW T \in Labels, Compiled(T), Followed, NEW x \in Names, Destroy(x)
    PROVE  Preserved
<1>1. /\ size' = size + 1 /\ UNCHANGED <<style, decls, visible, items, frames>>
      /\ MayUse(x) /\ moved' = Consumed(x) /\ Written(EndingForms) /\ Written({"destroy"})
      /\ code' = code \o <<I("destroy", Resolve(x))>>
    BY DEF Destroy, Writes, Plain, Emit, Written, EndingForms
<1>2. SameBlocks /\ Cur' = Note(Reached(Depth), visible, Consumed(x))
    BY <1>1, PlainFrames DEF Cur, Scoped
<1>3. Sound(code', Cur', T, size', Len(decls), Ids(Branching), Ids(PastElse), Ids(Looping))
    BY <1>1, <1>2, QuietSizes, OneEnd
<1>4. ~Written({"while", "forever"})
    BY <1>1 DEF Followed
<1>5. \A k \in 1 .. Depth : ~InLoop(frames[k])
    BY <1>4 DEF Scoped, Branches
<1>6. moved' = moved \cup {Resolve(x)} /\ {Resolve(x)} \in SUBSET visible
    BY <1>1, MayUseIs DEF Consumed
<1>7. QED BY <1>1, <1>2, <1>3, <1>5, <1>6, QuietSizes, QuietPreserved, PlainFrames

(* A frame is marked.                                                      *)
LEMMA FrameSet ==
    ASSUME NEW fs \in Seq(Frame), NEW j \in 1 .. Len(fs), NEW f \in Frame
    PROVE  /\ [fs EXCEPT ![j] = f] \in Seq(Frame) /\ Len([fs EXCEPT ![j] = f]) = Len(fs)
           /\ \A k \in 1 .. Len(fs) : [fs EXCEPT ![j] = f][k] = IF k = j THEN f ELSE fs[k]
BY ExceptSeq

(* A return marks the innermost frame and changes nothing else.            *)
LEMMA ReturningIs ==
    ASSUME NEW fs \in Seq(Frame), Len(fs) > 0
    PROVE  /\ Returning(fs) \in Seq(Frame) /\ Len(Returning(fs)) = Len(fs)
           /\ \A k \in 1 .. Len(fs) :
                  LET f == Returning(fs)[k] IN
                  /\ f.kind = fs[k].kind /\ f.id = fs[k].id /\ f.before = fs[k].before
                  /\ f.joins = fs[k].joins /\ f.all = fs[k].all /\ f.from = fs[k].from
                  /\ f.breaks = fs[k].breaks
                  /\ f.returns = IF k = Len(fs) THEN TRUE ELSE fs[k].returns
<1> DEFINE n == Len(fs)
           g == [fs[n] EXCEPT !.returns = TRUE]
<1>1. n \in 1 .. n /\ n \in Nat
    BY LenProperties
<1>2. \A k \in 1 .. n : fs[k] \in Frame
    BY ElementOfSeq
<1>3. /\ g \in Frame /\ g.returns = TRUE
      /\ g.kind = fs[n].kind /\ g.id = fs[n].id /\ g.before = fs[n].before /\ g.joins = fs[n].joins
      /\ g.all = fs[n].all /\ g.from = fs[n].from /\ g.breaks = fs[n].breaks
    BY <1>1, <1>2 DEF Frame
<1>4. Returning(fs) = [fs EXCEPT ![n] = g]
    BY DEF Returning
<1>5. \A k \in 1 .. n : fs[k].returns \in BOOLEAN
    BY <1>2 DEF Frame
<1> HIDE DEF n, g
<1>6. /\ Returning(fs) \in Seq(Frame) /\ Len(Returning(fs)) = n
      /\ \A k \in 1 .. n : Returning(fs)[k] = IF k = n THEN g ELSE fs[k]
    BY <1>1, <1>3, <1>4, FrameSet DEF n
<1>7. QED BY <1>3, <1>5, <1>6 DEF n

(* After a return the blocks are the same, and nothing behind it is        *)
(* reached.                                                                *)
LEMMA ReturningBlocks ==
    ASSUME Scoped, frames' = Returning(frames)
    PROVE  /\ SameBlocks /\ Depth' = Depth /\ Reached(Depth)' = FALSE
           /\ \A k \in 1 .. Depth : frames'[k].breaks = frames[k].breaks
           /\ \A k \in 1 .. Depth : k < Depth => frames'[k].returns = frames[k].returns
<1>1. frames \in Seq(Frame) /\ Len(frames) > 0 /\ Depth = Len(frames) /\ Depth \in Nat
    BY TypedIs DEF Scoped, Typed, Nesting, Depth
<1>2. /\ frames' \in Seq(Frame) /\ Len(frames') = Len(frames)
      /\ \A k \in 1 .. Depth :
             /\ frames'[k].kind = frames[k].kind /\ frames'[k].id = frames[k].id
             /\ frames'[k].before = frames[k].before /\ frames'[k].joins = frames[k].joins
             /\ frames'[k].all = frames[k].all /\ frames'[k].from = frames[k].from
             /\ frames'[k].breaks = frames[k].breaks
             /\ frames'[k].returns = IF k = Depth THEN TRUE ELSE frames[k].returns
    BY <1>1, ReturningIs
<1>3. SameBlocks /\ Depth' = Depth
    BY <1>2 DEF SameBlocks, Depth
<1>4. Depth \in 1 .. Depth /\ frames'[Depth].returns = TRUE
    <2>1. Depth > 0 /\ Depth \in Nat
        BY <1>1
    <2>2. Depth \in 1 .. Depth
        BY <2>1
    <2>3. QED BY <1>2, <2>2
<1>5. Reached(Depth)' = FALSE
    BY <1>3, <1>4 DEF Reached
<1>6. \A k \in 1 .. Depth : frames[k].returns \in BOOLEAN
    BY TypedIs DEF Frame, Scoped
<1>7. \A k \in 1 .. Depth : k < Depth => k # Depth
    BY <1>1
<1>8. QED BY <1>2, <1>3, <1>5, <1>6, <1>7

(* return;                                                                 *)
LEMMA ReturnStep ==
    ASSUME Scoped, NEW T \in Labels, Compiled(T), Return
    PROVE  Preserved
<1>1. /\ size' = size + 1 /\ UNCHANGED <<style, decls, visible, items, moved>>
      /\ frames' = Returning(frames) /\ code' = code \o Leaving
    BY DEF Return, Writes, Jumps, Emit
<1>2. SameBlocks /\ Cur' = Unreached
    BY <1>1, ReturningBlocks DEF Cur, Note
<1>3. Sound(code \o Leaving, Unreached, T, size', Len(decls),
            Ids(Branching), Ids(PastElse), Ids(Looping))
    <2>1. Sound(code, Note(Reached(Depth), visible, moved), T, size, Len(decls),
                Ids(Branching), Ids(PastElse), Ids(Looping))
        BY <1>1, QuietSizes DEF Cur
    <2>2. QED BY <1>1, <2>1, QuietSizes, LeftBehind
<1>4. moved' = moved \cup {} /\ {} \in SUBSET visible
    BY <1>1
<1>5. QED BY <1>1, <1>2, <1>3, <1>4, QuietSizes, QuietPreserved, ReturningBlocks

(* return move x;                                                          *)
LEMMA ReturnMoveStep ==
    ASSUME Scoped, NEW T \in Labels, Compiled(T), NEW x \in Names, ReturnMove(x)
    PROVE  Preserved
<1> DEFINE i == I("out", Resolve(x))
<1>1. /\ size' = size + 1 /\ UNCHANGED <<style, decls, visible, items>>
      /\ MayMove(x) /\ MayUse(x) /\ moved' = Consumed(x) /\ Written(EndingForms)
      /\ frames' = Returning(frames) /\ code' = code \o (<<i>> \o Leaving)
    BY DEF ReturnMove, Writes, Jumps, Emit, Moves, MayMove, Written, EndingForms
<1>2. SameBlocks /\ Cur' = Unreached
    BY <1>1, ReturningBlocks DEF Cur, Note
<1>3. i \in Instruction /\ Sound(code \o <<i>>, Note(Reached(Depth), visible, Consumed(x)), T,
                                 size, Len(decls), Ids(Branching), Ids(PastElse), Ids(Looping))
    BY <1>1, QuietSizes, OneEnd
<1> HIDE DEF i
<1>4. /\ Leaving \in Seq(Instruction)
      /\ Sound((code \o <<i>>) \o Leaving, Unreached, T, size', Len(decls),
               Ids(Branching), Ids(PastElse), Ids(Looping))
    BY <1>1, <1>3, QuietSizes, LeftBehind
<1>5. <<i>> \in Seq(Instruction)
    BY <1>3
<1>6. (code \o <<i>>) \o Leaving = code'
    BY <1>1, <1>4, <1>5, QuietSizes, ConcatAssociative
<1>7. /\ moved' = moved \cup {Resolve(x)} /\ {Resolve(x)} \in SUBSET visible
      /\ \A k \in 1 .. Depth : InLoop(frames[k]) => \A d \in {Resolve(x)} : d \notin Around(k)
    BY <1>1, MayUseIs, MayMoveIs DEF Consumed
<1>8. Sound(code', Cur', T, size', Len(decls), Ids(Branching), Ids(PastElse), Ids(Looping))
    BY <1>2, <1>4, <1>6
<1>9. QED BY <1>1, <1>2, <1>7, <1>8, QuietSizes, QuietPreserved, ReturningBlocks

(* The loop that a jump means.                                             *)
LEMMA LoopBaseIs ==
    ASSUME Scoped, LoopDepth > 0
    PROVE  LoopBase \in 2 .. Depth /\ LoopBase \in 1 .. Depth /\ InLoop(frames[LoopBase])
<1> DEFINE Bases == {k \in 1 .. Depth : InLoop(frames[k])}
           Below == {i \in Nat : Depth - i \in Bases}
<1>1. Depth \in Nat
    BY TypedIs DEF Scoped
<1>2. PICK k \in Bases : TRUE
    <2>1. CASE Bases = {}
        <3>1. Cardinality(Bases) = 0
            BY <2>1, FS_EmptySet
        <3>2. LoopDepth = Cardinality(Bases)
            BY DEF LoopDepth
        <3>3. QED BY <3>1, <3>2
    <2>2. QED BY <2>1
<1>3. Depth - k \in Below
    BY <1>1, <1>2
<1>4. PICK i \in Below : \A j \in Below : i <= j
    BY <1>3, Least
<1> DEFINE b == Depth - i
<1>5. b \in 1 .. Depth /\ InLoop(frames[b])
    BY <1>4
<1>6. ASSUME NEW j \in b + 1 .. Depth PROVE ~InLoop(frames[j])
    <2>1. j \in 1 .. Depth /\ Depth - j \in Nat /\ ~(i <= Depth - j) /\ Depth - (Depth - j) = j
        BY <1>1, <1>4, <1>5
    <2>2. Depth - j \notin Below
        BY <1>4, <2>1
    <2>3. QED BY <2>1, <2>2
<1> HIDE DEF b
<1>7. LoopBase \in 1 .. Depth /\ InLoop(frames[LoopBase])
    BY <1>5, <1>6 DEF LoopBase
<1>8. LoopBase # 1
    BY <1>7 DEF InLoop, Scoped, Nesting
<1>9. QED BY <1>1, <1>7, <1>8

(* What a jump in a loop carries to its ends.                              *)
LEMMA InnerLoop ==
    ASSUME Scoped, NEW k \in 2 .. Depth, InLoop(frames[k])
    PROVE  /\ k \in 1 .. Depth /\ k \in Nat /\ frames[k].id \in Ids(Looping) /\ frames[k].id \in Nat
           /\ frames[k].id < size /\ frames[k] \in Frame
           /\ Reached(Depth) => Reached(k - 1)
           /\ Around(k) \ moved = Around(k) \ frames[k].before
           /\ HeadNote(k) = Note(Reached(k - 1), Around(k), frames[k].before)
           /\ frames[k].kind \in Looping
<1>1. Depth \in Nat /\ k \in 1 .. Depth /\ k \in Nat
    BY TypedIs DEF Scoped
<1>2. frames[k] \in Frame
    BY <1>1, TypedIs DEF Scoped
<1>3. frames[k].kind \in Looping /\ frames[k].kind # "arm"
    BY DEF InLoop, Looping
<1>4. frames[k].id \in Ids(Looping) /\ frames[k].id \in Nat /\ frames[k].id < size
    BY <1>2, <1>3 DEF Ids, Frame, Scoped, Nesting
<1>5. \A j \in 1 .. k - 1 : j \in 1 .. Depth
    BY <1>1
<1>6. Reached(Depth) => Reached(k - 1)
    BY <1>5 DEF Reached
<1>7. Around(k) \ moved = Around(k) \ frames[k].before
    BY <1>1 DEF Scoped, Moved
<1>8. QED BY <1>1, <1>2, <1>3, <1>4, <1>6, <1>7 DEF HeadNote

(* A jump to an open statement is an instruction.                          *)
LEMMA JumpType ==
    ASSUME Scoped, NEW k \in 2 .. Depth, NEW op \in Controls
    PROVE  I(op, frames[k].id) \in Instruction
<1>1. frames[k] \in Frame
    BY TypedIs DEF Scoped
<1>2. QED BY <1>1 DEF Frame, I, Instruction, Ops, Controls

(* continue;                                                               *)
LEMMA ContinueStep ==
    ASSUME Scoped, NEW T \in Labels, Compiled(T), Continue
    PROVE  Preserved
<1> DEFINE k == LoopBase
           i == I("continue", frames[k].id)
<1>1. /\ size' = size + 1 /\ UNCHANGED <<style, decls, visible, items, frames, moved>>
      /\ LoopDepth > 0 /\ code' = code \o (Cleanup(k) \o <<i>>)
    BY DEF Continue, Writes, Jumps, Emit, LoopJump
<1>2. SameBlocks /\ Cur' = Cur
    BY <1>1, PlainFrames DEF Cur, Scoped
<1>3. k \in 2 .. Depth /\ InLoop(frames[k])
    BY <1>1, LoopBaseIs
<1>4. i \in Instruction /\ i.op = "continue" /\ i.at = frames[k].id
    BY <1>3, JumpType DEF I, Controls
<1> HIDE DEF k, i
<1>5. /\ Cleanup(k) \in Seq(Instruction)
      /\ Sound(code \o Cleanup(k), Note(Reached(Depth), Around(k), moved), T, size', Len(decls),
               Ids(Branching), Ids(PastElse), Ids(Looping))
    <2>1. Sound(code, Note(Reached(Depth), visible, moved), T, size, Len(decls),
                Ids(Branching), Ids(PastElse), Ids(Looping))
        BY <1>1, QuietSizes DEF Cur
    <2>2. k \in Nat
        BY <1>3, InnerLoop
    <2>3. QED BY <1>1, <2>1, <2>2, QuietSizes, CleanedUp
<1>6. T[i.at].head = Note(Reached(k - 1), Around(k), frames[k].before)
    BY <1>1, <1>3, <1>4, InnerLoop, QuietSizes DEF Links
<1>7. Flows(Note(Reached(Depth), Around(k), moved), T[i.at].head)
    BY <1>3, <1>6, InnerLoop DEF Flows, Note, Known, Unreached
<1>8. Sound((code \o Cleanup(k)) \o <<i>>, Cur, T, size', Len(decls),
            Ids(Branching), Ids(PastElse), Ids(Looping))
    BY <1>3, <1>4, <1>5, <1>7, InnerLoop, CurType, NextRound
<1>9. (code \o Cleanup(k)) \o <<i>> = code'
    <2>1. code \in Seq(Instruction)
        BY <1>1, QuietSizes
    <2>2. (code \o Cleanup(k)) \o <<i>> = code \o (Cleanup(k) \o <<i>>)
        BY <1>4, <1>5, <2>1, PieceAndOne
    <2>3. QED BY <1>1, <2>2
<1>10. moved' = moved \cup {} /\ {} \in SUBSET visible
    BY <1>1
<1>11. Sound(code', Cur', T, size', Len(decls), Ids(Branching), Ids(PastElse), Ids(Looping))
    BY <1>2, <1>8, <1>9
<1>12. QED BY <1>1, <1>2, <1>10, <1>11, QuietSizes, QuietPreserved, PlainFrames

(* Frames are told apart by their numbers.                                 *)
LEMMA IdsDiffer ==
    ASSUME Scoped, NEW j \in 2 .. Depth, NEW k \in 2 .. Depth, j # k
    PROVE  frames[j].id # frames[k].id
<1>1. Depth \in Nat
    BY TypedIs DEF Scoped
<1>2. frames[j].id \in Nat /\ frames[k].id \in Nat
    BY <1>1, TypedIs DEF Frame, Scoped
<1>3. CASE j < k
    BY <1>2, <1>3 DEF Scoped, Nesting
<1>4. CASE k < j
    BY <1>2, <1>4 DEF Scoped, Nesting
<1>5. QED BY <1>1, <1>3, <1>4

(* break;                                                                  *)
LEMMA BreakStep ==
    ASSUME Scoped, NEW T \in Labels, Compiled(T), Break
    PROVE  Preserved
<1>1. LoopDepth > 0
    BY DEF Break
<1>2. PICK k \in 2 .. Depth : k = LoopBase /\ InLoop(frames[k])
    BY <1>1, LoopBaseIs
<1> DEFINE id == frames[k].id
           i == I("break", id)
           left == Note(Reached(k - 1), Around(k), frames[k].before)
           f == [frames[k] EXCEPT !.breaks = TRUE]
<1>3. /\ size' = size + 1 /\ UNCHANGED <<style, decls, visible, items, moved>>
      /\ LoopDepth > 0 /\ code' = code \o (Cleanup(k) \o <<i>>)
      /\ frames' = [frames EXCEPT ![k].breaks = TRUE]
    BY <1>2 DEF Break, Writes, Jumps, Emit, LoopJump
<1>4. i \in Instruction /\ i.op = "break" /\ i.at = id
    BY <1>2, JumpType DEF I, Controls
<1>5. frames \in Seq(Frame) /\ Depth = Len(frames) /\ Depth \in Nat
    BY TypedIs DEF Scoped, Typed, Depth
<1>6. k \in 1 .. Len(frames) /\ frames[k] \in Frame /\ frames[k].kind \in Looping /\ id \in Nat /\ id < size
    BY <1>2, <1>5, InnerLoop
<1>7. /\ f \in Frame /\ f.kind = frames[k].kind /\ f.id = frames[k].id /\ f.before = frames[k].before
      /\ f.joins = frames[k].joins /\ f.all = frames[k].all /\ f.from = frames[k].from
      /\ f.returns = frames[k].returns /\ f.breaks = TRUE
    BY <1>6 DEF Frame
<1>8. frames' = [frames EXCEPT ![k] = f]
    BY <1>3
<1> HIDE DEF f
<1>9. /\ frames' \in Seq(Frame) /\ Len(frames') = Len(frames)
      /\ \A j \in 1 .. Len(frames) : frames'[j] = IF j = k THEN f ELSE frames[j]
    BY <1>5, <1>6, <1>7, <1>8, FrameSet
<1>10. /\ SameBlocks /\ Depth' = Depth
       /\ \A j \in 1 .. Depth : frames'[j].returns = frames[j].returns
       /\ \A j \in 1 .. Depth : j # k => frames'[j] = frames[j]
       /\ frames'[k].breaks = TRUE
    BY <1>5, <1>6, <1>7, <1>9 DEF SameBlocks, Depth
<1>11. \A j \in 0 .. Depth : Reached(j)' = Reached(j)
    <2> SUFFICES ASSUME NEW j \in 0 .. Depth PROVE Reached(j)' = Reached(j)
        OBVIOUS
    <2>1. \A l \in 1 .. j : l \in 1 .. Depth
        BY <1>5
    <2>2. QED BY <1>10, <2>1 DEF Reached
<1>12. Depth \in 0 .. Depth /\ \A j \in 2 .. Depth : j \in 1 .. Depth /\ j - 1 \in 0 .. Depth
    BY <1>5
<1>13. Cur' = Cur
    BY <1>3, <1>10, <1>11, <1>12 DEF Cur
<1> HIDE DEF i
<1>14. left \in Notes
    <2>1. Around(k) \in SUBSET Nat /\ Reached(k - 1) \in BOOLEAN
        BY TypedIs DEF Around, Scoped, Reached
    <2>2. QED BY <2>1, NoteType
<1>15. T[id] \in [head : Notes, tail : Notes]
    BY <1>6 DEF Labels
<1> HIDE DEF left
<1>16. PICK U \in Labels : /\ U[id].tail = left /\ U[id].head = T[id].head
                           /\ \A a \in Nat : a # id => U[a] = T[a]
    <2> DEFINE V == [T EXCEPT ![id].tail = left]
    <2>1. /\ V \in Labels /\ V[id].tail = left /\ V[id].head = T[id].head
          /\ \A a \in Nat : a # id => V[a] = T[a]
        BY <1>6, <1>14, <1>15 DEF Labels
    <2>2. QED BY <2>1
<1>17. Flows(T[id].tail, left)
    <2>1. T[id].tail = TailNote(k)
        BY <1>2, <1>6, QuietSizes, <1>3 DEF Links, Looping
    <2>2. QED BY <1>2, <2>1 DEF TailNote, Flows, Note, Known, Unreached, left
<1>18. Sound(code, Cur, U, size, Len(decls), Ids(Branching), Ids(PastElse), Ids(Looping))
    <2>1. id \in Ids(Branching) \cup Ids(Looping)
        BY <1>2, InnerLoop
    <2>2. \A a \in Nat : a < size =>
              /\ U[a].head = T[a].head
              /\ U[a].tail = T[a].tail \/
                     (a \in Ids(Branching) \cup Ids(Looping) /\ Flows(T[a].tail, U[a].tail))
        BY <1>16, <1>17, <2>1
    <2>3. QED BY <1>3, <1>16, <2>2, QuietSizes, Relabel
<1>19. /\ Cleanup(k) \in Seq(Instruction)
       /\ Sound(code \o Cleanup(k), Note(Reached(Depth), Around(k), moved), U, size', Len(decls),
                Ids(Branching), Ids(PastElse), Ids(Looping))
    <2>1. Sound(code, Note(Reached(Depth), visible, moved), U, size, Len(decls),
                Ids(Branching), Ids(PastElse), Ids(Looping))
        BY <1>18 DEF Cur
    <2>2. k \in Nat
        BY <1>2, InnerLoop
    <2>3. QED BY <1>3, <2>1, <2>2, QuietSizes, CleanedUp
<1>20. Flows(Note(Reached(Depth), Around(k), moved), U[i.at].tail)
    BY <1>2, <1>4, <1>16, InnerLoop DEF Flows, Note, Known, Unreached, left
<1>21. Sound((code \o Cleanup(k)) \o <<i>>, Cur, U, size', Len(decls),
             Ids(Branching), Ids(PastElse), Ids(Looping))
    BY <1>2, <1>4, <1>19, <1>20, InnerLoop, CurType, LeaveLoop
<1>22. (code \o Cleanup(k)) \o <<i>> = code'
    <2>1. code \in Seq(Instruction)
        BY <1>3, QuietSizes
    <2>2. (code \o Cleanup(k)) \o <<i>> = code \o (Cleanup(k) \o <<i>>)
        BY <1>4, <1>19, <2>1, PieceAndOne
    <2>3. QED BY <1>3, <2>2
<1>23. Links(U)'
    <2>1. ASSUME NEW j \in 2 .. Depth
          PROVE  /\ frames'[j].kind \in {"then", "arm"} \cup Looping =>
                        U[frames'[j].id].head = HeadNote(j)'
                 /\ frames'[j].kind # "block" => U[frames'[j].id].tail = TailNote(j)'
        <3>1. Around(j)' = Around(j) /\ Reached(j - 1)' = Reached(j - 1)
            BY <1>3, <1>11, <1>12 DEF Around
        <3>2. /\ frames'[j].kind = frames[j].kind /\ frames'[j].id = frames[j].id
              /\ frames'[j].before = frames[j].before /\ frames'[j].joins = frames[j].joins
              /\ frames'[j].from = frames[j].from
            BY <1>10, <1>12 DEF SameBlocks
        <3>3. HeadNote(j)' = HeadNote(j)
            BY <3>1, <3>2 DEF HeadNote
        <3>4. frames[j].id \in Nat
            BY <1>12, TypedIs DEF Scoped, Frame
        <3>5. U[frames[j].id].head = T[frames[j].id].head
            BY <1>16, <3>4
        <3>6. frames'[j].kind \in {"then", "arm"} \cup Looping => U[frames'[j].id].head = HeadNote(j)'
            BY <1>3, <3>2, <3>3, <3>5, QuietSizes DEF Links
        <3>7. CASE j = k
            <4>1. InLoop(frames[k])' /\ frames'[k].breaks = TRUE
                BY <1>2, <1>10, <3>2, <3>7 DEF InLoop
            <4>2. TailNote(k)' = Note(Reached(k - 1)', Around(k)', frames'[k].before)
                BY <4>1 DEF TailNote, Note
            <4>3. TailNote(k)' = left
                BY <3>1, <3>2, <3>7, <4>2 DEF left
            <4>4. QED BY <1>16, <3>2, <3>6, <3>7, <4>3
        <3>8. CASE j # k
            <4>1. frames[j].id # id
                BY <1>2, <3>8, IdsDiffer
            <4>2. U[frames[j].id] = T[frames[j].id]
                BY <1>16, <3>4, <4>1
            <4>3. TailNote(j)' = TailNote(j)
                BY <1>10, <1>12, <3>1, <3>8 DEF TailNote, InLoop
            <4>4. frames[j].kind # "block" => T[frames[j].id].tail = TailNote(j)
                BY <1>3, QuietSizes DEF Links
            <4>5. QED BY <3>2, <3>6, <4>2, <4>3, <4>4
        <3>9. QED BY <3>7, <3>8
    <2>2. QED BY <1>10, <2>1 DEF Links
<1>24. Sound(code', Cur', U, size', Len(decls'), Ids(Branching)', Ids(PastElse)', Ids(Looping)')
    <2>1. decls' = decls /\ visible' = visible
        BY <1>3
    <2>2. /\ Ids(Branching)' = Ids(Branching) /\ Ids(PastElse)' = Ids(PastElse)
          /\ Ids(Looping)' = Ids(Looping)
        BY <1>10, <2>1, QuietLinks
    <2>3. QED BY <1>13, <1>21, <1>22, <2>1, <2>2
<1>25. Scoped'
    <2>1. moved' = moved \cup {} /\ {} \in SUBSET visible /\ style' = style /\ code' \in Seq(Instruction)
        BY <1>3, <1>24 DEF Sound
    <2>2. QED BY <1>3, <1>10, <2>1, QuietSizes, QuietScoped
<1>26. Compiled(U)'
    BY <1>3, <1>23, <1>24, CompiledNext
<1>27. QED BY <1>16, <1>25, <1>26 DEF Preserved

(* Sound code stays sound when statements and declarations are added.      *)
LEMMA SoundLater ==
    ASSUME NEW s, NEW v, NEW T, NEW sz, NEW n, NEW B, NEW E, NEW L,
           Sound(s, v, T, sz, n, B, E, L),
           NEW sz2 \in Nat, NEW n2 \in Nat, sz <= sz2, n <= n2
    PROVE  Sound(s, v, T, sz2, n2, B, E, L)
<1>1. s \in Seq(Instruction) /\ sz \in Nat /\ n \in Nat /\ Matched(s, T, sz, n, B, E, L)
      /\ B \subseteq Nat /\ L \subseteq Nat
    BY DEF Sound
<1>2. /\ \A a \in Nat : a < sz => a < sz2
      /\ \A a \in 1 .. n : a \in 1 .. n2
    BY <1>1
<1>3. \A op : \A a \in Marks(s, op) : a \in Nat
    BY <1>1, MarksType
<1>4. Matched(s, T, sz2, n2, B, E, L)
    <2>1. \A op \in Controls : \A a \in Marks(s, op) : a < sz2
        BY <1>1, <1>2, <1>3 DEF Matched
    <2>2. \A a \in B \cup L : a < sz2
        BY <1>1, <1>2 DEF Matched
    <2>3. QED BY <1>1, <1>2, <2>1, <2>2 DEF Matched
<1>5. QED BY <1>4 DEF Sound

(* defer print(x.v);                                                       *)
LEMMA DeferUseStep ==
    ASSUME Scoped, NEW T \in Labels, Compiled(T), NEW x \in Names, DeferUse(x)
    PROVE  Preserved
<1> DEFINE n == Len(items)
           new == [op |-> "use", name |-> x, depth |-> Depth]
<1>1. /\ size' = size + 1 /\ style' = style /\ decls' = decls /\ visible' = visible
      /\ frames' = frames /\ moved' = moved /\ code' = code
    BY DEF DeferUse, Writes, Plain
<1>2. MayUse(x) /\ items' = Append(items, new) /\ Written({"deferUse"})
    BY DEF DeferUse, Writes, Register, Item, Written
<1>3. SameBlocks /\ Cur' = Cur /\ Depth' = Depth
    BY <1>1, PlainFrames DEF Cur, Scoped
<1>4. /\ n \in Nat /\ DOMAIN items = 1 .. n /\ items \in Seq(Cleanups) /\ Depth \in Nat /\ Depth > 0
      /\ \A k \in 1 .. n : items[k].depth \in Nat
    BY TypedIs DEF Scoped, Typed, Nesting
<1>5. new \in Cleanups /\ new.op = "use" /\ new.name = x /\ new.depth = Depth
    BY <1>4 DEF Cleanups
<1> HIDE DEF new
<1>6. /\ items' \in Seq(Cleanups) /\ DOMAIN items' = 1 .. n + 1
      /\ \A k \in 1 .. n : items'[k] = items[k]
      /\ items'[n + 1] = new
    <2>1. items' \in Seq(Cleanups) /\ Len(items') = n + 1
        BY <1>2, <1>4, <1>5, AppendProperties
    <2>2. /\ \A k \in 1 .. Len(items) : Append(items, new)[k] = items[k]
          /\ Append(items, new)[Len(items) + 1] = new
        BY <1>4, <1>5, AppendProperties
    <2>3. QED BY <1>2, <2>1, <2>2, LenProperties
<1> HIDE DEF n
<1>7. \A k \in 1 .. n + 1 : k \in 1 .. n \/ k = n + 1
    BY <1>4
<1>8. \A k \in 1 .. n : k \in 1 .. n + 1 /\ k < n + 1 /\ ~(n + 1 < k)
    BY <1>4
<1>9. ~(n + 1 < n + 1)
    BY <1>4
<1>10. PICK e \in visible : decls[e].name = x /\ decls[e].depth \in 1 .. Depth
    BY <1>2, MayUseIs DEF Scoped, Bindings
<1>11. Typed'
    <2>1. size + 1 \in Nat
        BY DEF Scoped, Typed
    <2>2. QED BY <1>1, <1>6, <2>1 DEF Scoped, Typed
<1>12. Placed'
    <2>1. Depth \in 1 .. Depth
        BY <1>4
    <2>2. QED BY <1>3, <1>4, <1>5, <1>6, <1>7, <2>1 DEF Scoped, Deferred, Placed
<1>13. Sorted'
    <2>1. \A k \in 1 .. n : items[k].depth <= Depth
        BY <1>4 DEF Scoped, Deferred, Placed
    <2>2. QED BY <1>4, <1>5, <1>6, <1>7, <1>8, <1>9, <2>1 DEF Scoped, Deferred, Sorted
<1>14. NamesOpen'
    <2>1. decls[e].depth <= Depth
        BY <1>10
    <2>2. QED BY <1>1, <1>4, <1>5, <1>6, <1>7, <1>10, <2>1 DEF Scoped, Deferred, NamesOpen
<1>15. AtHome'
    BY <1>1, <1>4, <1>5, <1>6, <1>7 DEF Scoped, Deferred, AtHome
<1>16. EachDropped'
    BY <1>1, <1>4, <1>6, <1>8 DEF Scoped, Deferred, EachDropped
<1>17. InOrder'
    <2>1. \A k \in 1 .. n + 1 : items'[k].op = "drop" => k \in 1 .. n /\ items'[k] = items[k]
        BY <1>5, <1>6, <1>7
    <2>2. \A k, l \in 1 .. n : \A d, f \in visible :
              (/\ k < l /\ items[k].op = "drop" /\ items[l].op = "drop"
               /\ items[k].name = decls[d].name /\ items[l].name = decls[f].name) => d < f
        BY <1>4 DEF Scoped, Deferred, InOrder
    <2>3. \A k, l \in 1 .. n + 1 : \A d, f \in visible :
              (/\ k < l /\ items'[k].op = "drop" /\ items'[l].op = "drop"
               /\ items'[k].name = decls[d].name /\ items'[l].name = decls[f].name) => d < f
        BY <2>1, <2>2
    <2>4. QED BY <1>1, <1>6, <2>3 DEF InOrder
<1>18. ReadBefore'
    <2>1. ASSUME NEW l \in 1 .. n + 1, items'[l].op = "use"
          PROVE  \E k \in 1 .. n + 1 : k < l /\ items'[k].op = "drop" /\ items'[k].name = items'[l].name
        <3>1. CASE l \in 1 .. n
            <4>1. PICK k \in 1 .. n : k < l /\ items[k].op = "drop" /\ items[k].name = items[l].name
                BY <1>4, <1>6, <2>1, <3>1 DEF Scoped, Deferred, ReadBefore
            <4>2. QED BY <1>6, <1>8, <3>1, <4>1
        <3>2. CASE l = n + 1
            <4>1. PICK k \in 1 .. n : items[k].op = "drop" /\ items[k].name = x
                BY <1>4, <1>10 DEF Scoped, Deferred, EachDropped
            <4>2. QED BY <1>5, <1>6, <1>8, <3>2, <4>1
        <3>3. QED BY <1>7, <3>1, <3>2
    <2>2. Written({"deferUse"})'
        BY <1>2, <1>1 DEF Written
    <2>3. QED BY <1>6, <2>1, <2>2 DEF ReadBefore
<1>19. moved' = moved \cup {} /\ {} \in SUBSET visible
    BY <1>1
<1>20. Nesting' /\ Bindings' /\ Moved' /\ Branches'
    BY <1>1, <1>3, <1>19, QuietSizes, QuietRest
<1>21. Scoped'
    BY <1>11, <1>12, <1>13, <1>14, <1>15, <1>16, <1>17, <1>18, <1>20 DEF Scoped, Deferred
<1>22. Links(T)'
    BY <1>1, <1>3, PlainFrames, QuietLinks, QuietSizes
<1>23. Sound(code', Cur', T, size', Len(decls'), Ids(Branching)', Ids(PastElse)', Ids(Looping)')
    <2>1. Sound(code, Cur, T, size, Len(decls), Ids(Branching), Ids(PastElse), Ids(Looping))
        BY <1>1, QuietSizes
    <2>2. Len(decls) \in Nat /\ Len(decls) <= Len(decls)
        BY TypedIs DEF Scoped
    <2>3. Sound(code, Cur, T, size', Len(decls), Ids(Branching), Ids(PastElse), Ids(Looping))
        BY <1>1, <2>1, <2>2, QuietSizes, SoundLater
    <2>4. decls' = decls /\ visible' = visible /\ code' = code
        BY <1>1
    <2>5. /\ Ids(Branching)' = Ids(Branching) /\ Ids(PastElse)' = Ids(PastElse)
          /\ Ids(Looping)' = Ids(Looping)
        BY <1>3, <2>4, QuietLinks
    <2>6. QED BY <1>3, <2>3, <2>4, <2>5
<1>24. Compiled(T)'
    BY <1>1, <1>22, <1>23, CompiledNext
<1>25. QED BY <1>21, <1>24 DEF Preserved

-----------------------------------------------------------------------------
(* Statements that open or leave scopes, or declare a binding. *)

(* The bindings V and their cleanups F are those of the scopes above k.    *)
Arranged(F, V, k) ==
    /\ F \in Seq(Cleanups) /\ V \subseteq visible
    /\ \A d \in V : decls[d].depth \in 1 .. k - 1
    /\ \A j \in DOMAIN F : F[j].depth \in 1 .. k - 1
    /\ \A i, j \in DOMAIN F : i < j => F[i].depth <= F[j].depth
    /\ \A j \in DOMAIN F : \E d \in V :
           decls[d].name = F[j].name /\ decls[d].depth <= F[j].depth
    /\ \A j \in DOMAIN F, d \in V :
           F[j].op = "drop" /\ F[j].name = decls[d].name => decls[d].depth = F[j].depth
    /\ \A d \in V : \E j \in DOMAIN F : F[j].op = "drop" /\ F[j].name = decls[d].name
    /\ \A i, j \in DOMAIN F, d, e \in V :
           (/\ i < j /\ F[i].op = "drop" /\ F[j].op = "drop"
            /\ F[i].name = decls[d].name /\ F[j].name = decls[e].name) => d < e
    /\ \A j \in DOMAIN F : F[j].op = "use" =>
           /\ Written({"deferUse"})
           /\ \E i \in DOMAIN F : i < j /\ F[i].op = "drop" /\ F[i].name = F[j].name

(* The cleanups of all scopes are arranged as they are when the whole      *)
(* function is left.                                                       *)
LEMMA AllArranged == ASSUME Scoped PROVE Arranged(items, visible, Depth + 1)
<1>1. Depth \in Nat /\ (Depth + 1) - 1 = Depth
    BY TypedIs DEF Scoped
<1>2. items \in Seq(Cleanups) /\ visible \subseteq visible
    BY DEF Scoped, Typed
<1>3. \A d \in visible : decls[d].depth \in 1 .. Depth
    BY DEF Scoped, Bindings
<1>4. /\ Placed /\ Sorted /\ NamesOpen /\ AtHome /\ EachDropped /\ InOrder /\ ReadBefore
    BY DEF Scoped, Deferred
<1>5. QED BY <1>1, <1>2, <1>3, <1>4
          DEF Arranged, Placed, Sorted, NamesOpen, AtHome, EachDropped, InOrder, ReadBefore

(* What leaving a scope keeps.                                             *)
LEMMA KeptArranged ==
    ASSUME Scoped, NEW k \in Nat, k > 0
    PROVE  Arranged(Kept(k), Around(k), k)
<1> DEFINE F == Kept(k)
           V == Around(k)
           n == Len(items)
           o == Outside(k)
<1>1. /\ items \in Seq(Cleanups) /\ n \in Nat /\ DOMAIN items = 1 .. n
      /\ \A j \in 1 .. n : items[j].depth \in Nat /\ items[j] \in Cleanups
      /\ \A i, j \in DOMAIN items : i < j => items[i].depth <= items[j].depth
    BY TypedIs, ElementOfSeq DEF Scoped, Typed, Deferred, Sorted
<1>2. /\ o \in 0 .. n
      /\ \A j \in DOMAIN items : j <= o <=> items[j].depth < k
    BY <1>1, OutsideIs
<1>3. /\ F \in Seq(Cleanups) /\ DOMAIN F = 1 .. o /\ \A j \in 1 .. o : F[j] = items[j]
    <2>1. F = SubSeq(items, 1, o)
        BY DEF Kept
    <2> HIDE DEF F, o
    <2>2. \A j \in 1 .. o : items[j] \in Cleanups
        BY <1>1, <1>2
    <2>3. /\ SubSeq(items, 1, o) \in Seq(Cleanups)
          /\ Len(SubSeq(items, 1, o)) = IF 1 <= o THEN o - 1 + 1 ELSE 0
          /\ \A j \in 1 .. o - 1 + 1 : SubSeq(items, 1, o)[j] = items[1 + j - 1]
        BY <1>2, <2>2, SubSeqProperties
    <2>4. Len(F) = o
        BY <1>2, <2>1, <2>3
    <2>5. \A j \in 1 .. o : j \in 1 .. o - 1 + 1 /\ 1 + j - 1 = j
        BY <1>2
    <2>6. QED BY <2>1, <2>3, <2>4, <2>5, LenProperties
<1> HIDE DEF F, V, n, o
<1>4. \A j \in 1 .. o : j \in DOMAIN items /\ items[j].depth < k /\ j <= o
    BY <1>1, <1>2
<1>5. \A d \in visible : d \in V <=> decls[d].depth < k
    BY DEF Around, V
<1>6. V \subseteq visible
    BY DEF Around, V
<1>7. \A d \in visible : decls[d].depth \in Nat /\ decls[d].depth > 0
    <2>1. Depth \in Nat /\ \A d \in visible : decls[d].depth \in 1 .. Depth
        BY TypedIs DEF Scoped, Bindings
    <2>2. QED BY <2>1
<1>8. \A d \in V : decls[d].depth \in 1 .. k - 1
    BY <1>5, <1>6, <1>7
<1>9. \A j \in 1 .. o : F[j].depth \in 1 .. k - 1
    <2>1. Depth \in Nat /\ \A j \in DOMAIN items : items[j].depth \in 1 .. Depth
        BY TypedIs DEF Scoped, Deferred, Placed
    <2>2. QED BY <1>3, <1>4, <2>1
<1>10. \A i, j \in 1 .. o : i < j => F[i].depth <= F[j].depth
    BY <1>1, <1>3, <1>4
<1>11. \A j \in 1 .. o : \E d \in V : decls[d].name = F[j].name /\ decls[d].depth <= F[j].depth
    <2> SUFFICES ASSUME NEW j \in 1 .. o
                 PROVE  \E d \in V : decls[d].name = F[j].name /\ decls[d].depth <= F[j].depth
        OBVIOUS
    <2>1. PICK d \in visible : decls[d].name = items[j].name /\ decls[d].depth <= items[j].depth
        BY <1>4 DEF Scoped, Deferred, NamesOpen
    <2>2. items[j].depth \in Nat /\ items[j].depth < k /\ decls[d].depth \in Nat
        BY <1>1, <1>4, <1>7
    <2>3. decls[d].depth < k
        BY <2>1, <2>2
    <2>4. QED BY <1>3, <1>5, <2>1, <2>3
<1>12. \A j \in 1 .. o, d \in V :
           F[j].op = "drop" /\ F[j].name = decls[d].name => decls[d].depth = F[j].depth
    BY <1>3, <1>4, <1>6 DEF Scoped, Deferred, AtHome
<1>13. \A d \in V : \E j \in 1 .. o : F[j].op = "drop" /\ F[j].name = decls[d].name
    <2> SUFFICES ASSUME NEW d \in V
                 PROVE  \E j \in 1 .. o : F[j].op = "drop" /\ F[j].name = decls[d].name
        OBVIOUS
    <2>1. PICK j \in DOMAIN items : items[j].op = "drop" /\ items[j].name = decls[d].name
        BY <1>6 DEF Scoped, Deferred, EachDropped
    <2>2. items[j].depth = decls[d].depth
        BY <1>6, <2>1 DEF Scoped, Deferred, AtHome
    <2>3. j \in 1 .. o
        BY <1>1, <1>2, <1>5, <1>6, <2>2
    <2>4. QED BY <1>3, <2>1, <2>3
<1>14. \A i, j \in 1 .. o, d, e \in V :
           (/\ i < j /\ F[i].op = "drop" /\ F[j].op = "drop"
            /\ F[i].name = decls[d].name /\ F[j].name = decls[e].name) => d < e
    BY <1>3, <1>4, <1>6 DEF Scoped, Deferred, InOrder
<1>15. \A j \in 1 .. o : F[j].op = "use" =>
           /\ Written({"deferUse"})
           /\ \E i \in 1 .. o : i < j /\ F[i].op = "drop" /\ F[i].name = F[j].name
    <2> SUFFICES ASSUME NEW j \in 1 .. o, F[j].op = "use"
                 PROVE  /\ Written({"deferUse"})
                        /\ \E i \in 1 .. o : i < j /\ F[i].op = "drop" /\ F[i].name = F[j].name
        OBVIOUS
    <2>1. j \in DOMAIN items /\ items[j].op = "use"
        BY <1>3, <1>4
    <2>2. PICK i \in DOMAIN items : i < j /\ items[i].op = "drop" /\ items[i].name = items[j].name
        BY <2>1 DEF Scoped, Deferred, ReadBefore
    <2>3. i \in 1 .. o
        BY <1>1, <1>2, <2>2
    <2>4. QED BY <1>3, <2>1, <2>2, <2>3 DEF Scoped, Deferred, ReadBefore
<1>16. QED BY <1>3, <1>6, <1>8, <1>9, <1>10, <1>11, <1>12, <1>13, <1>14, <1>15
           DEF Arranged, F, V

(* Scopes are left.                                                        *)
LEMMA LeaveArranged ==
    ASSUME Scoped, NEW k \in Nat, NEW F, NEW V, Arranged(F, V, k),
           items' = F, visible' = V, decls' = decls, style' = style,
           NEW dep \in Nat, Depth' = dep, k - 1 <= dep,
           \A j \in 1 .. k - 1 : Loops(j)' = Loops(j)
    PROVE  Bindings' /\ Deferred'
<1>1. \A j \in 1 .. k - 1 : j \in 1 .. dep
    OBVIOUS
<1>2. /\ F \in Seq(Cleanups) /\ V \subseteq visible
      /\ \A d \in V : decls[d].depth \in 1 .. k - 1
      /\ \A j \in DOMAIN F : F[j].depth \in 1 .. k - 1
    BY DEF Arranged
<1>3. Bindings'
    <2>1. \A d \in visible' : decls'[d].depth \in 1 .. Depth'
        BY <1>1, <1>2
    <2>2. ASSUME NEW d \in V PROVE decls[d].loop = Loops(decls[d].depth)'
        <3>1. PICK j \in 1 .. k - 1 : j = decls[d].depth
            BY <1>2
        <3>2. Loops(j)' = Loops(j)
            OBVIOUS
        <3>3. decls[d].loop = Loops(j)
            BY <1>2, <3>1 DEF Scoped, Bindings
        <3>4. Loops(decls[d].depth)' = Loops(j)'
            BY <3>1 DEF Loops
        <3>5. QED BY <3>2, <3>3, <3>4
    <2>3. \A d, e \in visible' : decls'[d].name = decls'[e].name => d = e
        BY <1>2 DEF Scoped, Bindings
    <2>4. \A d, e \in visible' : d < e => decls'[d].depth <= decls'[e].depth
        BY <1>2 DEF Scoped, Bindings
    <2>5. QED BY <2>1, <2>2, <2>3, <2>4 DEF Bindings
<1>4. Placed' /\ Sorted' /\ NamesOpen' /\ AtHome' /\ EachDropped' /\ InOrder'
    <2>1. Placed'
        BY <1>1, <1>2 DEF Placed
    <2>2. Sorted'
        BY DEF Arranged, Sorted
    <2>3. NamesOpen' /\ AtHome' /\ EachDropped'
        BY DEF Arranged, NamesOpen, AtHome, EachDropped
    <2>4. InOrder'
        <3>1. \A i, j \in DOMAIN F, d, e \in V :
                  (/\ i < j /\ F[i].op = "drop" /\ F[j].op = "drop"
                   /\ F[i].name = decls[d].name /\ F[j].name = decls[e].name) => d < e
            BY DEF Arranged
        <3>2. QED BY <3>1 DEF InOrder
    <2>5. QED BY <2>1, <2>2, <2>3, <2>4
<1>5. ReadBefore'
    BY DEF Arranged, ReadBefore, Written
<1>6. QED BY <1>3, <1>4, <1>5 DEF Deferred

(* Binding `new' of name x is declared, behind those of V, at depth dep.   *)
Declaring(F, V, k, x, dep, new, l, o) ==
    /\ k \in Nat /\ dep \in Nat /\ new \in Nat /\ o \in Nat /\ Arranged(F, V, k)
    /\ dep > 0 /\ k - 1 <= dep /\ Depth' = dep /\ Loops(dep)' = l
    /\ \A d \in V : decls[d].name # x
    /\ \A d \in V : decls'[d] = decls[d] /\ d < new /\ d \in Nat
    /\ decls'[new].name = x /\ decls'[new].depth = dep /\ decls'[new].loop = l
    /\ DOMAIN F = 1 .. o /\ DOMAIN items' = 1 .. o + 1
    /\ \A j \in 1 .. o : items'[j] = F[j]
    /\ items'[o + 1].op = "drop" /\ items'[o + 1].name = x /\ items'[o + 1].depth = dep
    /\ visible' = V \cup {new} /\ style' = style
    /\ \A j \in 1 .. k - 1 : Loops(j)' = Loops(j)

(* One more binding, declared last and cleaned up first, keeps names and   *)
(* cleanups in order.                                                      *)
LEMMA DeclareOne ==
    ASSUME Bindings, NEW F, NEW V, NEW k, NEW x, NEW dep, NEW new, NEW l, NEW o,
           Declaring(F, V, k, x, dep, new, l, o)
    PROVE  Bindings' /\ Deferred'
<1> USE DEF Declaring
<1>1. V \subseteq visible
    BY DEF Arranged
<1>2. /\ \A d \in V : decls'[d] = decls[d] /\ d < new /\ d # new /\ ~(new < d)
      /\ \A d \in visible' : d \in V \/ d = new
      /\ V \subseteq visible' /\ new \in visible'
    <2>1. \A d \in V : d \in Nat
        BY <1>1
    <2>2. QED BY <1>1, <2>1
<1>3. \A j \in 1 .. o + 1 : j \in 1 .. o \/ j = o + 1
    BY <1>1
<1>4. \A j \in 1 .. o : j \in 1 .. o + 1 /\ j < o + 1 /\ ~(o + 1 < j)
    BY <1>1
<1>5. \A j \in 1 .. k - 1 : j \in 1 .. dep /\ j <= dep
    OBVIOUS
<1>6. /\ \A d \in V : decls[d].depth \in 1 .. k - 1
      /\ \A j \in 1 .. o : F[j].depth \in 1 .. k - 1
    BY DEF Arranged
<1>7. dep \in 1 .. dep
    OBVIOUS
<1>8. Bindings'
    <2>1. \A d \in visible' : decls'[d].depth \in 1 .. Depth'
        BY <1>2, <1>5, <1>6, <1>7
    <2>2. \A d \in visible' : decls'[d].loop = Loops(decls[d].depth)'
        <3>1. ASSUME NEW d \in V PROVE decls'[d].loop = Loops(decls[d].depth)'
            <4>1. PICK j \in 1 .. k - 1 : j = decls[d].depth
                BY <1>6
            <4>2. Loops(j)' = Loops(j)
                OBVIOUS
            <4>3. decls[d].loop = Loops(j)
                BY <1>1, <4>1 DEF Scoped, Bindings
            <4>4. decls'[d].depth = j /\ decls'[d].loop = decls[d].loop
                BY <1>2, <4>1
            <4>5. Loops(decls[d].depth)' = Loops(j)'
                BY <4>4 DEF Loops
            <4>6. QED BY <4>2, <4>3, <4>4, <4>5
        <3>2. decls'[new].loop = Loops(decls[new].depth)'
            <4>1. decls'[new].depth = dep /\ decls'[new].loop = l
                OBVIOUS
            <4>2. Loops(decls[new].depth)' = Loops(dep)'
                BY <4>1 DEF Loops
            <4>3. QED BY <4>1, <4>2
        <3>3. QED BY <1>2, <3>1, <3>2
    <2>3. \A d, e \in visible' : decls'[d].name = decls'[e].name => d = e
        <3>1. \A d, e \in V : decls[d].name = decls[e].name => d = e
            BY <1>1 DEF Bindings
        <3> SUFFICES ASSUME NEW d \in visible', NEW e \in visible', decls'[d].name = decls'[e].name
                     PROVE  d = e
            OBVIOUS
        <3>2. \A c \in V : decls'[c].name = decls[c].name /\ decls'[c].name # x
            BY <1>2
        <3>3. d = new <=> decls'[d].name = x
            BY <1>2, <3>2
        <3>4. e = new <=> decls'[e].name = x
            BY <1>2, <3>2
        <3>5. d # new => d \in V /\ e \in V
            BY <1>2, <3>3, <3>4
        <3>6. QED BY <3>1, <3>2, <3>3, <3>4, <3>5
    <2>4. \A d, e \in visible' : d < e => decls'[d].depth <= decls'[e].depth
        <3>1. \A d, e \in V : d < e => decls[d].depth <= decls[e].depth
            BY <1>1 DEF Bindings
        <3>2. \A d \in V : decls[d].depth <= dep
            BY <1>5, <1>6
        <3>3. ~(new < new)
            OBVIOUS
        <3> SUFFICES ASSUME NEW d \in visible', NEW e \in visible', d < e
                     PROVE  decls'[d].depth <= decls'[e].depth
            OBVIOUS
        <3>4. d \in V
            BY <1>2, <3>3
        <3>5. CASE e \in V
            BY <1>2, <3>1, <3>4, <3>5
        <3>6. CASE e = new
            BY <1>2, <3>2, <3>4, <3>6
        <3>7. QED BY <1>2, <3>5, <3>6
    <2>5. QED BY <2>1, <2>2, <2>3, <2>4 DEF Bindings
<1>9. Placed'
    <2>1. ASSUME NEW j \in 1 .. o PROVE items'[j].depth \in 1 .. dep
        <3>1. items'[j] = F[j] /\ F[j].depth \in 1 .. k - 1
            BY <1>6
        <3>2. QED BY <1>5, <3>1
    <2>2. \A j \in 1 .. o + 1 : items'[j].depth \in 1 .. dep
        BY <1>3, <1>7, <2>1
    <2>3. QED BY <2>2 DEF Placed
<1>10. Sorted'
    <2>1. \A i, j \in 1 .. o : i < j => F[i].depth <= F[j].depth
        BY DEF Arranged
    <2>2. ASSUME NEW j \in 1 .. o PROVE F[j].depth <= dep
        <3>1. F[j].depth \in 1 .. k - 1
            BY <1>6
        <3>2. QED BY <1>5, <3>1
    <2>3. ~(o + 1 < o + 1)
        BY <1>1
    <2>4. QED BY <1>3, <1>4, <2>1, <2>2, <2>3 DEF Sorted
<1>11. NamesOpen'
    <2>1. ASSUME NEW j \in 1 .. o
          PROVE  \E d \in visible' : decls'[d].name = items'[j].name /\ decls'[d].depth <= items'[j].depth
        <3>1. PICK d \in V : decls[d].name = F[j].name /\ decls[d].depth <= F[j].depth
            BY DEF Arranged
        <3>2. QED BY <1>2, <3>1
    <2>2. /\ decls'[new].name = items'[o + 1].name /\ decls'[new].depth = items'[o + 1].depth
          /\ decls'[new].depth <= items'[o + 1].depth
        OBVIOUS
    <2>3. \A j \in 1 .. o + 1 : \E d \in visible' :
              decls'[d].name = items'[j].name /\ decls'[d].depth <= items'[j].depth
        BY <1>2, <1>3, <2>1, <2>2
    <2>4. QED BY <2>3 DEF NamesOpen
(* The name is not open in V, so the binding and its cleanup go together. *)
<1>12. ASSUME NEW j \in 1 .. o PROVE F[j].name # x
    <2>1. PICK d \in V : decls[d].name = F[j].name
        BY DEF Arranged
    <2>2. QED BY <2>1
<1>13. AtHome'
    <2>1. \A j \in 1 .. o, d \in V :
              F[j].op = "drop" /\ F[j].name = decls[d].name => decls[d].depth = F[j].depth
        BY DEF Arranged
    <2> SUFFICES ASSUME NEW j \in 1 .. o + 1, NEW d \in visible',
                        items'[j].op = "drop", items'[j].name = decls'[d].name
                 PROVE  decls'[d].depth = items'[j].depth
        BY DEF AtHome
    <2>2. CASE j \in 1 .. o
        <3>1. d \in V
            BY <1>2, <1>12, <2>2
        <3>2. items'[j] = F[j] /\ decls'[d] = decls[d]
            BY <1>2, <2>2, <3>1
        <3>3. QED BY <2>1, <2>2, <3>1, <3>2
    <2>3. CASE j = o + 1
        <3>1. d \notin V
            BY <1>2, <2>3
        <3>2. QED BY <1>2, <2>3, <3>1
    <2>4. QED BY <1>3, <2>2, <2>3
<1>14. EachDropped'
    <2>1. ASSUME NEW d \in V
          PROVE  \E j \in 1 .. o + 1 : items'[j].op = "drop" /\ items'[j].name = decls'[d].name
        <3>1. PICK j \in 1 .. o : F[j].op = "drop" /\ F[j].name = decls[d].name
            BY DEF Arranged
        <3>2. QED BY <1>2, <1>4, <3>1
    <2>2. o + 1 \in 1 .. o + 1 /\ items'[o + 1].op = "drop" /\ items'[o + 1].name = decls'[new].name
        OBVIOUS
    <2>3. QED BY <1>2, <2>1, <2>2 DEF EachDropped
<1>15. InOrder'
    <2>1. \A i, j \in 1 .. o, d, e \in V :
              (/\ i < j /\ F[i].op = "drop" /\ F[j].op = "drop"
               /\ F[i].name = decls[d].name /\ F[j].name = decls[e].name) => d < e
        BY DEF Arranged
    <2> SUFFICES ASSUME NEW i \in 1 .. o + 1, NEW j \in 1 .. o + 1, NEW d \in visible', NEW e \in visible',
                        i < j, items'[i].op = "drop", items'[j].op = "drop",
                        items'[i].name = decls'[d].name, items'[j].name = decls'[e].name
                 PROVE  d < e
        BY DEF InOrder
    <2>2. i \in 1 .. o
        BY <1>1
    <2>3. d \in V
        BY <1>2, <1>12, <2>2
    <2>4. CASE j \in 1 .. o
        <3>1. e \in V
            BY <1>2, <1>12, <2>4
        <3>2. items'[i] = F[i] /\ items'[j] = F[j] /\ decls'[d] = decls[d] /\ decls'[e] = decls[e]
            BY <1>2, <2>2, <2>3, <2>4, <3>1
        <3>3. F[i].op = "drop" /\ F[j].op = "drop" /\ F[i].name = decls[d].name /\ F[j].name = decls[e].name
            BY <3>2
        <3>4. QED BY <2>1, <2>2, <2>3, <2>4, <3>1, <3>3
    <2>5. CASE j = o + 1
        <3>1. decls'[e].name = x
            BY <2>5
        <3>2. e = new
            BY <1>2, <3>1
        <3>3. QED BY <1>2, <2>3, <3>2
    <2>6. QED BY <1>3, <2>4, <2>5
<1>16. ReadBefore'
    <2>1. ASSUME NEW j \in 1 .. o, items'[j].op = "use"
          PROVE  /\ Written({"deferUse"})
                 /\ \E i \in 1 .. o + 1 : i < j /\ items'[i].op = "drop" /\ items'[i].name = items'[j].name
        <3>1. F[j].op = "use"
            BY <2>1
        <3>2. PICK i \in 1 .. o : i < j /\ F[i].op = "drop" /\ F[i].name = F[j].name
            BY <1>1, <3>1 DEF Arranged
        <3>3. Written({"deferUse"})
            BY <1>1, <3>1 DEF Arranged
        <3>4. QED BY <1>4, <3>2, <3>3
    <2>2. items'[o + 1].op # "use"
        OBVIOUS
    <2>3. Written({"deferUse"})' <=> Written({"deferUse"})
        BY DEF Written
    <2>4. QED BY <1>3, <2>1, <2>2, <2>3 DEF ReadBefore
<1>17. QED BY <1>8, <1>9, <1>10, <1>11, <1>13, <1>14, <1>15, <1>16 DEF Deferred

(* What the statement says of it.                                          *)
DeclaredIn(F, V, k, x, dep, new, l) ==
    /\ k \in Nat /\ Arranged(F, V, k) /\ x \in Names /\ \A d \in V : decls[d].name # x
    /\ dep \in Nat /\ dep > 0 /\ k - 1 <= dep /\ Depth' = dep
    /\ new = Len(decls) + 1 /\ l \in Nat /\ Loops(dep)' = l
    /\ decls' = Append(decls, [name |-> x, depth |-> dep, loop |-> l])
    /\ items' = Append(F, [op |-> "drop", name |-> x, depth |-> dep])
    /\ visible' = V \cup {new} /\ style' = style
    /\ \A j \in 1 .. k - 1 : Loops(j)' = Loops(j)

(* The same, with the types of what the declaration changes.               *)
LEMMA DeclareArranged ==
    ASSUME Scoped, NEW F, NEW V, NEW k, NEW x, NEW dep, NEW new, NEW l,
           DeclaredIn(F, V, k, x, dep, new, l)
    PROVE  /\ Bindings' /\ Deferred'
           /\ decls' \in Seq(Binding) /\ Len(decls') = new /\ new \in Nat
           /\ items' \in Seq(Cleanups) /\ visible' \subseteq 1 .. Len(decls')
           /\ \A d \in visible : decls'[d] = decls[d] /\ d < new
           /\ decls'[new].depth = dep
<1> DEFINE b == [name |-> x, depth |-> dep, loop |-> l]
           c == [op |-> "drop", name |-> x, depth |-> dep]
           o == Len(F)
<1>1. /\ decls \in Seq(Binding) /\ Len(decls) \in Nat /\ visible \subseteq 1 .. Len(decls)
      /\ F \in Seq(Cleanups) /\ o \in Nat /\ DOMAIN F = 1 .. o /\ V \subseteq visible
    BY TypedIs, LenProperties DEF Scoped, Typed, Arranged, DeclaredIn
<1>2. /\ b \in Binding /\ b.name = x /\ b.depth = dep /\ b.loop = l
      /\ c \in Cleanups /\ c.op = "drop" /\ c.name = x /\ c.depth = dep
    BY DEF Binding, Cleanups, DeclaredIn
<1>3. decls' = Append(decls, b) /\ items' = Append(F, c) /\ new = Len(decls) + 1
    BY DEF DeclaredIn
<1> HIDE DEF b, c, o
<1>4. /\ decls' \in Seq(Binding) /\ Len(decls') = new /\ new \in Nat
      /\ \A d \in 1 .. Len(decls) : decls'[d] = decls[d] /\ d < new
      /\ decls'[new] = b
    <2>1. /\ Append(decls, b) \in Seq(Binding) /\ Len(Append(decls, b)) = Len(decls) + 1
          /\ \A d \in 1 .. Len(decls) : Append(decls, b)[d] = decls[d]
          /\ Append(decls, b)[Len(decls) + 1] = b
        BY <1>1, <1>2, AppendProperties
    <2>2. \A d \in 1 .. Len(decls) : d < new
        BY <1>1, <1>3
    <2>3. QED BY <1>1, <1>3, <2>1, <2>2
<1>5. /\ items' \in Seq(Cleanups) /\ DOMAIN items' = 1 .. o + 1
      /\ \A j \in 1 .. o : items'[j] = F[j]
      /\ items'[o + 1] = c
    <2>1. /\ Append(F, c) \in Seq(Cleanups) /\ Len(Append(F, c)) = Len(F) + 1
          /\ \A j \in 1 .. Len(F) : Append(F, c)[j] = F[j]
          /\ Append(F, c)[Len(F) + 1] = c
        BY <1>1, <1>2, AppendProperties
    <2>2. QED BY <1>3, <2>1, LenProperties DEF o
<1>6. \A d \in V : decls'[d] = decls[d] /\ d < new /\ d \in Nat
    BY <1>1, <1>4
<1>7. /\ Bindings /\ decls'[new].name = x /\ decls'[new].depth = dep /\ decls'[new].loop = l
      /\ items'[o + 1].op = "drop" /\ items'[o + 1].name = x /\ items'[o + 1].depth = dep
    BY <1>2, <1>4, <1>5 DEF Scoped
<1>8. Bindings' /\ Deferred'
    <2>1. /\ o \in Nat /\ DOMAIN F = 1 .. o /\ DOMAIN items' = 1 .. o + 1 /\ new \in Nat
          /\ \A j \in 1 .. o : items'[j] = F[j]
        BY <1>1, <1>4, <1>5
    <2>2. Declaring(F, V, k, x, dep, new, l, o)
        BY <1>6, <1>7, <2>1 DEF Declaring, DeclaredIn
    <2>3. QED BY <1>7, <2>2, DeclareOne
<1>9. visible' \subseteq 1 .. Len(decls')
    <2>1. \A d \in V : d \in 1 .. new
        BY <1>1, <1>4
    <2>2. new \in 1 .. new
        BY <1>1, <1>3
    <2>3. visible' = V \cup {new}
        BY DEF DeclaredIn
    <2>4. QED BY <1>4, <2>1, <2>2, <2>3
<1>10. /\ Bindings' /\ Deferred'
       /\ decls' \in Seq(Binding) /\ Len(decls') = new /\ new \in Nat
       /\ items' \in Seq(Cleanups)
    BY <1>4, <1>5, <1>8
<1>11. (\A d \in visible : decls'[d] = decls[d] /\ d < new) /\ decls'[new].depth = dep
    BY <1>1, <1>4, <1>7
<1>12. QED BY <1>9, <1>10, <1>11

(* Loops are counted.                                                      *)
LEMMA LoopsType == ASSUME NEW j \in Nat PROVE Loops(j) \in Nat
<1>1. IsFiniteSet(1 .. j)
    BY FS_Interval
<1>2. {i \in 1 .. j : InLoop(frames[i])} \subseteq 1 .. j
    OBVIOUS
<1>3. QED BY <1>1, <1>2, FS_Subset, FS_CardinalityType DEF Loops

(* A binding is declared in the innermost scope.                           *)
LEMMA DeclaresPreserved ==
    ASSUME Scoped, ~Shadowing, NEW x \in Names, MayDeclare(x),
           style' = style, frames' = frames, size' = size + 1,
           decls' = Append(decls, Declaration(x)), items' = Append(items, Item("drop", x)),
           NEW new, new = Len(decls) + 1, visible' = visible \cup {new},
           NEW gone \in SUBSET visible, moved' = moved \cup gone,
           gone # {} => Written(EndingForms),
           \A k \in 1 .. Depth : InLoop(frames[k]) => \A d \in gone : d \notin Around(k),
           NEW T \in Labels, Links(T), NEW w, w = Cur',
           Sound(code', w, T, size + 1, new, Ids(Branching), Ids(PastElse), Ids(Looping))
    PROVE  Preserved
<1>1. SameBlocks /\ Depth' = Depth
    BY PlainFrames DEF Scoped
<1>2. /\ Depth \in Nat /\ Depth > 0 /\ size \in Nat /\ Len(decls) \in Nat /\ moved \subseteq 1 .. Len(decls)
      /\ visible \subseteq 1 .. Len(decls) /\ style \in Styles /\ frames \in Seq(Frame)
    BY TypedIs DEF Scoped, Typed, Nesting
<1>3. PICK k \in Nat : k = Depth + 1
    BY <1>2
<1>4. PICK l \in Nat : l = Loops(Depth)
    BY <1>2, LoopsType
<1>5. PICK dep \in Nat : dep = Depth
    BY <1>2
<1>6. Arranged(items, visible, k)
    BY <1>3, AllArranged
<1>7. /\ decls' = Append(decls, [name |-> x, depth |-> dep, loop |-> l])
      /\ items' = Append(items, [op |-> "drop", name |-> x, depth |-> dep])
    BY <1>4, <1>5 DEF Declaration, Item, LoopDepth, Loops
<1>8. \A d \in visible : decls[d].name # x
    BY DEF MayDeclare, Named
<1>9. \A j : Loops(j)' = Loops(j)
    BY DEF Loops
<1>10. Depth' = dep /\ Loops(dep)' = l /\ dep > 0 /\ k - 1 <= dep
    BY <1>1, <1>2, <1>3, <1>4, <1>5, <1>9
<1>11. /\ Bindings' /\ Deferred'
       /\ decls' \in Seq(Binding) /\ Len(decls') = new /\ new \in Nat
       /\ items' \in Seq(Cleanups) /\ visible' \subseteq 1 .. Len(decls')
       /\ \A d \in visible : decls'[d] = decls[d] /\ d < new
       /\ decls'[new].depth = dep
    <2>1. DeclaredIn(items, visible, k, x, dep, new, l)
        BY <1>6, <1>7, <1>8, <1>9, <1>10 DEF DeclaredIn
    <2>2. QED BY <2>1, DeclareArranged
<1>12. ASSUME NEW j \in 1 .. Depth PROVE Around(j)' = Around(j)
    <2>1. ~(decls'[new].depth < j)
        BY <1>2, <1>5, <1>11
    <2>2. QED BY <1>11, <2>1 DEF Around
<1>13. Len(decls') \in Nat /\ Len(decls) <= Len(decls') /\ size' \in Nat /\ size <= size'
    BY <1>2, <1>11
<1>14. Nesting' /\ Moved' /\ Branches'
    BY <1>1, <1>12, <1>13, SteadyRest
<1>15. Typed'
    <2>1. moved' \subseteq 1 .. Len(decls')
        <3>1. \A d \in 1 .. Len(decls) : d \in 1 .. Len(decls')
            BY <1>2, <1>13
        <3>2. QED BY <1>2, <3>1
    <2>2. code' \in Seq(Instruction)
        BY DEF Sound
    <2>3. style' \in Styles /\ frames' \in Seq(Frame)
        BY <1>2
    <2>4. QED BY <1>11, <1>13, <2>1, <2>2, <2>3 DEF Typed
<1>16. Scoped'
    BY <1>11, <1>14, <1>15 DEF Scoped
<1>17. Links(T)' /\ \A kinds : Ids(kinds)' = Ids(kinds)
    BY <1>1, <1>12, PlainFrames, SteadyLinks DEF Scoped
<1>18. Sound(code', Cur', T, size', Len(decls'), Ids(Branching)', Ids(PastElse)', Ids(Looping)')
    BY <1>11, <1>17
<1>19. Compiled(T)'
    BY <1>17, <1>18, CompiledNext
<1>20. QED BY <1>16, <1>19 DEF Preserved

(* let x = T { ... };                                                      *)
LEMMA LetStep ==
    ASSUME Scoped, NEW T \in Labels, Compiled(T), ~Shadowing, NEW x \in Names, Let(x)
    PROVE  Preserved
<1>1. PICK new : new = Len(decls) + 1
    OBVIOUS
<1> DEFINE i == [op |-> "fresh", at |-> new, src |-> 0, flag |-> 0]
           w == Note(Reached(Depth), visible \cup {new}, moved)
<1>2. /\ size' = size + 1 /\ style' = style /\ frames' = frames /\ moved' = moved
      /\ MayDeclare(x) /\ decls' = Append(decls, Declaration(x))
      /\ items' = Append(items, Item("drop", x)) /\ visible' = visible \cup {new}
      /\ code' = code \o <<i>>
    BY <1>1 DEF Let, Writes, Declares, Register, Emit
<1>3. /\ Len(decls) \in Nat /\ visible \subseteq 1 .. Len(decls) /\ moved \subseteq 1 .. Len(decls)
    BY TypedIs DEF Scoped, Typed
<1>4. /\ new \in Nat /\ new \in 1 .. new /\ Len(decls) <= new /\ visible \cup {new} \in SUBSET Nat
      /\ new \notin moved /\ \A d \in visible : d < new
    <2>1. new \in Nat /\ new \in 1 .. new /\ Len(decls) <= new /\ new \notin 1 .. Len(decls)
          /\ \A d \in 1 .. Len(decls) : d < new /\ d \in Nat
        BY <1>1, <1>3
    <2>2. QED BY <1>3, <2>1
<1>5. i \in Instruction /\ i.op = "fresh" /\ i.at = new /\ i.op \notin Controls
    BY <1>4 DEF Instruction, Ops, Controls
<1>6. Cur' = w
    BY <1>2, PlainFrames DEF Cur, Scoped
<1>7. w \in Notes
    BY <1>2, <1>4, QuietSizes, NoteType
<1>8. /\ Cur.reached => \A d \in Cur.open : d < new
      /\ Cur.reached => Flows(Known(Cur.open \cup {new}, Cur.whole \cup {new}), w)
    BY <1>4 DEF Cur, Note, Known, Unreached, Flows
<1> HIDE DEF i, w
<1>9. Rule(i, Cur, w, T)
    BY <1>5, <1>8 DEF Rule
<1>10. Sound(code \o <<i>>, w, T, size + 1, new, Ids(Branching), Ids(PastElse), Ids(Looping))
    BY <1>2, <1>4, <1>5, <1>7, <1>9, QuietSizes, StraightOne
<1>11. Links(T) /\ moved' = moved \cup {} /\ {} \in SUBSET visible /\ Sound(code', w, T, size + 1, new,
            Ids(Branching), Ids(PastElse), Ids(Looping))
    BY <1>2, <1>10, QuietSizes
<1>12. QED BY <1>1, <1>2, <1>6, <1>11, DeclaresPreserved

(* let x = move y;                                                         *)
LEMMA LetMoveStep ==
    ASSUME Scoped, NEW T \in Labels, Compiled(T), ~Shadowing, NEW x \in Names, NEW y \in Names,
           LetMove(x, y)
    PROVE  Preserved
<1>1. PICK new : new = Len(decls) + 1
    OBVIOUS
<1>2. PICK d : d = Resolve(y)
    OBVIOUS
<1> DEFINE i == [op |-> "from", at |-> new, src |-> d, flag |-> d]
           w == Note(Reached(Depth), visible \cup {new}, moved \cup {d})
<1>3. x # y
    BY DEF LetMove, Declares, MayDeclare, MayMove, MayUse, Declared
<1>4. /\ size' = size + 1 /\ style' = style /\ frames' = frames /\ moved' = moved \cup {d}
      /\ MayDeclare(x) /\ MayMove(y) /\ MayUse(y) /\ Written(EndingForms)
      /\ decls' = Append(decls, Declaration(x))
      /\ items' = Append(items, Item("drop", x)) /\ visible' = visible \cup {new}
      /\ code' = code \o <<i>>
    BY <1>1, <1>2, <1>3
       DEF LetMove, Writes, Declares, Register, Emit, Consumed, Written, EndingForms, MayMove
<1>5. /\ Len(decls) \in Nat /\ visible \subseteq 1 .. Len(decls) /\ moved \subseteq 1 .. Len(decls)
    BY TypedIs DEF Scoped, Typed
<1>6. d \in visible \ moved /\ \A k \in 1 .. Depth : InLoop(frames[k]) => d \notin Around(k)
    BY <1>2, <1>4, MayUseIs, MayMoveIs
<1>7. /\ new \in Nat /\ new \in 1 .. new /\ Len(decls) <= new /\ visible \cup {new} \in SUBSET Nat
      /\ new \notin moved /\ (\A e \in visible : e < new) /\ d \in Nat /\ d # new
    <2>1. new \in Nat /\ new \in 1 .. new /\ Len(decls) <= new /\ new \notin 1 .. Len(decls)
          /\ \A e \in 1 .. Len(decls) : e < new /\ e \in Nat
        BY <1>1, <1>5
    <2>2. QED BY <1>5, <1>6, <2>1
<1>8. i \in Instruction /\ i.op = "from" /\ i.at = new /\ i.src = d /\ i.flag = d /\ i.op \notin Controls
    BY <1>7 DEF Instruction, Ops, Controls
<1>9. Cur' = w
    BY <1>4, PlainFrames DEF Cur, Scoped
<1>10. w \in Notes
    BY <1>4, <1>7, QuietSizes, NoteType
<1>11. /\ Cur.reached => d \in Cur.whole /\ \A e \in Cur.open : e < new
       /\ Cur.reached => Flows(Known(Cur.open \cup {new}, (Cur.whole \ {d}) \cup {new}), w)
    BY <1>6, <1>7 DEF Cur, Note, Known, Unreached, Flows
<1> HIDE DEF i, w
<1>12. Rule(i, Cur, w, T)
    BY <1>8, <1>11 DEF Rule
<1>13. Sound(code \o <<i>>, w, T, size + 1, new, Ids(Branching), Ids(PastElse), Ids(Looping))
    BY <1>4, <1>7, <1>8, <1>10, <1>12, QuietSizes, StraightOne
<1>14. /\ Links(T) /\ {d} \in SUBSET visible
       /\ \A k \in 1 .. Depth : InLoop(frames[k]) => \A e \in {d} : e \notin Around(k)
       /\ Sound(code', w, T, size + 1, new, Ids(Branching), Ids(PastElse), Ids(Looping))
    BY <1>4, <1>6, <1>13, QuietSizes
<1>15. QED BY <1>1, <1>4, <1>9, <1>14, DeclaresPreserved

-----------------------------------------------------------------------------
(* Statements that open a block. *)

(* A block with frame g begins, behind a condition that moves `gone'.      *)
Opening(g, gone) ==
    /\ style' = style /\ size' = size + 1 /\ frames' = Append(frames, g) /\ moved' = g.before
    /\ g \in Frame /\ g.id = size /\ g.kind \notin {"fn", "else", "lastArm"}
    /\ g.joins = {} /\ g.all = TRUE /\ g.returns = FALSE /\ g.breaks = FALSE
    /\ gone \in SUBSET visible /\ g.before = moved \cup gone
    /\ gone # {} => Written(EndingForms)
    /\ \A k \in 1 .. Depth : InLoop(frames[k]) => \A d \in gone : d \notin Around(k)
    /\ g.kind = "arm" => g.from \in visible \cap g.before
    /\ g.kind \in Looping => Written({"while", "forever"})

(* An opened block is the last frame, and the others stay.                 *)
LEMMA OpeningFrames ==
    ASSUME Scoped, NEW g, NEW gone, Opening(g, gone)
    PROVE  /\ Depth \in Nat /\ Depth > 0 /\ Depth' = Depth + 1 /\ frames' \in Seq(Frame)
           /\ \A k \in 1 .. Depth : frames'[k] = frames[k]
           /\ frames'[Depth + 1] = g
<1>1. Depth \in Nat /\ Depth > 0 /\ frames \in Seq(Frame) /\ g \in Frame
      /\ Depth = Len(frames) /\ frames' = Append(frames, g)
    BY TypedIs DEF Scoped, Typed, Nesting, Opening, Depth
<1>2. /\ Append(frames, g) \in Seq(Frame) /\ Len(Append(frames, g)) = Len(frames) + 1
      /\ \A k \in 1 .. Len(frames) : Append(frames, g)[k] = frames[k]
      /\ Append(frames, g)[Len(frames) + 1] = g
    BY <1>1, AppendProperties
<1>3. Depth' = Len(frames')
    BY DEF Depth
<1>4. QED BY <1>1, <1>2, <1>3

(* The open blocks stay what they are.                                     *)
LEMMA OpeningRest ==
    ASSUME Scoped, NEW g, NEW gone, Opening(g, gone),
           Len(decls') \in Nat, Len(decls) <= Len(decls'),
           \A k \in 1 .. Depth + 1 : Around(k)' = Around(k)
    PROVE  Nesting' /\ Moved' /\ Branches'
<1>1. /\ Depth \in Nat /\ Depth > 0 /\ Depth' = Depth + 1 /\ frames' \in Seq(Frame)
      /\ \A k \in 1 .. Depth : frames'[k] = frames[k]
      /\ frames'[Depth + 1] = g
    BY OpeningFrames
<1>2. \A k \in 1 .. Depth + 1 : k \in 1 .. Depth \/ k = Depth + 1
    BY <1>1
<1>3. \A k \in 1 .. Depth : k < Depth + 1 /\ k \in 1 .. Depth + 1 /\ ~(Depth + 1 < k)
    BY <1>1
<1>4. Around(Depth + 1) = visible
    <2>1. \A d \in visible : decls[d].depth \in 1 .. Depth
        BY DEF Scoped, Bindings
    <2>2. \A d \in visible : decls[d].depth < Depth + 1
        BY <1>1, <2>1
    <2>3. QED BY <2>2 DEF Around
<1>5. /\ g \in Frame /\ g.id = size /\ g.kind \notin {"fn", "else", "lastArm"}
      /\ g.joins = {} /\ g.all = TRUE /\ g.before = moved \cup gone /\ moved' = g.before
    BY DEF Opening
<1>6. /\ size' = size + 1 /\ size \in Nat /\ size < size'
      /\ (Written({"while", "forever"})' <=> Written({"while", "forever"}))
    <2>1. size' = size + 1 /\ size \in Nat /\ style' = style
        BY DEF Opening, Scoped, Typed
    <2>2. QED BY <2>1 DEF Written
<1>7. /\ frames'[Depth + 1].id = size /\ frames'[Depth + 1].kind # "fn" /\ Depth + 1 # 1
    <2>1. g.id = size /\ g.kind # "fn"
        BY <1>5
    <2>2. Depth + 1 # 1
        BY <1>1
    <2>3. QED BY <1>1, <2>1, <2>2
<1>8. Nesting'
    <2>1. ASSUME NEW k \in 2 .. Depth
          PROVE  frames'[k] = frames[k] /\ frames[k].id < size /\ frames'[k].id < size'
        <3>1. frames[k] \in Frame /\ k \in 1 .. Depth
            BY <1>1, TypedIs DEF Scoped
        <3>2. frames[k].id \in Nat /\ frames[k].id < size
            BY <3>1 DEF Frame, Scoped, Nesting
        <3>3. frames'[k] = frames[k]
            BY <1>1, <3>1
        <3>4. frames[k].id < size'
            BY <1>6, <3>2
        <3>5. QED BY <3>2, <3>3, <3>4
    <2>2. frames'[Depth + 1].id < size'
        BY <1>6, <1>7
    <2>3. \A k \in 2 .. Depth + 1 : k \in 2 .. Depth \/ k = Depth + 1
        BY <1>1
    <2>4. \A k \in 2 .. Depth + 1 : frames'[k].id < size'
        BY <2>1, <2>2, <2>3
    <2>5. ASSUME NEW j \in 2 .. Depth + 1, NEW k \in 2 .. Depth + 1, j < k
          PROVE  frames'[j].id < frames'[k].id
        <3>1. j \in 2 .. Depth
            BY <1>1, <2>5
        <3>2. CASE k \in 2 .. Depth
            <4>1. frames[j].id < frames[k].id
                BY <2>5, <3>1, <3>2 DEF Scoped, Nesting
            <4>2. QED BY <2>1, <3>1, <3>2, <4>1
        <3>3. CASE k = Depth + 1
            <4>1. frames'[j].id < size /\ frames'[k].id = size
                BY <1>1, <1>5, <2>1, <3>1, <3>3
            <4>2. QED BY <4>1
        <3>4. QED BY <2>3, <3>2, <3>3
    <2>6. ASSUME NEW k \in 1 .. Depth + 1 PROVE frames'[k].kind = "fn" <=> k = 1
        <3>1. CASE k \in 1 .. Depth
            BY <1>1, <3>1 DEF Scoped, Nesting
        <3>2. CASE k = Depth + 1
            BY <1>7, <3>2
        <3>3. QED BY <1>2, <3>1, <3>2
    <2>7. QED BY <1>1, <2>4, <2>5, <2>6 DEF Nesting
<1>9. Moved'
    <2>1. ASSUME NEW k \in 1 .. Depth + 1 PROVE frames'[k].before \subseteq moved'
        BY <1>1, <1>2, <1>5 DEF Scoped, Moved
    <2>2. ASSUME NEW j \in 1 .. Depth + 1, NEW k \in 1 .. Depth + 1, j < k
          PROVE  frames'[j].before \subseteq frames'[k].before
        <3>1. j \in 1 .. Depth
            BY <1>1, <2>2
        <3>2. CASE k \in 1 .. Depth
            BY <1>1, <2>2, <3>1, <3>2 DEF Scoped, Moved
        <3>3. CASE k = Depth + 1
            BY <1>1, <1>5, <3>1, <3>3 DEF Scoped, Moved
        <3>4. QED BY <1>2, <3>2, <3>3
    <2>3. ASSUME NEW k \in 1 .. Depth + 1, NEW m \in frames'[k].joins
          PROVE  frames'[k].before \subseteq m /\ m \subseteq 1 .. Len(decls')
        <3>1. k \in 1 .. Depth /\ m \in frames[k].joins
            BY <1>1, <1>2, <1>5, <2>3
        <3>2. frames[k].before \subseteq m /\ m \subseteq 1 .. Len(decls)
            BY <3>1 DEF Scoped, Moved
        <3>3. \A e \in 1 .. Len(decls) : e \in 1 .. Len(decls')
            BY TypedIs DEF Scoped
        <3>4. QED BY <1>1, <3>1, <3>2, <3>3
    <2>4. ASSUME NEW k \in 1 .. Depth + 1, InLoop(frames[k])', NEW d \in Around(k)' \ frames'[k].before
          PROVE  /\ d \notin moved'
                 /\ \A j \in k + 1 .. Depth + 1 :
                        d \notin frames'[j].before /\ \A m \in frames'[j].joins : d \notin m
        <3>1. CASE k = Depth + 1
            <4>1. d \notin moved'
                BY <1>1, <1>5, <2>4, <3>1
            <4>2. \A j \in k + 1 .. Depth + 1 : FALSE
                BY <1>1, <3>1
            <4>3. QED BY <4>1, <4>2
        <3>2. CASE k \in 1 .. Depth
            <4>1. frames'[k] = frames[k] /\ InLoop(frames[k]) /\ d \in Around(k) \ frames[k].before
                BY <1>1, <1>3, <2>4, <3>2 DEF InLoop
            <4>2. /\ d \notin moved
                  /\ \A j \in k + 1 .. Depth :
                         d \notin frames[j].before /\ \A m \in frames[j].joins : d \notin m
                BY <3>2, <4>1 DEF Scoped, Moved
            <4>3. d \notin gone
                BY <3>2, <4>1 DEF Opening
            <4>4. d \notin moved'
                BY <1>5, <4>2, <4>3
            <4>5. ASSUME NEW j \in k + 1 .. Depth + 1
                  PROVE  d \notin frames'[j].before /\ \A m \in frames'[j].joins : d \notin m
                <5>1. CASE j = Depth + 1
                    BY <1>1, <1>5, <4>4, <5>1
                <5>2. CASE j \in k + 1 .. Depth
                    <6>1. frames'[j] = frames[j]
                        BY <1>1, <3>2, <5>2
                    <6>2. QED BY <4>2, <5>2, <6>1
                <5>3. QED BY <1>1, <3>2, <5>1, <5>2
            <4>6. QED BY <4>4, <4>5
        <3>3. QED BY <1>2, <3>1, <3>2
    <2>5. QED BY <1>1, <2>1, <2>2, <2>3, <2>4 DEF Moved
<1>10. Branches'
    <2>1. ASSUME NEW k \in 1 .. Depth + 1
          PROVE  /\ frames'[k].kind \in {"then", "arm"} => frames'[k].joins = {} /\ frames'[k].all
                 /\ frames'[k].kind \in {"else", "lastArm"} => (frames'[k].joins = {} <=> frames'[k].all)
        BY <1>1, <1>2, <1>5 DEF Scoped, Branches
    <2>2. ASSUME NEW k \in 1 .. Depth + 1, frames'[k].kind = "arm"
          PROVE  frames'[k].from \in Around(k)' \cap frames'[k].before
        <3>1. CASE k \in 1 .. Depth
            BY <1>1, <1>3, <2>2, <3>1 DEF Scoped, Branches
        <3>2. CASE k = Depth + 1
            <4>1. Around(k)' = visible
                BY <1>4, <3>2
            <4>2. QED BY <1>1, <2>2, <3>2, <4>1 DEF Opening
        <3>3. QED BY <1>2, <3>1, <3>2
    <2>3. ASSUME NEW k \in 1 .. Depth + 1, InLoop(frames[k])' PROVE Written({"while", "forever"})'
        <3>1. CASE k \in 1 .. Depth
            <4>1. InLoop(frames[k])
                BY <1>1, <2>3, <3>1 DEF InLoop
            <4>2. QED BY <1>6, <3>1, <4>1 DEF Scoped, Branches
        <3>2. CASE k = Depth + 1
            <4>1. g.kind \in Looping
                BY <1>1, <2>3, <3>2 DEF InLoop, Looping
            <4>2. QED BY <1>6, <4>1 DEF Opening
        <3>3. QED BY <1>2, <3>1, <3>2
    <2>4. ASSUME ~Written(EndingForms)'
          PROVE  moved' = {} /\ \A k \in 1 .. Depth + 1 :
                     frames'[k].before = {} /\ frames'[k].joins \subseteq {{}}
        <3>1. ~Written(EndingForms) /\ gone = {}
            BY <2>4 DEF Written, Opening
        <3>2. moved' = {} /\ g.before = {} /\ g.joins = {}
            BY <1>5, <3>1 DEF Scoped, Branches
        <3>3. QED BY <1>1, <1>2, <3>1, <3>2 DEF Scoped, Branches
    <2>5. QED BY <1>1, <2>1, <2>2, <2>3, <2>4 DEF Branches
<1>11. QED BY <1>8, <1>9, <1>10
 
(* The new block is known by its head and its tail.                        *)
LEMMA OpeningLinks ==
    ASSUME Scoped, NEW g, NEW gone, Opening(g, gone), NEW U, Links(U),
           \A k \in 1 .. Depth + 1 : Around(k)' = Around(k),
           U[size].head = Note(Reached(Depth), visible,
                               IF g.kind = "arm" THEN g.before \ {g.from} ELSE g.before),
           U[size].tail = IF g.kind = "while" THEN Note(Reached(Depth), visible, g.before)
                                              ELSE Unreached
    PROVE  /\ Links(U)'
           /\ \A kinds : Ids(kinds)' = Ids(kinds) \cup (IF g.kind \in kinds THEN {size} ELSE {})
           /\ Reached(Depth)' = Reached(Depth)
<1>1. PICK n \in Nat : n = Depth
    BY OpeningFrames
<1>2. /\ n \in Nat /\ n > 0 /\ Depth' = n + 1 /\ Depth = n
      /\ \A k \in 1 .. n : frames'[k] = frames[k]
      /\ frames'[n + 1] = g
    BY <1>1, OpeningFrames
<1>3. \A k \in 2 .. n + 1 : k \in 2 .. n \/ k = n + 1
    BY <1>2
<1>4. \A k \in 2 .. n : k \in 1 .. n /\ k \in 1 .. n + 1 /\ k \in 2 .. n + 1
    BY <1>2
<1>5. n + 1 \in 2 .. n + 1 /\ n + 1 \in 1 .. n + 1
    BY <1>2
<1>6. Around(n + 1)' = visible
    <2>1. \A d \in visible : decls[d].depth \in 1 .. n
        BY <1>1 DEF Scoped, Bindings
    <2>2. \A d \in visible : decls[d].depth < n + 1
        BY <1>2, <2>1
    <2>3. Around(n + 1) = visible
        BY <2>2 DEF Around
    <2>4. QED BY <1>2, <1>5, <2>3
<1>7. g.id = size /\ g.joins = {} /\ g.breaks = FALSE /\ g.returns = FALSE
    BY DEF Opening
<1>8. ASSUME NEW j \in 0 .. n PROVE Reached(j)' = Reached(j)
    <2>1. \A i \in 1 .. j : i \in 1 .. n
        BY <1>2
    <2>2. QED BY <1>2, <2>1 DEF Reached
<1>9. Reached(Depth)' = Reached(Depth)
    <2>1. Reached(Depth)' = (\A i \in 1 .. n + 1 : ~frames'[i].returns)
        BY <1>2 DEF Reached
    <2>2. \A i \in 1 .. n + 1 : i \in 1 .. n \/ i = n + 1
        BY <1>2
    <2>3. \A i \in 1 .. n : i \in 1 .. n + 1
        BY <1>2
    <2>4. Reached(Depth) = (\A i \in 1 .. n : ~frames[i].returns)
        BY <1>2 DEF Reached
    <2>5. (\A i \in 1 .. n + 1 : ~frames'[i].returns) <=> (\A i \in 1 .. n : ~frames[i].returns)
        BY <1>2, <1>7, <2>2, <2>3
    <2>6. QED BY <2>1, <2>4, <2>5
<1>10. ASSUME NEW k \in 2 .. n
       PROVE  /\ frames'[k].kind \in {"then", "arm"} \cup Looping => U[frames'[k].id].head = HeadNote(k)'
              /\ frames'[k].kind # "block" => U[frames'[k].id].tail = TailNote(k)'
    <2>1. frames'[k] = frames[k] /\ Around(k)' = Around(k) /\ Reached(k - 1)' = Reached(k - 1)
        <3>1. k - 1 \in 0 .. n
            BY <1>2
        <3>2. QED BY <1>2, <1>4, <1>8, <3>1
    <2>2. InLoop(frames[k])' <=> InLoop(frames[k])
        BY <2>1 DEF InLoop
    <2>3. HeadNote(k)' = HeadNote(k)
        BY <2>1 DEF HeadNote
    <2>4. TailNote(k)' = TailNote(k)
        BY <2>1, <2>2 DEF TailNote
    <2>5. QED BY <1>2, <2>1, <2>3, <2>4 DEF Links
<1>11. ASSUME NEW k, k = n + 1
       PROVE  U[frames'[k].id].head = HeadNote(k)' /\ U[frames'[k].id].tail = TailNote(k)'
    <2>1. frames'[k] = g /\ Around(k)' = visible /\ Reached(k - 1)' = Reached(n)
        <3>1. k - 1 = n /\ n \in 0 .. n
            BY <1>2, <1>11
        <3>2. Reached(k - 1)' = Reached(n)
            BY <1>8, <3>1
        <3>3. QED BY <1>2, <1>6, <1>11, <3>2
    <2>2. HeadNote(k)' = Note(Reached(n), visible,
                              IF g.kind = "arm" THEN g.before \ {g.from} ELSE g.before)
        BY <2>1 DEF HeadNote
    <2>3. TailNote(k)' = IF g.kind = "while" THEN Note(Reached(n), visible, g.before) ELSE Unreached
        <3>1. TailNote(k)' = IF g.kind \in {"while", "forever"}
                             THEN Note(Reached(n) /\ (g.kind = "while" \/ g.breaks), visible, g.before)
                             ELSE Note(Reached(n) /\ g.joins # {}, visible, UNION g.joins)
            BY <2>1 DEF TailNote, InLoop
        <3>2. \A v, w : Note(FALSE, v, w) = Unreached
            BY DEF Note
        <3>3. Reached(n) \in BOOLEAN
            BY DEF Reached
        <3>4. CASE g.kind = "while"
            BY <3>1, <3>3, <3>4
        <3>5. CASE g.kind # "while"
            <4>1. (Reached(n) /\ (g.kind = "while" \/ g.breaks)) = FALSE
                BY <1>7, <3>5
            <4>2. (Reached(n) /\ g.joins # {}) = FALSE
                BY <1>7
            <4>3. QED BY <3>1, <3>2, <3>5, <4>1, <4>2
        <3>6. QED BY <3>4, <3>5
    <2>4. QED BY <1>2, <1>7, <2>1, <2>2, <2>3
<1>12. Links(U)'
    BY <1>2, <1>3, <1>10, <1>11 DEF Links
<1>13. ASSUME NEW kinds
       PROVE  Ids(kinds)' = Ids(kinds) \cup (IF g.kind \in kinds THEN {size} ELSE {})
    <2>1. ASSUME NEW a \in Ids(kinds)'
          PROVE  a \in Ids(kinds) \cup (IF g.kind \in kinds THEN {size} ELSE {})
        <3>1. PICK k \in 2 .. n + 1 : frames'[k].kind \in kinds /\ a = frames'[k].id
            BY <1>2, <2>1 DEF Ids
        <3>2. CASE k = n + 1
            BY <1>2, <1>7, <3>1, <3>2
        <3>3. CASE k \in 2 .. n
            <4>1. frames'[k] = frames[k]
                BY <1>2, <1>4, <3>3
            <4>2. a \in Ids(kinds)
                BY <1>2, <3>1, <3>3, <4>1 DEF Ids
            <4>3. QED BY <4>2
        <3>4. QED BY <1>3, <3>2, <3>3
    <2>2. ASSUME NEW a \in Ids(kinds) PROVE a \in Ids(kinds)'
        <3>1. PICK k \in 2 .. n : frames[k].kind \in kinds /\ a = frames[k].id
            BY <1>2, <2>2 DEF Ids
        <3>2. frames'[k] = frames[k] /\ k \in 2 .. Depth'
            BY <1>2, <1>4
        <3>3. QED BY <3>1, <3>2 DEF Ids
    <2>3. ASSUME g.kind \in kinds PROVE size \in Ids(kinds)'
        <3>1. frames'[n + 1].kind \in kinds /\ frames'[n + 1].id = size /\ n + 1 \in 2 .. Depth'
            BY <1>2, <1>5, <1>7, <2>3
        <3>2. QED BY <3>1 DEF Ids
    <2>4. QED BY <2>1, <2>2, <2>3
<1>14. QED BY <1>9, <1>12, <1>13

(* The number of the statement that is written is still a free label.      *)
LEMMA FreshLabel ==
    ASSUME Scoped, NEW T \in Labels, Links(T), NEW h \in Notes, NEW t \in Notes,
           NEW v, NEW n, NEW B, NEW E, NEW L, Sound(code, v, T, size, n, B, E, L)
    PROVE  \E U \in Labels : /\ Links(U) /\ Sound(code, v, U, size, n, B, E, L)
                             /\ U[size].head = h /\ U[size].tail = t
<1> DEFINE U == [T EXCEPT ![size] = [head |-> h, tail |-> t]]
<1>1. size \in Nat
    BY DEF Scoped, Typed
<1>2. /\ U \in Labels /\ U[size].head = h /\ U[size].tail = t
      /\ \A a \in Nat : a < size => U[a] = T[a]
    BY <1>1 DEF Labels
<1> HIDE DEF U
<1>3. Links(U)
    BY <1>2, LinksFresh
<1>4. \A a \in Nat : a < size => U[a].head = T[a].head /\ U[a].tail = T[a].tail
    BY <1>2
<1>5. Sound(code, v, U, size, n, B, E, L)
    BY <1>2, <1>4, Relabel
<1>6. QED BY <1>2, <1>3, <1>5

(* Opening a block changes no count of the loops around the others.        *)
LEMMA OpeningLoops ==
    ASSUME Scoped, NEW g, NEW gone, Opening(g, gone)
    PROVE  \A j \in 1 .. Depth : Loops(j)' = Loops(j)
<1>1. Depth \in Nat /\ \A k \in 1 .. Depth : frames'[k] = frames[k]
    BY OpeningFrames
<1>2. ASSUME NEW j \in 1 .. Depth PROVE Loops(j)' = Loops(j)
    <2>1. \A i \in 1 .. j : i \in 1 .. Depth
        BY <1>1
    <2>2. \A i \in 1 .. j : InLoop(frames[i])' <=> InLoop(frames[i])
        BY <1>1, <2>1 DEF InLoop
    <2>3. {i \in 1 .. j : InLoop(frames[i])'} = {i \in 1 .. j : InLoop(frames[i])}
        BY <2>2
    <2>4. QED BY <2>3 DEF Loops
<1>3. QED BY <1>2

(* A block begins in which nothing is declared yet.                        *)
LEMMA OpensPreserved ==
    ASSUME Scoped, NEW g, Opening(g, {}), decls' = decls, visible' = visible, items' = items,
           g.kind # "arm",
           NEW U \in Labels, Links(U), U[size].head = Cur,
           U[size].tail = (IF g.kind = "while" THEN Cur ELSE Unreached),
           NEW B, NEW E, NEW L, Sound(code', Cur, U, size + 1, Len(decls), B, E, L),
           B = Ids(Branching) \cup (IF g.kind \in Branching THEN {size} ELSE {}),
           E = Ids(PastElse) \cup (IF g.kind \in PastElse THEN {size} ELSE {}),
           L = Ids(Looping) \cup (IF g.kind \in Looping THEN {size} ELSE {})
    PROVE  Preserved
<1>1. /\ Depth \in Nat /\ Depth > 0 /\ Depth' = Depth + 1 /\ frames' \in Seq(Frame)
    BY OpeningFrames
<1>2. Len(decls') \in Nat /\ Len(decls) <= Len(decls') /\ decls \in Seq(Binding) /\ Len(decls') = Len(decls)
    BY TypedIs DEF Scoped, Typed
<1>3. \A k : Around(k)' = Around(k)
    BY DEF Around
<1>4. Nesting' /\ Moved' /\ Branches'
    BY <1>2, <1>3, OpeningRest
<1>5. style' = style /\ size' = size + 1 /\ g.before = moved /\ moved' = moved /\ size \in Nat
    BY DEF Opening, Scoped, Typed
<1>6. Bindings' /\ Deferred'
    <2>1. PICK dep \in Nat : dep = Depth + 1
        BY <1>1
    <2>2. Arranged(items, visible, dep) /\ dep - 1 = Depth /\ dep - 1 <= dep /\ Depth' = dep
        BY <1>1, <2>1, AllArranged
    <2>3. \A j \in 1 .. dep - 1 : Loops(j)' = Loops(j)
        BY <2>2, OpeningLoops
    <2>4. QED BY <1>5, <2>2, <2>3, LeaveArranged
<1>7. Typed'
    <2>1. code' \in Seq(Instruction) /\ size' \in Nat
        BY <1>5 DEF Sound
    <2>2. QED BY <1>1, <1>5, <2>1 DEF Scoped, Typed
<1>8. Scoped'
    BY <1>4, <1>6, <1>7 DEF Scoped
<1>9. /\ Links(U)' /\ Reached(Depth)' = Reached(Depth)
      /\ \A kinds : Ids(kinds)' = Ids(kinds) \cup (IF g.kind \in kinds THEN {size} ELSE {})
    <2>1. Cur = Note(Reached(Depth), visible, g.before)
        BY <1>5 DEF Cur
    <2>2. QED BY <1>3, <2>1, OpeningLinks
<1>10. Cur' = Cur
    BY <1>5, <1>9 DEF Cur
<1>11. /\ Ids(Branching)' = B /\ Ids(PastElse)' = E /\ Ids(Looping)' = L
    BY <1>9
<1>12. Sound(code', Cur', U, size', Len(decls'), Ids(Branching)', Ids(PastElse)', Ids(Looping)')
    BY <1>2, <1>5, <1>10, <1>11
<1>13. Compiled(U)'
    BY <1>5, <1>9, <1>12, CompiledNext
<1>14. QED BY <1>8, <1>13 DEF Preserved

(* Bindings that were moved are numbers.                                   *)
LEMMA MovedType == ASSUME Scoped PROVE moved \subseteq Nat
<1>1. Len(decls) \in Nat /\ moved \subseteq 1 .. Len(decls)
    BY TypedIs DEF Scoped, Typed
<1>2. QED BY <1>1

(* A block, a first branch or a loop opens with what is moved at that      *)
(* point.                                                                  *)
LEMMA OpenedIs ==
    ASSUME Scoped, NEW kind \in Kinds \ {"fn", "else", "lastArm", "arm"},
           frames' = Append(frames, Opened(kind, moved)), moved' = moved,
           size' = size + 1, style' = style,
           kind \in Looping => Written({"while", "forever"})
    PROVE  LET g == Opened(kind, moved) IN Opening(g, {}) /\ g.kind = kind
<1> DEFINE g == Opened(kind, moved)
<1>1. moved \subseteq Nat /\ size \in Nat
    BY MovedType DEF Scoped, Typed
<1>2. /\ g.kind = kind /\ g.id = size /\ g.before = moved /\ g.joins = {} /\ g.all = TRUE
      /\ g.returns = FALSE /\ g.breaks = FALSE /\ g.from = 0
    BY DEF Opened
<1>3. g \in Frame
    BY <1>1 DEF Opened, Frame
<1> HIDE DEF g
<1>4. frames' = Append(frames, g)
    BY DEF g
<1>5. Opening(g, {})
    BY <1>2, <1>3, <1>4 DEF Opening
<1>6. QED BY <1>2, <1>5 DEF g

(* if ... {                                                                *)
LEMMA OpenIfStep ==
    ASSUME Scoped, NEW T \in Labels, Compiled(T), OpenIf
    PROVE  Preserved
<1> DEFINE i == I("if", size)
<1>1. /\ size' = size + 1 /\ style' = style /\ decls' = decls /\ visible' = visible /\ items' = items
      /\ frames' = Append(frames, Opened("then", moved)) /\ moved' = moved /\ code' = code \o <<i>>
    BY DEF OpenIf, Writes, NoBinding, Opens, Emit
<1>2. PICK g : Opening(g, {}) /\ g.kind = "then"
    BY <1>1, OpenedIs DEF Kinds, Looping
<1>3. i \in Instruction /\ i.op = "if" /\ i.at = size
    BY <1>1, QuietSizes DEF Instruction, Ops, I
<1> HIDE DEF i
<1>4. PICK U \in Labels :
          /\ Links(U) /\ U[size].head = Cur /\ U[size].tail = Unreached
          /\ Sound(code, Cur, U, size, Len(decls), Ids(Branching), Ids(PastElse), Ids(Looping))
    <2>1. Cur \in Notes /\ Unreached \in Notes
        BY CurType DEF Unreached, Notes
    <2>2. QED BY <1>1, <2>1, QuietSizes, FreshLabel
<1>5. Sound(code \o <<i>>, Cur, U, size + 1, Len(decls), Ids(Branching) \cup {size},
            Ids(PastElse), Ids(Looping))
    BY <1>3, <1>4, FlowsSame, BeginIf
<1>6. /\ Ids(Branching) \cup {size} = Ids(Branching) \cup (IF g.kind \in Branching THEN {size} ELSE {})
      /\ Ids(PastElse) = Ids(PastElse) \cup (IF g.kind \in PastElse THEN {size} ELSE {})
      /\ Ids(Looping) = Ids(Looping) \cup (IF g.kind \in Looping THEN {size} ELSE {})
      /\ g.kind # "arm" /\ U[size].tail = (IF g.kind = "while" THEN Cur ELSE Unreached)
    BY <1>2, <1>4 DEF Branching, PastElse, Looping
<1>7. Sound(code', Cur, U, size + 1, Len(decls), Ids(Branching) \cup {size},
            Ids(PastElse), Ids(Looping))
    BY <1>1, <1>5
<1>8. QED BY <1>1, <1>2, <1>4, <1>6, <1>7, OpensPreserved

(* { ... }                                                                 *)
LEMMA OpenBlockStep ==
    ASSUME Scoped, NEW T \in Labels, Compiled(T), OpenBlock
    PROVE  Preserved
<1>1. /\ size' = size + 1 /\ style' = style /\ decls' = decls /\ visible' = visible /\ items' = items
      /\ frames' = Append(frames, Opened("block", moved)) /\ moved' = moved /\ code' = code
    BY DEF OpenBlock, Writes, NoBinding, Opens
<1>2. PICK g : Opening(g, {}) /\ g.kind = "block"
    BY <1>1, OpenedIs DEF Kinds, Looping
<1>3. PICK U \in Labels :
          /\ Links(U) /\ U[size].head = Cur /\ U[size].tail = Unreached
          /\ Sound(code, Cur, U, size, Len(decls), Ids(Branching), Ids(PastElse), Ids(Looping))
    <2>1. Cur \in Notes /\ Unreached \in Notes
        BY CurType DEF Unreached, Notes
    <2>2. QED BY <1>1, <2>1, QuietSizes, FreshLabel
<1>4. Sound(code', Cur, U, size + 1, Len(decls), Ids(Branching), Ids(PastElse), Ids(Looping))
    <2>1. /\ size + 1 \in Nat /\ size <= size + 1 /\ Len(decls) \in Nat /\ Len(decls) <= Len(decls)
        BY <1>1, QuietSizes, TypedIs
    <2>2. QED BY <1>1, <1>3, <2>1, SoundLater
<1>5. /\ Ids(Branching) = Ids(Branching) \cup (IF g.kind \in Branching THEN {size} ELSE {})
      /\ Ids(PastElse) = Ids(PastElse) \cup (IF g.kind \in PastElse THEN {size} ELSE {})
      /\ Ids(Looping) = Ids(Looping) \cup (IF g.kind \in Looping THEN {size} ELSE {})
      /\ g.kind # "arm" /\ U[size].tail = (IF g.kind = "while" THEN Cur ELSE Unreached)
    BY <1>2, <1>3 DEF Branching, PastElse, Looping
<1>6. QED BY <1>1, <1>2, <1>3, <1>4, <1>5, OpensPreserved

(* while ... {   and   while true {                                        *)
LEMMA OpenWhileStep ==
    ASSUME Scoped, NEW T \in Labels, Compiled(T), NEW kind \in {"while", "forever"}, OpenWhile(kind)
    PROVE  Preserved
<1> DEFINE i == I("loop", size)
           j == I("test", size)
           t == IF kind = "while" THEN Cur ELSE Unreached
<1>1. /\ size' = size + 1 /\ style' = style /\ decls' = decls /\ visible' = visible /\ items' = items
      /\ frames' = Append(frames, Opened(kind, moved)) /\ moved' = moved
      /\ code' = code \o (<<i>> \o (IF kind = "while" THEN <<j>> ELSE << >>))
      /\ Written({"while", "forever"})
    BY DEF OpenWhile, Writes, NoBinding, Opens, Emit, Written
<1>2. PICK g : Opening(g, {}) /\ g.kind = kind
    BY <1>1, OpenedIs DEF Kinds, Looping
<1>3. /\ i \in Instruction /\ i.op = "loop" /\ i.at = size
      /\ j \in Instruction /\ j.op = "test" /\ j.at = size
    BY <1>1, QuietSizes DEF Instruction, Ops, I
<1> HIDE DEF i, j
<1>4. PICK U \in Labels :
          /\ Links(U) /\ U[size].head = Cur /\ U[size].tail = t
          /\ Sound(code, Cur, U, size, Len(decls), Ids(Branching), Ids(PastElse), Ids(Looping))
    <2>1. Cur \in Notes /\ Unreached \in Notes
        BY CurType DEF Unreached, Notes
    <2>2. Cur \in Notes /\ t \in Notes
        BY <2>1
    <2> HIDE DEF t
    <2>3. QED BY <1>1, <2>2, QuietSizes, FreshLabel
<1>5. Sound(code \o <<i>>, Cur, U, size + 1, Len(decls), Ids(Branching),
            Ids(PastElse), Ids(Looping) \cup {size})
    BY <1>3, <1>4, BeginLoop
<1>6. Sound(code', Cur, U, size + 1, Len(decls), Ids(Branching),
            Ids(PastElse), Ids(Looping) \cup {size})
    <2>1. code \in Seq(Instruction) /\ <<i>> \in Seq(Instruction) /\ <<j>> \in Seq(Instruction)
        BY <1>1, <1>3, QuietSizes
    <2>2. CASE kind = "while"
        <3>1. code' = code \o (<<i>> \o <<j>>)
            BY <1>1, <2>2
        <3>2. (code \o <<i>>) \o <<j>> = code \o (<<i>> \o <<j>>)
            <4> DEFINE p == <<i>>
                       q == <<j>>
            <4>1. p \in Seq(Instruction) /\ q \in Seq(Instruction)
                BY <2>1
            <4> HIDE DEF p, q
            <4>2. (code \o p) \o q = code \o (p \o q)
                BY <2>1, <4>1, ConcatAssociative
            <4>3. QED BY <4>2 DEF p, q
        <3>3. Flows(Cur, U[j.at].tail) /\ j.at \in Ids(Looping) \cup {size}
            BY <1>3, <1>4, <2>2, FlowsSame
        <3>4. Sound((code \o <<i>>) \o <<j>>, Cur, U, size + 1, Len(decls), Ids(Branching),
                    Ids(PastElse), Ids(Looping) \cup {size})
            BY <1>3, <1>5, <3>3, LoopTest
        <3>5. QED BY <3>1, <3>2, <3>4
    <2>3. CASE kind # "while"
        <3>1. code' = code \o (<<i>> \o << >>)
            BY <1>1, <2>3
        <3>2. <<i>> \o << >> = <<i>>
            BY <2>1, ConcatEmptySeq
        <3>3. QED BY <1>5, <3>1, <3>2
    <2>4. QED BY <2>2, <2>3
<1>7. /\ Ids(Branching) = Ids(Branching) \cup (IF g.kind \in Branching THEN {size} ELSE {})
      /\ Ids(PastElse) = Ids(PastElse) \cup (IF g.kind \in PastElse THEN {size} ELSE {})
      /\ Ids(Looping) \cup {size} = Ids(Looping) \cup (IF g.kind \in Looping THEN {size} ELSE {})
      /\ g.kind # "arm" /\ U[size].tail = (IF g.kind = "while" THEN Cur ELSE Unreached)
    BY <1>2, <1>4 DEF Branching, PastElse, Looping
<1>8. QED BY <1>1, <1>2, <1>4, <1>6, <1>7, OpensPreserved

(* A match takes what it is about, and an arm binds it anew.               *)
LEMMA FromOne ==
    ASSUME NEW reached \in BOOLEAN, NEW open \in SUBSET Nat, NEW gone, NEW d \in open, d \notin gone,
           NEW new \in Nat, new > 0, \A e \in open : e < new,
           NEW s, NEW T, NEW sz, NEW n, NEW B, NEW E, NEW L,
           Sound(s, Note(reached, open, gone), T, sz, n, B, E, L), n <= new
    PROVE  LET i == [op |-> "from", at |-> new, src |-> d, flag |-> d] IN
           /\ i \in Instruction
           /\ Sound(s \o <<i>>, Note(reached, open \cup {new}, gone \cup {d}), T, sz, new, B, E, L)
<1> DEFINE i == [op |-> "from", at |-> new, src |-> d, flag |-> d]
           v == Note(reached, open, gone)
           w == Note(reached, open \cup {new}, gone \cup {d})
<1>1. i \in Instruction /\ i.op = "from" /\ i.at = new /\ i.src = d /\ i.flag = d /\ i.op \notin Controls
    BY DEF Instruction, Ops, Controls
<1>2. w \in Notes
    BY NoteType
<1>3. /\ v.reached => d \in v.whole /\ \A e \in v.open : e < new
      /\ v.reached => Flows(Known(v.open \cup {new}, (v.whole \ {d}) \cup {new}), w)
    BY DEF Note, Known, Unreached, Flows
<1>4. sz \in Nat /\ sz <= sz /\ n \in Nat /\ new \in 1 .. new
    <2>1. sz \in Nat /\ n \in Nat
        BY DEF Sound
    <2>2. QED BY <2>1
<1>5. Sound(s, v, T, sz, n, B, E, L)
    OBVIOUS
<1> HIDE DEF i, v, w
<1>6. Rule(i, v, w, T)
    BY <1>1, <1>3 DEF Rule
<1>7. Sound(s \o <<i>>, w, T, sz, new, B, E, L)
    BY <1>1, <1>2, <1>4, <1>5, <1>6, StraightOne
<1>8. QED BY <1>1, <1>7 DEF i, w

(* The first arm of a match opens with its subject moved.                  *)
LEMMA ArmIs ==
    ASSUME Scoped, NEW d \in visible \ moved, frames' = Append(frames, [Opened("arm", moved \cup {d}) EXCEPT !.from = d]),
           moved' = moved \cup {d}, size' = size + 1, style' = style, Written(EndingForms),
           \A k \in 1 .. Depth : InLoop(frames[k]) => d \notin Around(k)
    PROVE  \E g : /\ Opening(g, {d}) /\ g.kind = "arm" /\ g.from = d
                  /\ g.before \ {g.from} = moved
<1> DEFINE f == Opened("arm", moved \cup {d})
           g == [f EXCEPT !.from = d]
<1>1. moved \subseteq Nat /\ size \in Nat /\ visible \subseteq Nat
    BY MovedType, TypedIs DEF Scoped, Typed
<1>2. d \in Nat /\ moved \cup {d} \in SUBSET Nat
    BY <1>1
<1>3. /\ f \in Frame /\ f.kind = "arm" /\ f.id = size /\ f.before = moved \cup {d} /\ f.joins = {}
      /\ f.all = TRUE /\ f.returns = FALSE /\ f.breaks = FALSE
    BY <1>1, <1>2 DEF Opened, Frame, Kinds
<1> HIDE DEF f
<1>4. /\ g \in Frame /\ g.kind = "arm" /\ g.id = size /\ g.before = moved \cup {d} /\ g.joins = {}
      /\ g.all = TRUE /\ g.returns = FALSE /\ g.breaks = FALSE /\ g.from = d
    BY <1>2, <1>3 DEF Frame
<1> HIDE DEF g
<1>5. frames' = Append(frames, g)
    BY DEF f, g
<1>6. {d} \in SUBSET visible /\ g.from \in visible \cap g.before /\ g.before \ {g.from} = moved
    BY <1>4
<1>7. Opening(g, {d})
    BY <1>4, <1>5, <1>6 DEF Opening, Looping
<1>8. QED BY <1>4, <1>6, <1>7

(* Two instructions are appended one by one.                               *)
LEMMA TwoMore ==
    ASSUME NEW s \in Seq(Instruction), NEW i \in Instruction, NEW j \in Instruction
    PROVE  (s \o <<i>>) \o <<j>> = s \o <<i, j>>
<1> DEFINE p == <<i>>
           q == <<j>>
<1>1. p \in Seq(Instruction) /\ q \in Seq(Instruction)
    OBVIOUS
<1>2. p \o q = <<i, j>>
    <2>1. /\ p \o q \in Seq(Instruction) /\ Len(p \o q) = Len(p) + Len(q)
          /\ \A k \in 1 .. Len(p) + Len(q) : (p \o q)[k] = IF k <= Len(p) THEN p[k] ELSE q[k - Len(p)]
        BY <1>1, ConcatProperties
    <2>2. Len(p) = 1 /\ Len(q) = 1 /\ p[1] = i /\ q[1] = j
        OBVIOUS
    <2> HIDE DEF p, q
    <2>3. Len(p \o q) = 2 /\ (p \o q)[1] = i /\ (p \o q)[2] = j
        BY <2>1, <2>2
    <2>4. <<i, j>> \in Seq(Instruction) /\ Len(<<i, j>>) = 2 /\ <<i, j>>[1] = i /\ <<i, j>>[2] = j
        OBVIOUS
    <2> DEFINE r == p \o q
               t == <<i, j>>
    <2>5. \A k \in 1 .. 2 : k = 1 \/ k = 2
        OBVIOUS
    <2>6. r \in Seq(Instruction) /\ t \in Seq(Instruction) /\ Len(r) = 2 /\ Len(t) = 2
          /\ r[1] = t[1] /\ r[2] = t[2]
        BY <2>1, <2>3, <2>4
    <2> HIDE DEF r, t
    <2>7. r = t
        BY <2>5, <2>6, SeqEqual
    <2>8. QED BY <2>7 DEF r, t
<1> HIDE DEF p, q
<1>3. (s \o p) \o q = s \o (p \o q)
    BY <1>1, ConcatAssociative
<1>4. QED BY <1>2, <1>3 DEF p, q

(* match move x { A(y) => ...                                              *)
LEMMA OpenMatchStep ==
    ASSUME Scoped, NEW T \in Labels, Compiled(T), ~Shadowing, NEW x \in Names, NEW y \in Names,
           OpenMatch(x, y)
    PROVE  Preserved
<1>1. PICK new : new = Len(decls) + 1
    OBVIOUS
<1>2. PICK d : d = Resolve(x)
    OBVIOUS
<1>3. PICK dep \in Nat : dep = Depth + 1
    BY TypedIs DEF Scoped
<1>4. PICK V : V = Around(dep)
    OBVIOUS
<1>5. PICK F : F = Kept(dep)
    OBVIOUS
<1> DEFINE i == I("if", size)
           j == [op |-> "from", at |-> new, src |-> d, flag |-> d]
<1>6. /\ size' = size + 1 /\ style' = style /\ moved' = moved \cup {d}
      /\ MayMove(x) /\ MayUse(x) /\ Written(EndingForms)
      /\ frames' = Append(frames, [Opened("arm", moved \cup {d}) EXCEPT !.from = d])
      /\ Payload(y, frames') /\ code' = code \o <<i, j>>
    BY <1>1, <1>2 DEF OpenMatch, Writes, Emit, Consumed, Written, EndingForms, MayMove
<1>7. d \in visible \ moved /\ \A k \in 1 .. Depth : InLoop(frames[k]) => d \notin Around(k)
    BY <1>2, <1>6, MayUseIs, MayMoveIs
<1>8. PICK g : /\ Opening(g, {d}) /\ g.kind = "arm" /\ g.from = d
               /\ g.before \ {g.from} = moved
    BY <1>6, <1>7, ArmIs
<1>9. /\ Depth \in Nat /\ Depth > 0 /\ Depth' = dep /\ dep - 1 = Depth /\ dep > 0 /\ dep - 1 <= dep
      /\ frames' \in Seq(Frame) /\ Len(frames') = dep
      /\ \A k \in 1 .. Depth : frames'[k] = frames[k]
      /\ frames'[dep] = g
    BY <1>3, <1>8, OpeningFrames DEF Depth
<1>10. PICK l \in Nat : l = Loops(Depth)
    BY <1>9, LoopsType
<1>11. /\ decls' = Append(decls, [name |-> y, depth |-> dep, loop |-> l])
       /\ items' = Append(F, [op |-> "drop", name |-> y, depth |-> dep])
       /\ visible' = V \cup {new}
       /\ \A e \in V : decls[e].name # y
    BY <1>1, <1>4, <1>5, <1>6, <1>9, <1>10 DEF Payload, Around, LoopDepth, Loops
<1>12. Loops(dep)' = l
    <2>1. \A k \in 1 .. dep : k \in 1 .. Depth \/ k = dep
        BY <1>9
    <2>2. \A k \in 1 .. Depth : k \in 1 .. dep
        BY <1>9
    <2>3. ~InLoop(frames[dep])'
        BY <1>8, <1>9 DEF InLoop
    <2>4. \A k \in 1 .. Depth : InLoop(frames[k])' <=> InLoop(frames[k])
        BY <1>9 DEF InLoop
    <2>5. {k \in 1 .. dep : InLoop(frames[k])'} = {k \in 1 .. Depth : InLoop(frames[k])}
        BY <2>1, <2>2, <2>3, <2>4
    <2>6. QED BY <1>10, <2>5 DEF Loops
<1>13. V = visible
    <2>1. \A e \in visible : decls[e].depth \in 1 .. Depth
        BY DEF Scoped, Bindings
    <2>2. \A e \in visible : decls[e].depth < dep
        BY <1>9, <2>1
    <2>3. QED BY <1>4, <2>2 DEF Around
<1>14. DeclaredIn(F, V, dep, y, dep, new, l)
    <2>1. Arranged(F, V, dep)
        BY <1>4, <1>5, <1>9, KeptArranged
    <2>2. \A k \in 1 .. dep - 1 : Loops(k)' = Loops(k)
        BY <1>8, <1>9, OpeningLoops
    <2>3. QED BY <1>1, <1>6, <1>9, <1>11, <1>12, <2>1, <2>2 DEF DeclaredIn
<1>15. /\ Bindings' /\ Deferred'
       /\ decls' \in Seq(Binding) /\ Len(decls') = new /\ new \in Nat
       /\ items' \in Seq(Cleanups) /\ visible' \subseteq 1 .. Len(decls')
       /\ \A e \in visible : decls'[e] = decls[e] /\ e < new
       /\ decls'[new].depth = dep
    BY <1>14, DeclareArranged
<1>16. ASSUME NEW k \in 1 .. Depth + 1 PROVE Around(k)' = Around(k)
    <2>1. ~(decls'[new].depth < k)
        BY <1>3, <1>9, <1>15
    <2>2. visible' = visible \cup {new}
        BY <1>11, <1>13
    <2>3. QED BY <1>15, <2>1, <2>2 DEF Around
<1>17. Len(decls') \in Nat /\ Len(decls) <= Len(decls') /\ Len(decls) \in Nat /\ Len(decls) <= new /\ new > 0
    <2>1. Len(decls) \in Nat
        BY TypedIs DEF Scoped
    <2>2. QED BY <1>1, <1>15, <2>1
<1>18. Nesting' /\ Moved' /\ Branches'
    BY <1>8, <1>16, <1>17, OpeningRest
<1>19. /\ i \in Instruction /\ i.op = "if" /\ i.at = size /\ size \in Nat /\ size' \in Nat
       /\ code \in Seq(Instruction) /\ Reached(Depth) \in BOOLEAN /\ visible \in SUBSET Nat
    BY <1>6, QuietSizes, TypedIs DEF Instruction, Ops, I
<1> HIDE DEF i
<1>20. PICK U \in Labels :
          /\ Links(U) /\ U[size].head = Cur /\ U[size].tail = Unreached
          /\ Sound(code, Cur, U, size, Len(decls), Ids(Branching), Ids(PastElse), Ids(Looping))
    <2>1. Cur \in Notes /\ Unreached \in Notes
        BY CurType DEF Unreached, Notes
    <2>2. QED BY <1>6, <2>1, QuietSizes, FreshLabel
<1>21. Sound(code \o <<i>>, Note(Reached(Depth), visible, moved), U, size + 1, Len(decls),
             Ids(Branching) \cup {size}, Ids(PastElse), Ids(Looping))
    <2>1. Sound(code \o <<i>>, Cur, U, size + 1, Len(decls),
                Ids(Branching) \cup {size}, Ids(PastElse), Ids(Looping))
        BY <1>19, <1>20, FlowsSame, BeginIf
    <2>2. QED BY <2>1 DEF Cur
<1>22. /\ j \in Instruction
       /\ Sound((code \o <<i>>) \o <<j>>, Note(Reached(Depth), visible \cup {new}, moved \cup {d}),
                U, size + 1, new, Ids(Branching) \cup {size}, Ids(PastElse), Ids(Looping))
    BY <1>7, <1>15, <1>17, <1>19, <1>21, FromOne
<1> HIDE DEF j
<1>23. (code \o <<i>>) \o <<j>> = code'
    <2>1. i \in Instruction /\ j \in Instruction /\ code \in Seq(Instruction)
        BY <1>19, <1>22
    <2>2. QED BY <1>6, <2>1, TwoMore
<1>24. Typed'
    <2>1. code' \in Seq(Instruction)
        BY <1>22, <1>23 DEF Sound
    <2>2. moved' \subseteq 1 .. Len(decls')
        <3>1. \A e \in 1 .. Len(decls) : e \in 1 .. Len(decls')
            BY <1>17
        <3>2. moved \subseteq 1 .. Len(decls) /\ d \in 1 .. Len(decls)
            BY <1>7 DEF Scoped, Typed
        <3>3. QED BY <1>6, <3>1, <3>2
    <2>3. style' \in Styles
        BY <1>6 DEF Scoped, Typed
    <2>4. QED BY <1>9, <1>15, <1>19, <2>1, <2>2, <2>3 DEF Typed
<1>25. Scoped'
    BY <1>15, <1>18, <1>24 DEF Scoped
<1>26. /\ Links(U)' /\ Reached(Depth)' = Reached(Depth)
       /\ \A kinds : Ids(kinds)' = Ids(kinds) \cup (IF g.kind \in kinds THEN {size} ELSE {})
    <2>1. U[size].head = Note(Reached(Depth), visible,
                              IF g.kind = "arm" THEN g.before \ {g.from} ELSE g.before)
        BY <1>8, <1>20 DEF Cur
    <2>2. U[size].tail = IF g.kind = "while" THEN Note(Reached(Depth), visible, g.before) ELSE Unreached
        BY <1>8, <1>20
    <2>3. QED BY <1>8, <1>16, <1>20, <2>1, <2>2, OpeningLinks
<1>27. Cur' = Note(Reached(Depth), visible \cup {new}, moved \cup {d})
    BY <1>6, <1>11, <1>13, <1>26 DEF Cur
<1>28. /\ Ids(Branching)' = Ids(Branching) \cup {size} /\ Ids(PastElse)' = Ids(PastElse)
       /\ Ids(Looping)' = Ids(Looping)
    BY <1>8, <1>26 DEF Branching, PastElse, Looping
<1>29. Sound(code', Cur', U, size', Len(decls'), Ids(Branching)', Ids(PastElse)', Ids(Looping)')
    BY <1>6, <1>15, <1>22, <1>23, <1>27, <1>28
<1>30. Compiled(U)'
    BY <1>6, <1>26, <1>29, CompiledNext
<1>31. QED BY <1>25, <1>30 DEF Preserved

-----------------------------------------------------------------------------
(* Statements that end a branch. *)

(* The first branch of the innermost block ends and the second begins.     *)
Turning(kind) ==
    /\ style' = style /\ size' = size /\ kind \in PastElse /\ InFrame({"then", "arm"})
    /\ frames' = [frames EXCEPT ![Depth] = NextBranch(kind)]
    /\ moved' = Top.before

(* Only the innermost frame changes.                                       *)
LEMMA TurningFrames ==
    ASSUME Scoped, NEW kind, Turning(kind)
    PROVE  /\ Depth \in Nat /\ Depth > 1 /\ Depth' = Depth /\ frames' \in Seq(Frame)
           /\ Top = frames[Depth] /\ Top \in Frame /\ Top.kind \in {"then", "arm"} /\ Top.joins = {}
           /\ \A k \in 1 .. Depth : k # Depth => frames'[k] = frames[k]
           /\ LET g == frames'[Depth] IN
              /\ g.kind = kind /\ g.id = Top.id /\ g.before = Top.before /\ g.all = Top.returns
              /\ g.joins = (IF Top.returns THEN {} ELSE {moved})
              /\ g.returns = FALSE /\ g.from = Top.from
<1> DEFINE f == Top
           J == Joins(Top)
           g == NextBranch(kind)
<1>1. Depth \in Nat /\ Depth > 0 /\ frames \in Seq(Frame) /\ f = frames[Depth] /\ Depth \in 1 .. Depth
    BY TypedIs DEF Scoped, Typed, InFrame, Turning, Top
<1>2. f \in Frame /\ f.kind \in {"then", "arm"} /\ (f.kind = "fn" <=> Depth = 1)
    BY <1>1, TypedIs DEF Scoped, Nesting, InFrame, Turning, Top
<1>3. f.joins = {} /\ f.all
    BY <1>1, <1>2 DEF Scoped, Branches
<1>4. moved \in SUBSET Nat
    BY MovedType
<1>5. J = (IF f.returns THEN {} ELSE {moved}) /\ J \in SUBSET SUBSET Nat
    BY <1>3, <1>4 DEF Joins
<1>6. kind \in Kinds
    BY DEF Turning, PastElse, Kinds
<1>7. f.all = TRUE /\ f.returns \in BOOLEAN
    BY <1>2, <1>3 DEF Frame
<1>8. g = [f EXCEPT !.kind = kind, !.joins = J, !.all = f.all /\ f.returns, !.returns = FALSE]
    BY DEF NextBranch
<1> HIDE DEF f, J, g
<1>9. /\ g \in Frame /\ g.kind = kind /\ g.id = f.id /\ g.before = f.before /\ g.all = f.returns
      /\ g.joins = J /\ g.returns = FALSE /\ g.from = f.from
    BY <1>2, <1>5, <1>6, <1>7, <1>8 DEF Frame
<1>10. frames' = [frames EXCEPT ![Depth] = g]
    BY DEF Turning, g
<1>11. /\ frames' \in Seq(Frame) /\ Len(frames') = Len(frames)
       /\ \A k \in 1 .. Len(frames) : frames'[k] = IF k = Depth THEN g ELSE frames[k]
    BY <1>1, <1>9, <1>10, FrameSet DEF Depth
<1>12. Depth' = Depth
    BY <1>11 DEF Depth
<1>13. frames'[Depth] = g /\ \A k \in 1 .. Depth : k # Depth => frames'[k] = frames[k]
    BY <1>1, <1>11 DEF Depth
<1>14. Depth > 1
    BY <1>1, <1>2
<1>15. QED BY <1>1, <1>2, <1>3, <1>5, <1>9, <1>11, <1>12, <1>13, <1>14 DEF f

(* Going on to the next branch keeps the frames in order.                  *)
LEMMA TurningRest ==
    ASSUME Scoped, NEW kind, Turning(kind),
           Len(decls') \in Nat, Len(decls) <= Len(decls'),
           \A k \in 1 .. Depth : Around(k)' = Around(k)
    PROVE  Nesting' /\ Moved' /\ Branches'
<1>1. PICK n \in Nat : n = Depth
    BY TurningFrames
<1> DEFINE g == frames'[n]
<1>2. /\ n > 1 /\ Depth' = n /\ Depth = n /\ n \in 1 .. n /\ n \in 2 .. n
      /\ \A k \in 1 .. n : k # n => frames'[k] = frames[k]
      /\ frames[n].kind \in {"then", "arm"} /\ frames[n].joins = {}
    <2>1. /\ n > 1 /\ Depth' = n /\ Depth = n
          /\ \A k \in 1 .. n : k # n => frames'[k] = frames[k]
          /\ frames[n].kind \in {"then", "arm"} /\ frames[n].joins = {}
        BY <1>1, TurningFrames
    <2>2. n \in 1 .. n /\ n \in 2 .. n
        BY <2>1
    <2>3. QED BY <2>1, <2>2
<1>3. /\ g.kind \in {"else", "lastArm"} /\ g.id = frames[n].id /\ g.before = frames[n].before
      /\ g.all = frames[n].returns /\ g.joins = (IF frames[n].returns THEN {} ELSE {moved})
    BY <1>1, TurningFrames DEF Turning, PastElse
<1>4. moved' = frames[n].before /\ size' = size /\ style' = style
    BY <1>1 DEF Turning, Top
<1> HIDE DEF g
<1>5. \A k \in 1 .. n : frames'[k].before = frames[k].before /\ frames'[k].id = frames[k].id
    BY <1>2, <1>3 DEF g
<1>6. \A k \in 2 .. n : k \in 1 .. n
    BY <1>2
<1>7. \A k \in 1 .. n : Around(k)' = Around(k)
    BY <1>2
<1>8. Nesting'
    <2>1. \A k \in 1 .. n : frames'[k].kind = "fn" <=> k = 1
        <3>1. \A k \in 1 .. n : frames[k].kind = "fn" <=> k = 1
            BY <1>2 DEF Scoped, Nesting
        <3>2. n # 1 /\ frames'[n].kind # "fn"
            <4>1. n # 1
                BY <1>2
            <4>2. QED BY <1>3, <4>1 DEF g
        <3>3. QED BY <1>2, <3>1, <3>2
    <2>2. \A k \in 2 .. n : frames'[k].id < size'
        BY <1>2, <1>4, <1>5, <1>6 DEF Scoped, Nesting
    <2>3. \A j, k \in 2 .. n : j < k => frames'[j].id < frames'[k].id
        BY <1>2, <1>5, <1>6 DEF Scoped, Nesting
    <2>4. Depth' > 0
        BY <1>2
    <2>5. QED BY <1>2, <2>1, <2>2, <2>3, <2>4 DEF Nesting
<1>9. Moved'
    <2>1. ASSUME NEW k \in 1 .. n PROVE frames'[k].before \subseteq moved'
        <3>1. CASE k = n
            BY <1>2, <1>4, <1>5, <3>1
        <3>2. CASE k # n
            <4>1. k < n
                BY <1>2, <3>2
            <4>2. frames[k].before \subseteq frames[n].before
                BY <1>2, <4>1 DEF Scoped, Moved
            <4>3. QED BY <1>4, <1>5, <4>2
        <3>3. QED BY <3>1, <3>2
    <2>2. ASSUME NEW j \in 1 .. n, NEW k \in 1 .. n, j < k
          PROVE  frames'[j].before \subseteq frames'[k].before
        <3>1. frames[j].before \subseteq frames[k].before
            BY <1>2, <2>2 DEF Scoped, Moved
        <3>2. QED BY <1>5, <3>1
    <2>3. ASSUME NEW k \in 1 .. n, NEW m \in frames'[k].joins
          PROVE  frames'[k].before \subseteq m /\ m \subseteq 1 .. Len(decls')
        <3>1. frames[k].before \subseteq m /\ m \subseteq 1 .. Len(decls)
            <4>1. CASE k = n
                <5>1. m = moved
                    BY <1>3, <2>3, <4>1 DEF g
                <5>2. QED BY <1>2, <4>1, <5>1 DEF Scoped, Moved, Typed
            <4>2. CASE k # n
                <5>1. m \in frames[k].joins
                    BY <1>2, <2>3, <4>2
                <5>2. QED BY <1>2, <5>1 DEF Scoped, Moved
            <4>3. QED BY <4>1, <4>2
        <3>2. \A e \in 1 .. Len(decls) : e \in 1 .. Len(decls')
            BY TypedIs DEF Scoped
        <3>3. QED BY <1>5, <3>1, <3>2
    <2>4. ASSUME NEW k \in 1 .. n, InLoop(frames[k])', NEW d \in Around(k)' \ frames'[k].before
          PROVE  /\ d \notin moved'
                 /\ \A j \in k + 1 .. n :
                        d \notin frames'[j].before /\ \A m \in frames'[j].joins : d \notin m
        <3>1. k # n
            BY <1>3, <2>4 DEF g, InLoop
        <3>2. InLoop(frames[k]) /\ d \in Around(k) \ frames[k].before /\ k < n
            BY <1>2, <1>5, <1>7, <2>4, <3>1 DEF InLoop
        <3>3. /\ d \notin moved
              /\ \A j \in k + 1 .. n :
                     d \notin frames[j].before /\ \A m \in frames[j].joins : d \notin m
            BY <1>2, <3>2 DEF Scoped, Moved
        <3>4. n \in k + 1 .. n
            BY <1>2, <3>2
        <3>5. d \notin moved'
            BY <1>4, <3>3, <3>4
        <3>6. ASSUME NEW j \in k + 1 .. n
              PROVE  d \notin frames'[j].before /\ \A m \in frames'[j].joins : d \notin m
            <4>1. j \in 1 .. n
                BY <1>2
            <4>2. CASE j = n
                BY <1>3, <3>3, <4>2 DEF g
            <4>3. CASE j # n
                BY <1>2, <3>3, <4>1, <4>3
            <4>4. QED BY <4>2, <4>3
        <3>7. QED BY <3>5, <3>6
    <2>5. QED BY <1>2, <2>1, <2>2, <2>3, <2>4 DEF Moved
<1>10. Branches'
    <2>1. ASSUME NEW k \in 1 .. n
          PROVE  /\ frames'[k].kind \in {"then", "arm"} => frames'[k].joins = {} /\ frames'[k].all
                 /\ frames'[k].kind \in {"else", "lastArm"} => (frames'[k].joins = {} <=> frames'[k].all)
        <3>1. CASE k = n
            <4>1. frames[n].returns \in BOOLEAN
                BY <1>2, TypedIs DEF Scoped, Frame
            <4>2. QED BY <1>3, <3>1, <4>1 DEF g
        <3>2. CASE k # n
            BY <1>2, <3>2 DEF Scoped, Branches
        <3>3. QED BY <3>1, <3>2
    <2>2. ASSUME NEW k \in 1 .. n, frames'[k].kind = "arm"
          PROVE  frames'[k].from \in Around(k)' \cap frames'[k].before
        <3>1. k # n
            BY <1>3, <2>2 DEF g
        <3>2. QED BY <1>2, <1>7, <2>2, <3>1 DEF Scoped, Branches
    <2>3. ASSUME NEW k \in 1 .. n, InLoop(frames[k])' PROVE Written({"while", "forever"})'
        <3>1. k # n
            BY <1>3, <2>3 DEF g, InLoop
        <3>2. InLoop(frames[k])
            BY <1>2, <2>3, <3>1 DEF InLoop
        <3>3. QED BY <1>2, <1>4, <3>2 DEF Scoped, Branches, Written
    <2>4. ASSUME ~Written(EndingForms)'
          PROVE  moved' = {} /\ \A k \in 1 .. n :
                     frames'[k].before = {} /\ frames'[k].joins \subseteq {{}}
        <3>1. ~Written(EndingForms)
            BY <1>4, <2>4 DEF Written
        <3>2. moved = {} /\ \A k \in 1 .. n : frames[k].before = {} /\ frames[k].joins \subseteq {{}}
            BY <1>2, <3>1 DEF Scoped, Branches
        <3>3. g.joins \subseteq {{}}
            BY <1>3, <3>2
        <3>4. ASSUME NEW k \in 1 .. n PROVE frames'[k].joins \subseteq {{}}
            <4>1. CASE k = n
                BY <3>3, <4>1 DEF g
            <4>2. CASE k # n
                BY <1>2, <3>2, <4>2
            <4>3. QED BY <4>1, <4>2
        <3>5. QED BY <1>2, <1>4, <1>5, <3>2, <3>4
    <2>5. QED BY <1>2, <2>1, <2>2, <2>3, <2>4 DEF Branches
<1>11. QED BY <1>8, <1>9, <1>10

(* No loop begins or ends.                                                 *)
LEMMA TurningLoops ==
    ASSUME Scoped, NEW kind, Turning(kind)
    PROVE  \A j \in 1 .. Depth : Loops(j)' = Loops(j)
<1>1. PICK n \in Nat : n = Depth
    BY TurningFrames
<1>2. ASSUME NEW j \in 1 .. n PROVE Loops(j)' = Loops(j)
    <2>1. ASSUME NEW i \in 1 .. j PROVE InLoop(frames[i])' <=> InLoop(frames[i])
        <3>1. i \in 1 .. n
            OBVIOUS
        <3>2. CASE i # n
            BY <1>1, <3>1, <3>2, TurningFrames DEF InLoop
        <3>3. CASE i = n
            BY <1>1, <3>3, TurningFrames DEF InLoop, Turning, PastElse
        <3>4. QED BY <3>2, <3>3
    <2>2. {i \in 1 .. j : InLoop(frames[i])'} = {i \in 1 .. j : InLoop(frames[i])}
        BY <2>1
    <2>3. QED BY <2>2 DEF Loops
<1>3. QED BY <1>1, <1>2

(* What the second branch begins with, and what the other blocks keep.     *)
LEMMA TurningLinks ==
    ASSUME Scoped, NEW kind, Turning(kind), \A k \in 1 .. Depth : Around(k)' = Around(k),
           NEW T, Links(T), NEW U, \A a \in Nat : a # Top.id => U[a] = T[a],
           U[Top.id].tail = Note(Reached(Depth - 1) /\ ~Top.returns, Around(Depth), moved)
    PROVE  /\ Links(U)' /\ Reached(Depth)' = Reached(Depth - 1)
           /\ Ids(Branching)' = Ids(Branching) /\ Ids(PastElse)' = Ids(PastElse) \cup {Top.id}
           /\ Ids(Looping)' = Ids(Looping)
<1>1. PICK n \in Nat : n = Depth
    BY TurningFrames
<1> DEFINE g == frames'[n]
           f == frames[n]
<1>2. /\ n > 1 /\ Depth' = n /\ Depth = n /\ Top = f
      /\ \A k \in 1 .. n : k # n => frames'[k] = frames[k]
      /\ f.kind \in {"then", "arm"} /\ f \in Frame /\ f.returns \in BOOLEAN
    BY <1>1, TurningFrames DEF Frame
<1>3. /\ g.kind \in {"else", "lastArm"} /\ g.id = f.id
      /\ g.joins = (IF f.returns THEN {} ELSE {moved}) /\ g.returns = FALSE
    BY <1>1, TurningFrames DEF Turning, PastElse
<1>4. n \in 1 .. n /\ n \in 2 .. n /\ \A k \in 2 .. n : k \in 1 .. n /\ k \in Nat
    BY <1>2
<1> HIDE DEF g, f
<1>5. ASSUME NEW j \in 0 .. n - 1 PROVE Reached(j)' = Reached(j)
    <2>1. \A i \in 1 .. j : i \in 1 .. n /\ i # n
        BY <1>2
    <2>2. QED BY <1>2, <2>1 DEF Reached
<1>6. Reached(Depth)' = Reached(Depth - 1)
    <2>1. Reached(Depth)' = (\A i \in 1 .. n : ~frames'[i].returns)
        BY <1>2 DEF Reached
    <2>2. \A i \in 1 .. n : i \in 1 .. n - 1 \/ i = n
        BY <1>2
    <2>3. \A i \in 1 .. n - 1 : i \in 1 .. n /\ i # n
        BY <1>2
    <2>4. Reached(Depth - 1) = (\A i \in 1 .. n - 1 : ~frames[i].returns)
        BY <1>2 DEF Reached
    <2>5. ~frames'[n].returns
        BY <1>3 DEF g
    <2>6. QED BY <1>2, <2>1, <2>2, <2>3, <2>4, <2>5
<1>7. ASSUME NEW k \in 2 .. n, k # n
      PROVE  /\ frames'[k].kind \in {"then", "arm"} \cup Looping => U[frames'[k].id].head = HeadNote(k)'
             /\ frames'[k].kind # "block" => U[frames'[k].id].tail = TailNote(k)'
    <2>1. frames'[k] = frames[k] /\ Around(k)' = Around(k) /\ Reached(k - 1)' = Reached(k - 1)
        <3>1. k - 1 \in 0 .. n - 1
            BY <1>2
        <3>2. QED BY <1>2, <1>4, <1>5, <1>7, <3>1
    <2>2. U[frames[k].id] = T[frames[k].id]
        <3>1. frames[k].id # f.id
            BY <1>2, <1>4, <1>7, IdsDiffer DEF f
        <3>2. frames[k].id \in Nat
            BY <1>2, <1>4, TypedIs DEF Scoped, Frame
        <3>3. QED BY <1>2, <3>1, <3>2
    <2>3. InLoop(frames[k])' <=> InLoop(frames[k])
        BY <2>1 DEF InLoop
    <2>4. HeadNote(k)' = HeadNote(k)
        BY <2>1 DEF HeadNote
    <2>5. TailNote(k)' = TailNote(k)
        BY <2>1, <2>3 DEF TailNote
    <2>6. QED BY <1>2, <2>1, <2>2, <2>4, <2>5 DEF Links
<1>8. U[g.id].tail = TailNote(n)' /\ g.kind \notin {"then", "arm"} \cup Looping
    <2>1. Around(n)' = Around(n) /\ Reached(n - 1)' = Reached(n - 1)
        <3>1. n - 1 \in 0 .. n - 1
            BY <1>2
        <3>2. QED BY <1>2, <1>4, <1>5, <3>1
    <2>2. TailNote(n)' = Note(Reached(n - 1) /\ g.joins # {}, Around(n), UNION g.joins)
        BY <1>3, <2>1 DEF TailNote, InLoop, g
    <2>3. U[g.id].tail = Note(Reached(n - 1) /\ ~f.returns, Around(n), moved)
        BY <1>2, <1>3
    <2>4. CASE f.returns
        <3>1. (Reached(n - 1) /\ g.joins # {}) = FALSE /\ (Reached(n - 1) /\ ~f.returns) = FALSE
            BY <1>3, <2>4
        <3>2. \A v, w : Note(FALSE, v, w) = Unreached
            BY DEF Note
        <3>3. U[g.id].tail = TailNote(n)'
            BY <2>2, <2>3, <3>1, <3>2
        <3>4. QED BY <1>3, <3>3 DEF Looping
    <2>5. CASE ~f.returns
        <3>1. g.joins = {moved} /\ UNION g.joins = moved /\ g.joins # {}
            BY <1>3, <2>5
        <3>2. (Reached(n - 1) /\ g.joins # {}) = (Reached(n - 1) /\ ~f.returns)
            BY <2>5, <3>1
        <3>3. U[g.id].tail = TailNote(n)'
            BY <2>2, <2>3, <3>1, <3>2
        <3>4. QED BY <1>3, <3>3 DEF Looping
    <2>6. QED BY <2>4, <2>5
<1>9. Links(U)'
    BY <1>2, <1>7, <1>8 DEF Links, g
<1>10. ASSUME NEW kinds, (g.kind \in kinds) <=> (f.kind \in kinds)
       PROVE  Ids(kinds)' = Ids(kinds)
    <2>1. \A k \in 2 .. n : /\ frames'[k].kind \in kinds <=> frames[k].kind \in kinds
                            /\ frames'[k].id = frames[k].id
        BY <1>2, <1>3, <1>4, <1>10 DEF f, g
    <2>2. {k \in 2 .. n : frames'[k].kind \in kinds} = {k \in 2 .. n : frames[k].kind \in kinds}
        BY <2>1
    <2>3. \A k \in {j \in 2 .. n : frames[j].kind \in kinds} : frames'[k].id = frames[k].id
        BY <2>1
    <2>4. QED BY <1>2, <2>2, <2>3 DEF Ids
<1>11. Ids(Branching)' = Ids(Branching) /\ Ids(Looping)' = Ids(Looping)
    BY <1>2, <1>3, <1>10 DEF Branching, Looping
<1>12. Ids(PastElse)' = Ids(PastElse) \cup {f.id}
    <2>1. ASSUME NEW a \in Ids(PastElse)' PROVE a \in Ids(PastElse) \cup {f.id}
        <3>1. PICK k \in 2 .. n : frames'[k].kind \in PastElse /\ a = frames'[k].id
            BY <1>2, <2>1 DEF Ids
        <3>2. CASE k = n
            BY <1>3, <3>1, <3>2 DEF g
        <3>3. CASE k # n
            BY <1>2, <1>4, <3>1, <3>3 DEF Ids
        <3>4. QED BY <3>2, <3>3
    <2>2. ASSUME NEW a \in Ids(PastElse) PROVE a \in Ids(PastElse)'
        <3>1. PICK k \in 2 .. n : frames[k].kind \in PastElse /\ a = frames[k].id
            BY <1>2, <2>2 DEF Ids
        <3>2. k # n
            BY <1>2, <3>1 DEF PastElse, f
        <3>3. QED BY <1>2, <1>4, <3>1, <3>2 DEF Ids
    <2>3. f.id \in Ids(PastElse)'
        <3>1. frames'[n].kind \in PastElse /\ frames'[n].id = f.id
            BY <1>3 DEF g, PastElse
        <3>2. QED BY <1>2, <1>4, <3>1 DEF Ids
    <2>4. QED BY <2>1, <2>2, <2>3
<1>13. QED BY <1>2, <1>6, <1>9, <1>11, <1>12

(* A frame's label can be changed at its tail.                             *)
LEMMA RaiseTail ==
    ASSUME NEW s, NEW v, NEW T, NEW sz, NEW n, NEW B, NEW E, NEW L,
           Sound(s, v, T, sz, n, B, E, L), NEW a \in B \cup L, NEW t \in Notes,
           Flows(T[a].tail, t)
    PROVE  \E U \in Labels :
              /\ Sound(s, v, U, sz, n, B, E, L) /\ U[a].head = T[a].head /\ U[a].tail = t
              /\ \A b \in Nat : b # a => U[b] = T[b]
<1> DEFINE U == [T EXCEPT ![a] = [head |-> T[a].head, tail |-> t]]
<1>1. T \in Labels /\ a \in Nat
    BY DEF Sound
<1>2. T[a].head \in Notes
    BY <1>1, LabelType
<1>3. /\ U \in Labels /\ U[a].head = T[a].head /\ U[a].tail = t
      /\ \A b \in Nat : b # a => U[b] = T[b]
    BY <1>1, <1>2 DEF Labels
<1> HIDE DEF U
<1>4. \A b \in Nat : b < sz =>
          /\ U[b].head = T[b].head
          /\ U[b].tail = T[b].tail \/ (b \in B \cup L /\ Flows(T[b].tail, U[b].tail))
    BY <1>3
<1>5. Sound(s, v, U, sz, n, B, E, L)
    BY <1>3, <1>4, Relabel
<1>6. QED BY <1>3, <1>5

(* The code of the second branch's beginning.                              *)
LEMMA TurningCode ==
    ASSUME Scoped, NEW T \in Labels, Compiled(T), NEW kind, Turning(kind),
           \A k \in 1 .. Depth : Around(k)' = Around(k),
           NEW i \in Instruction, i.op = "else", i.at = Top.id
    PROVE  /\ Cleanup(Depth) \in Seq(Instruction) /\ Reached(Depth)' = Reached(Depth - 1)
           /\ \E U \in Labels :
                 /\ Links(U)'
                 /\ Sound((code \o Cleanup(Depth)) \o <<i>>, HeadNote(Depth), U, size, Len(decls),
                          Ids(Branching)', Ids(PastElse)', Ids(Looping)')
<1>1. PICK n \in Nat : n = Depth
    BY TurningFrames
<1>2. PICK f : f = Top
    OBVIOUS
<1>3. PICK a : a = f.id
    OBVIOUS
<1> DEFINE t == Note(Reached(n - 1) /\ ~f.returns, Around(n), moved)
<1>4. /\ n > 1 /\ Depth = n /\ f = frames[n] /\ f \in Frame /\ f.kind \in {"then", "arm"} /\ f.joins = {}
    BY <1>1, <1>2, TurningFrames
<1>5. n \in 2 .. n /\ f.returns \in BOOLEAN /\ a \in Nat /\ n - 1 \in Nat
    BY <1>3, <1>4 DEF Frame
<1>6. a \in Ids(Branching)
    BY <1>3, <1>4, <1>5 DEF Ids, Branching
<1>7. /\ Links(T) /\ Sound(code, Cur, T, size, Len(decls), Ids(Branching), Ids(PastElse), Ids(Looping))
    BY DEF Compiled
<1>8. T[a].head = HeadNote(n) /\ T[a].tail = TailNote(n)
    BY <1>3, <1>4, <1>5, <1>7 DEF Links
<1>9. T[a].tail = Unreached
    <2>1. TailNote(n) = Note(Reached(n - 1) /\ f.joins # {}, Around(n), UNION f.joins)
        BY <1>4 DEF TailNote, InLoop
    <2>2. (Reached(n - 1) /\ f.joins # {}) = FALSE
        BY <1>4
    <2>3. \A v, w : Note(FALSE, v, w) = Unreached
        BY DEF Note
    <2>4. QED BY <1>8, <2>1, <2>2, <2>3
<1>10. t \in Notes
    <2>1. Around(n) \in SUBSET Nat
        BY TypedIs DEF Scoped, Around
    <2>2. (Reached(n - 1) /\ ~f.returns) \in BOOLEAN
        OBVIOUS
    <2>3. QED BY <2>1, <2>2, NoteType
<1>11. Flows(T[a].tail, t)
    BY <1>9 DEF Flows, Unreached
<1>12. Flows(Note(Reached(n), Around(n), moved), t)
    <2>1. Reached(n) => Reached(n - 1) /\ ~f.returns
        <3>1. \A j \in 1 .. n - 1 : j \in 1 .. n
            BY <1>5
        <3>2. n \in 1 .. n
            BY <1>5
        <3>3. QED BY <1>4, <3>1, <3>2 DEF Reached
    <2>2. CASE Reached(n)
        <3>1. t = Known(Around(n), Around(n) \ moved)
            BY <2>1, <2>2 DEF Note
        <3>2. Note(Reached(n), Around(n), moved) = Known(Around(n), Around(n) \ moved)
            BY <2>2 DEF Note
        <3>3. QED BY <3>1, <3>2, FlowsSame
    <2>3. CASE ~Reached(n)
        <3>1. Note(Reached(n), Around(n), moved) = Unreached
            BY <2>3 DEF Note
        <3>2. QED BY <3>1 DEF Flows, Unreached
    <2>4. QED BY <2>2, <2>3
<1> HIDE DEF t
<1>13. PICK U \in Labels :
          /\ Sound(code, Cur, U, size, Len(decls), Ids(Branching), Ids(PastElse), Ids(Looping))
          /\ U[a].head = T[a].head /\ U[a].tail = t
          /\ \A b \in Nat : b # a => U[b] = T[b]
    BY <1>6, <1>7, <1>10, <1>11, RaiseTail
<1>14. /\ Cleanup(n) \in Seq(Instruction)
       /\ Sound(code \o Cleanup(n), Note(Reached(n), Around(n), moved), U, size, Len(decls),
                Ids(Branching), Ids(PastElse), Ids(Looping))
    <2>1. Sound(code, Note(Reached(n), visible, moved), U, size, Len(decls),
                Ids(Branching), Ids(PastElse), Ids(Looping))
        BY <1>4, <1>13 DEF Cur
    <2>2. /\ Reached(n) \in BOOLEAN /\ size \in Nat /\ size <= size /\ Typed /\ Bindings /\ Deferred
          /\ (~Written(EndingForms) => moved = {})
        <3>1. size \in Nat /\ Typed /\ Bindings /\ Deferred /\ (~Written(EndingForms) => moved = {})
            BY DEF Scoped, Typed, Branches
        <3>2. QED BY <3>1 DEF Reached
    <2>3. QED BY <2>1, <2>2, CleanedUp
<1>15. Sound((code \o Cleanup(n)) \o <<i>>, HeadNote(n), U, size, Len(decls),
             Ids(Branching), Ids(PastElse) \cup {a}, Ids(Looping))
    <2>1. i.at = a
        BY <1>2, <1>3
    <2>2. i.at \in Ids(Branching) /\ U[i.at].head = HeadNote(n)
          /\ Flows(Note(Reached(n), Around(n), moved), U[i.at].tail)
        BY <1>6, <1>8, <1>12, <1>13, <2>1
    <2> DEFINE s == code \o Cleanup(n)
               v == Note(Reached(n), Around(n), moved)
    <2>3. Sound(s, v, U, size, Len(decls), Ids(Branching), Ids(PastElse), Ids(Looping))
          /\ Flows(v, U[i.at].tail)
        BY <1>14, <2>2
    <2> HIDE DEF s, v
    <2>4. Sound(s \o <<i>>, U[i.at].head, U, size, Len(decls),
                Ids(Branching), Ids(PastElse) \cup {i.at}, Ids(Looping))
        BY <2>2, <2>3, TurnElse
    <2>5. QED BY <2>1, <2>2, <2>4 DEF s
<1>16. /\ Links(U)' /\ Reached(Depth)' = Reached(Depth - 1)
       /\ Ids(Branching)' = Ids(Branching) /\ Ids(PastElse)' = Ids(PastElse) \cup {a}
       /\ Ids(Looping)' = Ids(Looping)
    <2>1. U[Top.id].tail = Note(Reached(Depth - 1) /\ ~Top.returns, Around(Depth), moved)
        BY <1>1, <1>2, <1>3, <1>13 DEF t
    <2>2. \A b \in Nat : b # Top.id => U[b] = T[b]
        BY <1>2, <1>3, <1>13
    <2>3. QED BY <1>2, <1>3, <1>7, <2>1, <2>2, TurningLinks
<1>17. QED BY <1>1, <1>14, <1>15, <1>16

(* } else {                                                                *)
LEMMA ElseStep ==
    ASSUME Scoped, NEW T \in Labels, Compiled(T), Else
    PROVE  Preserved
<1>1. PICK n \in Nat : n = Depth
    BY TypedIs DEF Scoped
<1> DEFINE i == I("else", Top.id)
<1>2. /\ size' = size /\ style' = style /\ decls' = decls /\ moved' = Top.before
      /\ visible' = {d \in visible : decls[d].depth < n} /\ items' = Kept(n)
      /\ code' = code \o (Cleanup(n) \o <<i>>) /\ Turning("else")
      /\ Top.kind = "then"
    BY <1>1 DEF Else, Closes, InFrame, Emit, Turning, PastElse
<1>3. /\ n > 1 /\ Depth' = n /\ Depth = n /\ Top = frames[n] /\ Top \in Frame /\ frames' \in Seq(Frame)
    BY <1>1, <1>2, TurningFrames
<1>4. \A k \in 1 .. n : Around(k)' = Around(k)
    <2> SUFFICES ASSUME NEW k \in 1 .. n PROVE Around(k)' = Around(k)
        OBVIOUS
    <2>1. \A d \in visible : decls[d].depth \in Nat
        BY TypedIs DEF Scoped, Typed
    <2>2. \A d \in visible : decls[d].depth < k => decls[d].depth < n
        BY <2>1
    <2>3. QED BY <1>2, <2>2 DEF Around
<1>5. Len(decls) \in Nat /\ Len(decls') = Len(decls) /\ Len(decls) <= Len(decls')
    BY <1>2, TypedIs DEF Scoped
<1>6. Nesting' /\ Moved' /\ Branches'
    BY <1>1, <1>2, <1>4, <1>5, TurningRest
<1>7. Bindings' /\ Deferred'
    <2>1. visible' = Around(n)
        BY <1>2 DEF Around
    <2>2. Arranged(Kept(n), Around(n), n)
        BY <1>3, KeptArranged
    <2>3. \A j \in 1 .. n - 1 : Loops(j)' = Loops(j)
        BY <1>2, <1>3, TurningLoops
    <2>4. n - 1 <= n
        OBVIOUS
    <2>5. QED BY <1>2, <1>3, <2>1, <2>2, <2>3, <2>4, LeaveArranged
<1>8. i \in Instruction /\ i.op = "else" /\ i.at = Top.id
    BY <1>3 DEF I, Instruction, Ops, Frame
<1> HIDE DEF i
<1>9. PICK U \in Labels :
          /\ Links(U)'
          /\ Sound((code \o Cleanup(n)) \o <<i>>, HeadNote(n), U, size, Len(decls),
                   Ids(Branching)', Ids(PastElse)', Ids(Looping)')
    BY <1>1, <1>2, <1>4, <1>8, TurningCode
<1>10. (code \o Cleanup(n)) \o <<i>> = code'
    <2>1. code \in Seq(Instruction)
        BY DEF Scoped, Typed
    <2>2. Cleanup(n) \in Seq(Instruction)
        BY <1>1, <1>2, <1>4, <1>8, TurningCode
    <2>3. (code \o Cleanup(n)) \o <<i>> = code \o (Cleanup(n) \o <<i>>)
        BY <1>8, <2>1, <2>2, PieceAndOne
    <2>4. QED BY <1>2, <2>3
<1>11. Cur' = HeadNote(n)
    <2>1. Reached(Depth)' = Reached(n - 1)
        BY <1>1, <1>2, <1>4, <1>8, TurningCode
    <2>2. visible' = Around(n) /\ moved' = frames[n].before /\ frames[n].kind # "arm"
        BY <1>2, <1>3 DEF Around
    <2>3. QED BY <2>1, <2>2 DEF Cur, HeadNote
<1>12. Typed'
    <2>1. code' \in Seq(Instruction)
        BY <1>9, <1>10 DEF Sound
    <2>2. items' \in Seq(Cleanups)
        <3>1. n \in Nat /\ n > 0
            BY <1>3
        <3>2. Arranged(Kept(n), Around(n), n)
            BY <3>1, KeptArranged
        <3>3. QED BY <1>2, <3>2 DEF Arranged
    <2>3. moved' \subseteq 1 .. Len(decls')
        <3>1. n \in 1 .. n
            BY <1>3
        <3>2. Top.before \subseteq moved
            BY <1>3, <3>1 DEF Scoped, Moved
        <3>3. QED BY <1>2, <3>2 DEF Scoped, Typed
    <2>4. QED BY <1>2, <1>3, <2>1, <2>2, <2>3 DEF Scoped, Typed
<1>13. Scoped'
    BY <1>6, <1>7, <1>12 DEF Scoped
<1>14. Sound(code', Cur', U, size', Len(decls'), Ids(Branching)', Ids(PastElse)', Ids(Looping)')
    BY <1>2, <1>5, <1>9, <1>10, <1>11
<1>15. Compiled(U)'
    BY <1>2, <1>9, <1>14, CompiledNext
<1>16. QED BY <1>13, <1>15 DEF Preserved

(* B(y) => ... : the second arm.                                           *)
LEMMA NextArmStep ==
    ASSUME Scoped, NEW T \in Labels, Compiled(T), ~Shadowing, NEW y \in Names, NextArm(y)
    PROVE  Preserved
<1>1. PICK n \in Nat : n = Depth
    BY TypedIs DEF Scoped
<1>2. PICK new : new = Len(decls) + 1
    OBVIOUS
<1>3. PICK d : d = Top.from
    OBVIOUS
<1>4. PICK V : V = Around(n)
    OBVIOUS
<1>5. PICK F : F = Kept(n)
    OBVIOUS
<1> DEFINE i == I("else", Top.id)
           j == [op |-> "from", at |-> new, src |-> d, flag |-> d]
<1>6. /\ size' = size /\ style' = style /\ moved' = Top.before
      /\ Payload(y, frames) /\ code' = code \o (Cleanup(n) \o <<i, j>>)
      /\ Turning("lastArm") /\ Top.kind = "arm"
    BY <1>1, <1>2, <1>3 DEF NextArm, Closes, InFrame, Emit, Turning, PastElse
<1>7. /\ n > 1 /\ Depth' = n /\ Depth = n /\ Top = frames[n] /\ Top \in Frame /\ frames' \in Seq(Frame)
    BY <1>1, <1>6, TurningFrames
<1>8. n \in 1 .. n /\ n > 0 /\ n - 1 <= n
    BY <1>7
<1>9. PICK l \in Nat : l = Loops(n)
    BY LoopsType
<1>10. /\ decls' = Append(decls, [name |-> y, depth |-> n, loop |-> l])
       /\ items' = Append(F, [op |-> "drop", name |-> y, depth |-> n])
       /\ visible' = V \cup {new}
       /\ \A e \in V : decls[e].name # y
    BY <1>2, <1>4, <1>5, <1>6, <1>7, <1>9 DEF Payload, Around, LoopDepth, Loops, Depth
<1>11. \A k \in 1 .. n : Loops(k)' = Loops(k)
    BY <1>6, <1>7, TurningLoops
<1>12. DeclaredIn(F, V, n, y, n, new, l)
    <2>1. Arranged(F, V, n)
        BY <1>4, <1>5, <1>8, KeptArranged
    <2>2. \A k \in 1 .. n - 1 : k \in 1 .. n
        BY <1>8
    <2>3. \A k \in 1 .. n - 1 : Loops(k)' = Loops(k)
        BY <1>11, <2>2
    <2>4. Loops(n)' = l
        BY <1>8, <1>9, <1>11
    <2>5. QED BY <1>2, <1>6, <1>7, <1>8, <1>10, <2>1, <2>3, <2>4 DEF DeclaredIn
<1>13. /\ Bindings' /\ Deferred'
       /\ decls' \in Seq(Binding) /\ Len(decls') = new /\ new \in Nat
       /\ items' \in Seq(Cleanups) /\ visible' \subseteq 1 .. Len(decls')
       /\ \A e \in visible : decls'[e] = decls[e] /\ e < new
       /\ decls'[new].depth = n
    BY <1>12, DeclareArranged
<1>14. V \subseteq visible /\ \A e \in visible : e \in V <=> decls[e].depth < n
    BY <1>4 DEF Around
<1>15. ASSUME NEW k \in 1 .. n PROVE Around(k)' = Around(k)
    <2>1. ~(decls'[new].depth < k)
        BY <1>13
    <2>2. \A e \in visible : decls[e].depth \in Nat
        BY TypedIs DEF Scoped, Typed
    <2>3. \A e \in visible : decls[e].depth < k => decls[e].depth < n
        BY <2>2
    <2>4. \A e \in visible : decls[e].depth < k => e \in V
        BY <1>14, <2>3
    <2>5. \A e \in V : decls'[e] = decls[e]
        BY <1>13, <1>14
    <2>6. Around(k)' = {e \in V \cup {new} : decls'[e].depth < k}
        BY <1>10 DEF Around
    <2>7. Around(k)' = {e \in V : decls[e].depth < k}
        BY <2>1, <2>5, <2>6
    <2>8. Around(k) = {e \in V : decls[e].depth < k}
        BY <1>14, <2>4 DEF Around
    <2>9. QED BY <2>7, <2>8
<1>16. Len(decls') \in Nat /\ Len(decls) <= Len(decls') /\ Len(decls) \in Nat /\ Len(decls) <= new /\ new > 0
    <2>1. Len(decls) \in Nat
        BY TypedIs DEF Scoped
    <2>2. QED BY <1>2, <1>13, <2>1
<1>17. Nesting' /\ Moved' /\ Branches'
    BY <1>1, <1>6, <1>15, <1>16, TurningRest
<1>18. i \in Instruction /\ i.op = "else" /\ i.at = Top.id
    BY <1>7 DEF I, Instruction, Ops, Frame
<1> HIDE DEF i
<1>19. /\ Cleanup(n) \in Seq(Instruction) /\ Reached(Depth)' = Reached(n - 1)
       /\ \E U \in Labels :
             /\ Links(U)'
             /\ Sound((code \o Cleanup(n)) \o <<i>>, HeadNote(n), U, size, Len(decls),
                      Ids(Branching)', Ids(PastElse)', Ids(Looping)')
    BY <1>1, <1>6, <1>15, <1>18, TurningCode
<1>20. PICK U \in Labels :
          /\ Links(U)'
          /\ Sound((code \o Cleanup(n)) \o <<i>>, HeadNote(n), U, size, Len(decls),
                   Ids(Branching)', Ids(PastElse)', Ids(Looping)')
    BY <1>19
<1>21. d \in V /\ d \in Top.before /\ V \in SUBSET Nat /\ \A e \in V : e < new
    <2>1. d \in Around(n) \cap frames[n].before
        BY <1>3, <1>6, <1>7, <1>8 DEF Scoped, Branches
    <2>2. QED BY <1>4, <1>7, <1>13, <1>14, <2>1, TypedIs DEF Scoped
<1>22. HeadNote(n) = Note(Reached(n - 1), V, Top.before \ {d})
    BY <1>3, <1>4, <1>6, <1>7 DEF HeadNote
<1> DEFINE s == (code \o Cleanup(n)) \o <<i>>
<1>23. /\ j \in Instruction
       /\ Sound(s \o <<j>>, Note(Reached(n - 1), V \cup {new}, (Top.before \ {d}) \cup {d}),
                U, size, new, Ids(Branching)', Ids(PastElse)', Ids(Looping)')
    <2>1. Reached(n - 1) \in BOOLEAN
        BY DEF Reached
    <2>2. Sound(s, Note(Reached(n - 1), V, Top.before \ {d}), U, size, Len(decls),
                Ids(Branching)', Ids(PastElse)', Ids(Looping)')
        BY <1>20, <1>22
    <2> HIDE DEF s
    <2>3. d \notin Top.before \ {d}
        OBVIOUS
    <2>4. PICK r \in BOOLEAN : r = Reached(n - 1)
        BY <2>1
    <2>5. PICK B, E, L : B = Ids(Branching)' /\ E = Ids(PastElse)' /\ L = Ids(Looping)'
        OBVIOUS
    <2>6. PICK gone : gone = Top.before \ {d}
        OBVIOUS
    <2>7. PICK m : m = Len(decls)
        OBVIOUS
    <2>8. Sound(s, Note(r, V, gone), U, size, m, B, E, L) /\ d \notin gone /\ m <= new
        BY <1>16, <2>2, <2>3, <2>4, <2>5, <2>6, <2>7
    <2>9. /\ j \in Instruction
          /\ Sound(s \o <<j>>, Note(r, V \cup {new}, gone \cup {d}), U, size, new, B, E, L)
        BY <1>13, <1>16, <1>21, <2>8, FromOne
    <2>10. QED BY <2>4, <2>5, <2>6, <2>9
<1> HIDE DEF j
<1>24. s \o <<j>> = code'
    <2> DEFINE q == <<i, j>>
    <2>1. q \in Seq(Instruction) /\ code \in Seq(Instruction) /\ Cleanup(n) \in Seq(Instruction)
        BY <1>18, <1>19, <1>23 DEF Scoped, Typed
    <2>2. code \o Cleanup(n) \in Seq(Instruction)
        BY <2>1, ConcatProperties
    <2>3. s \o <<j>> = (code \o Cleanup(n)) \o <<i, j>>
        BY <1>18, <1>23, <2>2, TwoMore
    <2> HIDE DEF q
    <2>4. (code \o Cleanup(n)) \o q = code \o (Cleanup(n) \o q)
        BY <2>1, ConcatAssociative
    <2>5. QED BY <1>6, <2>3, <2>4 DEF q
<1>25. Cur' = Note(Reached(n - 1), V \cup {new}, (Top.before \ {d}) \cup {d})
    <2>1. (Top.before \ {d}) \cup {d} = Top.before
        BY <1>21
    <2>2. QED BY <1>6, <1>10, <1>19, <2>1 DEF Cur
<1>26. Typed'
    <2>1. code' \in Seq(Instruction)
        BY <1>23, <1>24 DEF Sound
    <2>2. moved' \subseteq 1 .. Len(decls')
        <3>1. Top.before \subseteq moved
            BY <1>7, <1>8 DEF Scoped, Moved
        <3>2. moved \subseteq 1 .. Len(decls)
            BY DEF Scoped, Typed
        <3>3. \A e \in 1 .. Len(decls) : e \in 1 .. Len(decls')
            BY <1>16
        <3>4. QED BY <1>6, <3>1, <3>2, <3>3
    <2>3. style' \in Styles /\ size' \in Nat
        BY <1>6 DEF Scoped, Typed
    <2>4. QED BY <1>7, <1>13, <2>1, <2>2, <2>3 DEF Typed
<1>27. Scoped'
    BY <1>13, <1>17, <1>26 DEF Scoped
<1>28. Sound(code', Cur', U, size', Len(decls'), Ids(Branching)', Ids(PastElse)', Ids(Looping)')
    BY <1>6, <1>13, <1>23, <1>24, <1>25
<1>29. Compiled(U)'
    BY <1>6, <1>20, <1>28, CompiledNext
<1>30. QED BY <1>27, <1>29 DEF Preserved

-----------------------------------------------------------------------------
(* The end of a block. *)

(* The outer frames remain; the last of them may return now.               *)
LEMMA ClosingFrames ==
    ASSUME Scoped, Close
    PROVE  /\ Depth \in Nat /\ Depth > 1 /\ Depth' = Depth - 1 /\ frames' \in Seq(Frame)
           /\ Top = frames[Depth] /\ Top \in Frame /\ AlwaysReturns \in BOOLEAN
           /\ Top.kind \in {"then", "else", "lastArm", "block", "while", "forever"}
           /\ \A k \in 1 .. Depth - 1 :
                  LET f == frames'[k] IN
                  /\ f.kind = frames[k].kind /\ f.id = frames[k].id /\ f.before = frames[k].before
                  /\ f.joins = frames[k].joins /\ f.all = frames[k].all /\ f.from = frames[k].from
                  /\ f.breaks = frames[k].breaks
                  /\ f.returns = ((k = Depth - 1 /\ AlwaysReturns) \/ frames[k].returns)
<1>1. PICK n \in Nat : n = Depth
    BY TypedIs DEF Scoped
<1> DEFINE outer == SubSeq(frames, 1, n - 1)
<1>2. /\ n > 1 /\ frames \in Seq(Frame) /\ n = Len(frames) /\ Top = frames[n]
      /\ Top.kind \in {"then", "else", "lastArm", "block", "while", "forever"}
      /\ frames' = IF AlwaysReturns THEN Returning(outer) ELSE outer
    BY <1>1 DEF Scoped, Typed, Close, InFrame, Depth, Top
<1>3. n > 1
    BY <1>2
<1>4. n \in 1 .. n /\ n - 1 \in Nat /\ n - 1 > 0 /\ \A k \in 1 .. n - 1 : k \in 1 .. n
    BY <1>3
<1>5. \A k \in 1 .. n : frames[k] \in Frame
    BY <1>1, TypedIs DEF Scoped
<1>6. Top \in Frame /\ AlwaysReturns \in BOOLEAN
    <2>1. Top \in Frame
        BY <1>2, <1>4, <1>5
    <2>2. QED BY <1>2, <2>1 DEF AlwaysReturns, Frame
<1>7. /\ outer \in Seq(Frame) /\ Len(outer) = n - 1
      /\ \A k \in 1 .. n - 1 : outer[k] = frames[k]
    <2>1. \A k \in 1 .. n - 1 : frames[k] \in Frame
        BY <1>4, <1>5
    <2>2. 1 \in Int /\ n - 1 \in Int /\ 1 <= n - 1 /\ (n - 1) - 1 + 1 = n - 1
        BY <1>3
    <2>3. /\ outer \in Seq(Frame)
          /\ Len(outer) = (IF 1 <= n - 1 THEN (n - 1) - 1 + 1 ELSE 0)
          /\ \A k \in 1 .. (n - 1) - 1 + 1 : outer[k] = frames[(1 + k) - 1]
        BY <2>1, <2>2, SubSeqProperties
    <2> HIDE DEF outer
    <2>4. \A k \in 1 .. n - 1 : (1 + k) - 1 = k
        OBVIOUS
    <2>5. QED BY <2>2, <2>3, <2>4
<1> DEFINE Kept1(k) ==
               LET f == frames'[k] IN
               /\ f.kind = frames[k].kind /\ f.id = frames[k].id /\ f.before = frames[k].before
               /\ f.joins = frames[k].joins /\ f.all = frames[k].all /\ f.from = frames[k].from
               /\ f.breaks = frames[k].breaks
               /\ f.returns = ((k = n - 1 /\ AlwaysReturns) \/ frames[k].returns)
<1> HIDE DEF outer
<1>8. Depth' = n - 1 /\ frames' \in Seq(Frame) /\ \A k \in 1 .. n - 1 : Kept1(k)
    <2>1. CASE AlwaysReturns
        <3>1. frames' = Returning(outer)
            BY <1>2, <2>1
        <3>2. Len(outer) > 0
            BY <1>4, <1>7
        <3>3. /\ Returning(outer) \in Seq(Frame) /\ Len(Returning(outer)) = Len(outer)
              /\ \A k \in 1 .. Len(outer) :
                     LET f == Returning(outer)[k] IN
                     /\ f.kind = outer[k].kind /\ f.id = outer[k].id /\ f.before = outer[k].before
                     /\ f.joins = outer[k].joins /\ f.all = outer[k].all /\ f.from = outer[k].from
                     /\ f.breaks = outer[k].breaks
                     /\ f.returns = IF k = Len(outer) THEN TRUE ELSE outer[k].returns
            BY <1>7, <3>2, ReturningIs
        <3>4. Depth' = n - 1 /\ frames' \in Seq(Frame)
            BY <1>7, <3>1, <3>3 DEF Depth
        <3>5. ASSUME NEW k \in 1 .. n - 1 PROVE Kept1(k)
            <4>1. frames[k].returns \in BOOLEAN /\ outer[k] = frames[k] /\ k \in 1 .. Len(outer)
                BY <1>4, <1>5, <1>7 DEF Frame
            <4>2. Len(outer) = n - 1
                BY <1>7
            <4>3. /\ frames'[k].kind = outer[k].kind /\ frames'[k].id = outer[k].id
                  /\ frames'[k].before = outer[k].before /\ frames'[k].joins = outer[k].joins
                  /\ frames'[k].all = outer[k].all /\ frames'[k].from = outer[k].from
                  /\ frames'[k].breaks = outer[k].breaks
                  /\ frames'[k].returns = IF k = Len(outer) THEN TRUE ELSE outer[k].returns
                BY <3>1, <3>3, <4>1
            <4>4. QED BY <2>1, <4>1, <4>2, <4>3
        <3>6. QED BY <3>4, <3>5
    <2>2. CASE ~AlwaysReturns
        <3>1. frames' = outer
            BY <1>2, <2>2
        <3>2. Depth' = n - 1
            BY <1>7, <3>1 DEF Depth
        <3>3. \A k \in 1 .. n - 1 : frames[k].returns \in BOOLEAN
            BY <1>4, <1>5 DEF Frame
        <3>4. QED BY <1>7, <2>2, <3>1, <3>2, <3>3
    <2>3. QED BY <2>1, <2>2
<1> HIDE DEF Kept1
<1>9. Depth' = Depth - 1 /\ \A k \in 1 .. Depth - 1 : Kept1(k)
    BY <1>1, <1>8
<1>10. Depth \in Nat /\ Depth > 1
    BY <1>1, <1>3
<1>11. Top = frames[Depth]
    BY <1>1, <1>2
<1>12. \A k \in 1 .. Depth - 1 : k = Depth - 1 <=> k = n - 1
    BY <1>1
<1> USE DEF Kept1
<1>13. QED BY <1>2, <1>6, <1>8, <1>9, <1>10, <1>11, <1>12

(* The moves after a block lie between those at its beginning and those of *)
(* its branches.                                                           *)
LEMMA AfterBounds ==
    ASSUME Scoped, Close
    PROVE  Top.before \subseteq After /\ After \subseteq moved \cup UNION Top.joins
<1>1. PICK n \in Nat : n = Depth
    BY ClosingFrames
<1>2. n > 1
    BY <1>1, ClosingFrames
<1>3. n \in 1 .. n
    BY <1>2
<1>4. Top = frames[n] /\ Top.kind \in {"then", "else", "lastArm", "block", "while", "forever"}
    BY <1>1, ClosingFrames
<1>5. Top.before \subseteq moved /\ \A m \in Top.joins : Top.before \subseteq m
    BY <1>1, <1>3, <1>4 DEF Scoped, Moved
<1>6. \A m \in Joins(Top) : Top.before \subseteq m /\ m \subseteq moved \cup UNION Top.joins
    BY <1>5 DEF Joins
<1>7. CASE Top.kind = "then"
    BY <1>5, <1>6, <1>7 DEF After, Merged
<1>8. CASE Top.kind \in {"else", "lastArm"}
    <2>1. After = Merged(Joins(Top), Top.before)
        BY <1>8 DEF After
    <2>2. CASE Joins(Top) = {}
        BY <1>5, <2>1, <2>2 DEF Merged
    <2>3. CASE Joins(Top) # {}
        <3>1. After = UNION Joins(Top)
            BY <2>1, <2>3 DEF Merged
        <3>2. QED BY <1>6, <2>3, <3>1
    <2>4. QED BY <2>2, <2>3
<1>9. CASE Top.kind \in {"block", "while", "forever"}
    BY <1>5, <1>9 DEF After
<1>10. QED BY <1>4, <1>7, <1>8, <1>9
 
(* Closing a block keeps the frames around it in order.                    *)
LEMMA ClosingRest ==
    ASSUME Scoped, Close
    PROVE  /\ Nesting' /\ Moved' /\ Branches' /\ moved' \subseteq 1 .. Len(decls')
           /\ \A k \in 1 .. Depth : Around(k)' = Around(k)
           /\ \A k \in 1 .. Depth - 1 : Loops(k)' = Loops(k)
<1>1. PICK n \in Nat : n = Depth
    BY ClosingFrames
<1>2. /\ n > 1 /\ Depth' = n - 1 /\ Depth = n /\ Top = frames[n]
      /\ \A k \in 1 .. n - 1 :
             /\ frames'[k].kind = frames[k].kind /\ frames'[k].id = frames[k].id
             /\ frames'[k].before = frames[k].before /\ frames'[k].joins = frames[k].joins
             /\ frames'[k].all = frames[k].all /\ frames'[k].from = frames[k].from
    BY <1>1, ClosingFrames
<1>3. n \in 1 .. n /\ \A k \in 1 .. n - 1 : k \in 1 .. n /\ k < n /\ n \in k + 1 .. n
    BY <1>2
<1>4. /\ size' = size /\ style' = style /\ decls' = decls /\ moved' = After
      /\ visible' = {d \in visible : decls[d].depth < n}
    BY <1>1 DEF Close, Closes
<1>5. frames[n].before \subseteq moved' /\ moved' \subseteq moved \cup UNION frames[n].joins
    BY <1>2, <1>4, AfterBounds
<1>6. \A k \in 1 .. n : Around(k)' = Around(k)
    <2> SUFFICES ASSUME NEW k \in 1 .. n PROVE Around(k)' = Around(k)
        OBVIOUS
    <2>1. \A d \in visible : decls[d].depth \in Nat
        BY TypedIs DEF Scoped, Typed
    <2>2. \A d \in visible : decls[d].depth < k => decls[d].depth < n
        BY <2>1
    <2>3. QED BY <1>4, <2>2 DEF Around
<1>7. ASSUME NEW k \in 1 .. n - 1 PROVE InLoop(frames[k])' <=> InLoop(frames[k])
    BY <1>2 DEF InLoop
<1>8. ASSUME NEW k \in 1 .. n - 1 PROVE Loops(k)' = Loops(k)
    <2>1. \A i \in 1 .. k : i \in 1 .. n - 1
        BY <1>2
    <2>2. {i \in 1 .. k : InLoop(frames[i])'} = {i \in 1 .. k : InLoop(frames[i])}
        BY <1>7, <2>1
    <2>3. QED BY <2>2 DEF Loops
<1>9. Nesting'
    <2>1. \A k \in 2 .. n - 1 : k \in 1 .. n - 1 /\ k \in 2 .. n
        BY <1>2
    <2>2. \A k \in 1 .. n - 1 : frames'[k].kind = "fn" <=> k = 1
        BY <1>2, <1>3 DEF Scoped, Nesting
    <2>3. \A k \in 2 .. n - 1 : frames'[k].id < size'
        BY <1>2, <1>4, <2>1 DEF Scoped, Nesting
    <2>4. \A j, k \in 2 .. n - 1 : j < k => frames'[j].id < frames'[k].id
        BY <1>2, <2>1 DEF Scoped, Nesting
    <2>5. n - 1 > 0
        BY <1>2
    <2>6. QED BY <1>2, <2>2, <2>3, <2>4, <2>5 DEF Nesting
<1>10. moved' \subseteq 1 .. Len(decls')
    <2>1. moved \subseteq 1 .. Len(decls)
        BY DEF Scoped, Typed
    <2>2. \A m \in frames[n].joins : m \subseteq 1 .. Len(decls)
        BY <1>2, <1>3 DEF Scoped, Moved
    <2>3. QED BY <1>4, <1>5, <2>1, <2>2
<1>11. Moved'
    <2>1. ASSUME NEW k \in 1 .. n - 1 PROVE frames'[k].before \subseteq moved'
        <3>1. frames[k].before \subseteq frames[n].before
            BY <1>2, <1>3 DEF Scoped, Moved
        <3>2. QED BY <1>2, <1>5, <3>1
    <2>2. ASSUME NEW j \in 1 .. n - 1, NEW k \in 1 .. n - 1, j < k
          PROVE  frames'[j].before \subseteq frames'[k].before
        <3>1. frames[j].before \subseteq frames[k].before
            BY <1>2, <1>3, <2>2 DEF Scoped, Moved
        <3>2. QED BY <1>2, <3>1
    <2>3. ASSUME NEW k \in 1 .. n - 1, NEW m \in frames'[k].joins
          PROVE  frames'[k].before \subseteq m /\ m \subseteq 1 .. Len(decls')
        <3>1. frames[k].before \subseteq m /\ m \subseteq 1 .. Len(decls)
            BY <1>2, <1>3, <2>3 DEF Scoped, Moved
        <3>2. QED BY <1>2, <1>4, <3>1
    <2>4. ASSUME NEW k \in 1 .. n - 1, InLoop(frames[k])', NEW d \in Around(k)' \ frames'[k].before
          PROVE  /\ d \notin moved'
                 /\ \A j \in k + 1 .. n - 1 :
                        d \notin frames'[j].before /\ \A m \in frames'[j].joins : d \notin m
        <3>1. InLoop(frames[k]) /\ d \in Around(k) \ frames[k].before
            BY <1>2, <1>3, <1>6, <1>7, <2>4
        <3>2. /\ d \notin moved
              /\ \A j \in k + 1 .. n :
                     d \notin frames[j].before /\ \A m \in frames[j].joins : d \notin m
            BY <1>2, <1>3, <3>1 DEF Scoped, Moved
        <3>3. d \notin moved'
            BY <1>3, <1>5, <3>2
        <3>4. \A j \in k + 1 .. n - 1 : j \in 1 .. n - 1 /\ j \in k + 1 .. n
            BY <1>2
        <3>5. QED BY <1>2, <3>2, <3>3, <3>4
    <2>5. QED BY <1>2, <2>1, <2>2, <2>3, <2>4 DEF Moved
<1>12. Branches'
    <2>1. ASSUME NEW k \in 1 .. n - 1
          PROVE  /\ frames'[k].kind \in {"then", "arm"} => frames'[k].joins = {} /\ frames'[k].all
                 /\ frames'[k].kind \in {"else", "lastArm"} => (frames'[k].joins = {} <=> frames'[k].all)
        BY <1>2, <1>3 DEF Scoped, Branches
    <2>2. ASSUME NEW k \in 1 .. n - 1, frames'[k].kind = "arm"
          PROVE  frames'[k].from \in Around(k)' \cap frames'[k].before
        BY <1>2, <1>3, <1>6, <2>2 DEF Scoped, Branches
    <2>3. ASSUME NEW k \in 1 .. n - 1, InLoop(frames[k])' PROVE Written({"while", "forever"})'
        BY <1>2, <1>3, <1>4, <1>7, <2>3 DEF Scoped, Branches, Written
    <2>4. ASSUME ~Written(EndingForms)'
          PROVE  moved' = {} /\ \A k \in 1 .. n - 1 :
                     frames'[k].before = {} /\ frames'[k].joins \subseteq {{}}
        <3>1. ~Written(EndingForms)
            BY <1>4, <2>4 DEF Written
        <3>2. moved = {} /\ \A k \in 1 .. n : frames[k].before = {} /\ frames[k].joins \subseteq {{}}
            BY <1>2, <3>1 DEF Scoped, Branches
        <3>3. moved' = {}
            BY <1>3, <1>5, <3>2
        <3>4. QED BY <1>2, <1>3, <3>2, <3>3
    <2>5. QED BY <1>2, <2>1, <2>2, <2>3, <2>4 DEF Branches
<1>13. QED BY <1>1, <1>6, <1>8, <1>9, <1>10, <1>11, <1>12

(* The other open blocks keep their labels.                                *)
LEMMA ClosingLinks ==
    ASSUME Scoped, Close, NEW T, Links(T), NEW U, \A a \in Nat : a # Top.id => U[a] = T[a]
    PROVE  /\ Links(U)'
           /\ \A kinds : Ids(kinds)' = IF Top.kind \in kinds THEN Ids(kinds) \ {Top.id} ELSE Ids(kinds)
           /\ Cur' = Note(Reached(Depth - 1) /\ ~AlwaysReturns, Around(Depth), After)
<1>1. PICK n \in Nat : n = Depth
    BY ClosingFrames
<1>2. PICK f : f = Top
    OBVIOUS
<1>3. PICK ends \in BOOLEAN : ends = AlwaysReturns
    BY ClosingFrames
<1>4. n > 1
    BY <1>1, ClosingFrames
<1>5. /\ Depth' = n - 1 /\ f = frames[n]
      /\ \A k \in 1 .. n - 1 :
             /\ frames'[k].kind = frames[k].kind /\ frames'[k].id = frames[k].id
             /\ frames'[k].before = frames[k].before /\ frames'[k].joins = frames[k].joins
             /\ frames'[k].from = frames[k].from /\ frames'[k].breaks = frames[k].breaks
             /\ frames'[k].returns = ((k = n - 1 /\ ends) \/ frames[k].returns)
    BY <1>1, <1>2, <1>3, ClosingFrames
<1>6. /\ n \in 2 .. n /\ n - 1 \in Nat /\ n - 1 \in 1 .. n - 1
      /\ \A k \in 2 .. n - 1 : k \in 1 .. n - 1 /\ k \in 1 .. n /\ k \in 2 .. n /\ k # n /\ k - 1 \in 0 .. n - 2
    BY <1>4
<1>7. \A k \in 1 .. n : Around(k)' = Around(k)
    BY <1>1, ClosingRest
<1>8. ASSUME NEW j \in 0 .. n - 2 PROVE Reached(j)' = Reached(j)
    <2>1. \A i \in 1 .. j : i \in 1 .. n - 1 /\ i # n - 1
        BY <1>4
    <2>2. \A k \in 1 .. n : frames[k].returns \in BOOLEAN
        BY <1>1, TypedIs DEF Scoped, Frame
    <2>3. \A i \in 1 .. j : i \in 1 .. n
        BY <1>4
    <2>4. \A i \in 1 .. j : frames'[i].returns = frames[i].returns
        BY <1>5, <2>1, <2>2, <2>3
    <2>5. QED BY <2>4 DEF Reached
<1>9. Reached(Depth)' = (Reached(n - 1) /\ ~ends)
    <2>1. Reached(Depth)' = (\A i \in 1 .. n - 1 : ~frames'[i].returns)
        BY <1>5 DEF Reached
    <2>2. (\A i \in 1 .. n - 1 : ~frames'[i].returns) <=> (\A i \in 1 .. n - 1 : ~frames[i].returns) /\ ~ends
        BY <1>5, <1>6
    <2>3. Reached(n - 1) = (\A i \in 1 .. n - 1 : ~frames[i].returns)
        BY DEF Reached
    <2>4. QED BY <2>1, <2>2, <2>3
<1>10. ASSUME NEW k \in 2 .. n - 1
       PROVE  /\ frames'[k].kind \in {"then", "arm"} \cup Looping => U[frames'[k].id].head = HeadNote(k)'
              /\ frames'[k].kind # "block" => U[frames'[k].id].tail = TailNote(k)'
    <2>1. /\ frames'[k].kind = frames[k].kind /\ frames'[k].id = frames[k].id
          /\ frames'[k].before = frames[k].before /\ frames'[k].joins = frames[k].joins
          /\ frames'[k].from = frames[k].from /\ frames'[k].breaks = frames[k].breaks
          /\ Around(k)' = Around(k) /\ Reached(k - 1)' = Reached(k - 1)
        BY <1>5, <1>6, <1>7, <1>8
    <2>2. U[frames[k].id] = T[frames[k].id]
        <3>1. frames[k].id # f.id
            BY <1>1, <1>5, <1>6, IdsDiffer
        <3>2. frames[k].id \in Nat
            BY <1>1, <1>6, TypedIs DEF Scoped, Frame
        <3>3. QED BY <1>2, <3>1, <3>2
    <2>3. InLoop(frames[k])' <=> InLoop(frames[k])
        BY <2>1 DEF InLoop
    <2>4. HeadNote(k)' = HeadNote(k)
        BY <2>1 DEF HeadNote
    <2>5. TailNote(k)' = TailNote(k)
        BY <2>1, <2>3 DEF TailNote
    <2>6. /\ frames[k].kind \in {"then", "arm"} \cup Looping => T[frames[k].id].head = HeadNote(k)
          /\ frames[k].kind # "block" => T[frames[k].id].tail = TailNote(k)
        BY <1>1, <1>6 DEF Links
    <2>7. QED BY <2>1, <2>2, <2>4, <2>5, <2>6
<1>11. Links(U)'
    BY <1>5, <1>10 DEF Links
<1>12. ASSUME NEW kinds
       PROVE  Ids(kinds)' = IF f.kind \in kinds THEN Ids(kinds) \ {f.id} ELSE Ids(kinds)
    <2>1. ASSUME NEW a \in Ids(kinds)' PROVE a \in Ids(kinds) /\ a # f.id
        <3>1. PICK k \in 2 .. n - 1 : frames'[k].kind \in kinds /\ a = frames'[k].id
            BY <1>5, <2>1 DEF Ids
        <3>2. frames[k].kind \in kinds /\ a = frames[k].id
            BY <1>5, <1>6, <3>1
        <3>3. frames[k].id # f.id
            BY <1>1, <1>5, <1>6, IdsDiffer
        <3>4. QED BY <1>1, <1>6, <3>2, <3>3 DEF Ids
    <2>2. ASSUME NEW a \in Ids(kinds), a # f.id PROVE a \in Ids(kinds)'
        <3>1. PICK k \in 2 .. n : frames[k].kind \in kinds /\ a = frames[k].id
            BY <1>1, <2>2 DEF Ids
        <3>2. k # n
            BY <1>5, <2>2, <3>1
        <3>3. k \in 2 .. n - 1
            BY <3>2
        <3>4. QED BY <1>5, <1>6, <3>1, <3>3 DEF Ids
    <2>3. ASSUME f.kind \notin kinds, NEW a \in Ids(kinds) PROVE a # f.id
        <3>1. PICK k \in 2 .. n : frames[k].kind \in kinds /\ a = frames[k].id
            BY <1>1, <2>3 DEF Ids
        <3>2. k # n
            BY <1>5, <2>3, <3>1
        <3>3. QED BY <1>1, <1>5, <1>6, <3>1, <3>2, IdsDiffer
    <2>4. CASE f.kind \in kinds
        BY <2>1, <2>2, <2>4
    <2>5. CASE f.kind \notin kinds
        BY <2>1, <2>2, <2>3, <2>5
    <2>6. QED BY <2>4, <2>5
<1>13. visible' = Around(n) /\ moved' = After
    BY <1>1 DEF Close, Around
<1>14. Cur' = Note(Reached(n - 1) /\ ~ends, Around(n), After)
    BY <1>9, <1>13 DEF Cur
<1>15. QED BY <1>1, <1>2, <1>3, <1>11, <1>12, <1>14

(* How the flow leaves a branch.                                           *)
LEMMA BranchFlows ==
    ASSUME Scoped, Close, InFrame({"then", "else", "lastArm"})
    PROVE  LET w == Note(Reached(Depth - 1) /\ ~AlwaysReturns, Around(Depth), After) IN
           /\ Flows(TailNote(Depth), w) /\ Flows(Note(Reached(Depth), Around(Depth), moved), w)
           /\ InFrame({"then"}) => Flows(HeadNote(Depth), w)
<1>1. PICK n \in Nat : n = Depth
    BY ClosingFrames
<1>2. n > 1
    BY <1>1, ClosingFrames
<1>3. /\ n \in 1 .. n /\ n \in 2 .. n
      /\ \A i \in 1 .. n : i \in 1 .. n - 1 \/ i = n
      /\ \A i \in 1 .. n - 1 : i \in 1 .. n
    BY <1>2
<1>4. PICK f : f = Top
    OBVIOUS
<1>5. PICK ends \in BOOLEAN : ends = AlwaysReturns
    BY ClosingFrames
<1>6. PICK out : out = After
    OBVIOUS
<1>7. PICK A : A = Around(n)
    OBVIOUS
<1>8. PICK r \in BOOLEAN : r = Reached(n - 1)
    BY DEF Reached
<1>9. f = frames[n] /\ f \in Frame /\ f.kind \in {"then", "else", "lastArm"}
    BY <1>1, <1>4, ClosingFrames DEF InFrame
<1>10. f.returns \in BOOLEAN /\ f.all \in BOOLEAN
    BY <1>9 DEF Frame
<1>11. f.before \subseteq moved
    BY <1>1, <1>3, <1>9 DEF Scoped, Moved
<1>12. Reached(n) = (r /\ ~f.returns)
    <2>1. (\A i \in 1 .. n : ~frames[i].returns) <=> (\A i \in 1 .. n - 1 : ~frames[i].returns) /\ ~f.returns
        BY <1>3, <1>9
    <2>2. QED BY <1>8, <2>1 DEF Reached
<1>13. TailNote(n) = Note(r /\ f.joins # {}, A, UNION f.joins)
    BY <1>7, <1>8, <1>9 DEF TailNote, InLoop
<1>14. CASE f.kind = "then"
    <2>1. f.joins = {} /\ ends = FALSE
        BY <1>1, <1>4, <1>5, <1>3, <1>9, <1>14 DEF Scoped, Branches, AlwaysReturns
    <2>2. out = IF f.returns THEN f.before ELSE moved
        <3>1. out = Merged(Joins(f) \cup {f.before}, f.before)
            BY <1>4, <1>6, <1>14 DEF After
        <3>2. Joins(f) = IF f.returns THEN {} ELSE {moved}
            BY <2>1 DEF Joins
        <3>3. Joins(f) \cup {f.before} # {}
            OBVIOUS
        <3>4. out = UNION (Joins(f) \cup {f.before})
            BY <3>1, <3>3 DEF Merged
        <3>5. QED BY <1>10, <1>11, <3>2, <3>4
    <2>3. TailNote(n) = Unreached
        <3>1. (r /\ f.joins # {}) = FALSE
            BY <2>1
        <3>2. QED BY <1>13, <3>1 DEF Note
    <2>4. HeadNote(n) = Note(r, A, f.before)
        BY <1>7, <1>8, <1>9, <1>14 DEF HeadNote
    <2>5. (r /\ ~ends) = r
        BY <2>1
    <2>6. Flows(Note(r, A, f.before), Note(r, A, out))
        BY <1>11, <2>2 DEF Flows, Note, Known, Unreached
    <2>7. Flows(Note(r /\ ~f.returns, A, moved), Note(r, A, out))
        BY <1>10, <2>2 DEF Flows, Note, Known, Unreached
    <2>8. Flows(Unreached, Note(r, A, out))
        BY DEF Flows, Unreached
    <2>9. QED BY <1>1, <1>4, <1>5, <1>6, <1>7, <1>8, <1>12, <2>3, <2>4, <2>5, <2>6, <2>7, <2>8
<1>15. CASE f.kind \in {"else", "lastArm"}
    <2>1. (f.joins = {} <=> f.all) /\ ends = (f.all /\ f.returns)
        <3>1. f.joins = {} <=> f.all
            BY <1>1, <1>3, <1>9, <1>15 DEF Scoped, Branches
        <3>2. AlwaysReturns = (f.all /\ f.returns)
            BY <1>4, <1>15 DEF AlwaysReturns
        <3>3. QED BY <1>5, <3>1, <3>2
    <2>2. PICK J : J = Joins(f)
        OBVIOUS
    <2>3. J = f.joins \cup (IF f.returns THEN {} ELSE {moved})
        BY <2>2 DEF Joins
    <2>4. J # {} => out = UNION J
        BY <1>4, <1>6, <1>15, <2>2 DEF After, Merged
    <2>5. ~ends <=> J # {}
        BY <1>10, <2>1, <2>3
    <2>6. Flows(Note(r /\ f.joins # {}, A, UNION f.joins), Note(r /\ ~ends, A, out))
        <3>1. CASE r /\ f.joins # {}
            <4>1. ~ends /\ J # {} /\ UNION f.joins \subseteq out
                BY <2>3, <2>4, <2>5, <3>1
            <4>2. QED BY <3>1, <4>1 DEF Flows, Note, Known
        <3>2. CASE ~(r /\ f.joins # {})
            BY <3>2 DEF Flows, Note, Unreached
        <3>3. QED BY <3>1, <3>2
    <2>7. Flows(Note(r /\ ~f.returns, A, moved), Note(r /\ ~ends, A, out))
        <3>1. CASE r /\ ~f.returns
            <4>1. ~ends /\ J # {} /\ moved \subseteq out
                BY <2>3, <2>4, <2>5, <3>1
            <4>2. QED BY <3>1, <4>1 DEF Flows, Note, Known
        <3>2. CASE ~(r /\ ~f.returns)
            BY <3>2 DEF Flows, Note, Unreached
        <3>3. QED BY <3>1, <3>2
    <2>8. QED BY <1>1, <1>4, <1>5, <1>6, <1>7, <1>8, <1>12, <1>13, <1>15, <2>6, <2>7 DEF InFrame
<1>16. QED BY <1>9, <1>14, <1>15

(* What the end of a block is for the code, whatever its kind.             *)
LEMMA ClosePreserved ==
    ASSUME Scoped, NEW T \in Labels, Compiled(T), Close, NEW U \in Labels,
           \A a \in Nat : a # Top.id => U[a] = T[a], NEW w, w = Cur',
           Sound(code', w, U, size, Len(decls), Ids(Branching)', Ids(PastElse)', Ids(Looping)')
    PROVE  Preserved
<1>1. PICK n \in Nat : n = Depth
    BY ClosingFrames
<1>2. n > 1
    BY <1>1, ClosingFrames
<1>3. PICK dep \in Nat : dep = n - 1
    BY <1>2
<1>4. /\ size' = size /\ style' = style /\ decls' = decls /\ items' = Kept(n) /\ visible' = Around(n)
    BY <1>1 DEF Close, Closes, Around
<1>5. /\ Nesting' /\ Moved' /\ Branches' /\ moved' \subseteq 1 .. Len(decls')
    BY ClosingRest
<1>6. Depth' = dep /\ frames' \in Seq(Frame)
    BY <1>1, <1>3, ClosingFrames
<1>7. Arranged(Kept(n), Around(n), n)
    BY <1>2, KeptArranged
<1>8. Bindings' /\ Deferred'
    <2>1. n - 1 <= dep
        BY <1>3
    <2>2. \A k \in 1 .. n - 1 : Loops(k)' = Loops(k)
        BY <1>1, ClosingRest
    <2>3. QED BY <1>4, <1>6, <1>7, <2>1, <2>2, LeaveArranged
<1>9. Typed'
    <2>1. code' \in Seq(Instruction)
        BY DEF Sound
    <2>2. items' \in Seq(Cleanups)
        BY <1>4, <1>7 DEF Arranged
    <2>3. visible' \subseteq 1 .. Len(decls')
        BY <1>4 DEF Scoped, Typed, Around
    <2>4. style' \in Styles /\ size' \in Nat /\ decls' \in Seq(Binding)
        BY <1>4 DEF Scoped, Typed
    <2>5. QED BY <1>5, <1>6, <2>1, <2>2, <2>3, <2>4 DEF Typed
<1>10. Scoped'
    BY <1>5, <1>8, <1>9 DEF Scoped
<1>11. Links(U)'
    <2>1. Links(T)
        BY DEF Compiled
    <2>2. QED BY <2>1, ClosingLinks
<1>12. Sound(code', Cur', U, size', Len(decls'), Ids(Branching)', Ids(PastElse)', Ids(Looping)')
    BY <1>4
<1>13. Compiled(U)'
    BY <1>4, <1>11, <1>12, CompiledNext
<1>14. QED BY <1>10, <1>13 DEF Preserved

(* The block's cleanup runs where its end is reached.                      *)
LEMMA CloseCleanup ==
    ASSUME Scoped, NEW n \in Nat, n = Depth, NEW U, NEW B, NEW E, NEW L,
           Sound(code, Cur, U, size, Len(decls), B, E, L)
    PROVE  /\ Cleanup(n) \in Seq(Instruction)
           /\ Sound(code \o Cleanup(n), Note(Reached(n), Around(n), moved), U, size, Len(decls), B, E, L)
<1>1. Sound(code, Note(Reached(n), visible, moved), U, size, Len(decls), B, E, L)
    BY DEF Cur
<1>2. size \in Nat /\ Typed /\ Bindings /\ Deferred /\ (~Written(EndingForms) => moved = {})
    BY DEF Scoped, Typed, Branches
<1>3. Reached(n) \in BOOLEAN /\ size <= size
    BY <1>2 DEF Reached
<1>4. QED BY <1>1, <1>2, <1>3, CleanedUp

(* One instruction behind a cleanup.                                       *)
LEMMA AfterCleanup ==
    ASSUME Scoped, NEW n \in Nat, Cleanup(n) \in Seq(Instruction), NEW i \in Instruction,
           code' = code \o (Cleanup(n) \o <<i>>)
    PROVE  (code \o Cleanup(n)) \o <<i>> = code'
<1> DEFINE q == <<i>>
<1>1. q \in Seq(Instruction) /\ code \in Seq(Instruction)
    BY DEF Scoped, Typed
<1> HIDE DEF q
<1>2. (code \o Cleanup(n)) \o q = code \o (Cleanup(n) \o q)
    BY <1>1, ConcatAssociative
<1>3. QED BY <1>2 DEF q

(* } of a plain block.                                                     *)
LEMMA CloseBlockStep ==
    ASSUME Scoped, NEW T \in Labels, Compiled(T), Close, InFrame({"block"})
    PROVE  Preserved
<1>1. PICK n \in Nat : n = Depth
    BY ClosingFrames
<1>2. PICK f : f = Top
    OBVIOUS
<1>3. f.kind = "block"
    BY <1>2 DEF InFrame
<1>4. n > 1
    BY <1>1, ClosingFrames
<1>5. f = frames[n] /\ f \in Frame
    BY <1>1, <1>2, ClosingFrames
<1>6. /\ Links(T) /\ Sound(code, Cur, T, size, Len(decls), Ids(Branching), Ids(PastElse), Ids(Looping))
    BY DEF Compiled
<1>7. /\ Cleanup(n) \in Seq(Instruction)
      /\ Sound(code \o Cleanup(n), Note(Reached(n), Around(n), moved), T, size, Len(decls),
               Ids(Branching), Ids(PastElse), Ids(Looping))
    BY <1>1, <1>6, CloseCleanup
<1>8. code' = code \o Cleanup(n)
    <2>1. code' = code \o (Cleanup(n) \o Ending)
        BY <1>1 DEF Close, Emit
    <2>2. Ending = << >>
        BY <1>2, <1>3 DEF Ending, InLoop
    <2>3. Cleanup(n) \o << >> = Cleanup(n)
        BY <1>7, ConcatEmptySeq
    <2>4. QED BY <2>1, <2>2, <2>3
<1>9. AlwaysReturns = f.returns /\ After = moved
    BY <1>2, <1>3 DEF AlwaysReturns, After
<1>10. Reached(n) = (Reached(n - 1) /\ ~f.returns)
    <2>1. \A i \in 1 .. n : i \in 1 .. n - 1 \/ i = n
        BY <1>4
    <2>2. n \in 1 .. n /\ \A i \in 1 .. n - 1 : i \in 1 .. n
        BY <1>4
    <2>3. (\A i \in 1 .. n : ~frames[i].returns) <=> (\A i \in 1 .. n - 1 : ~frames[i].returns) /\ ~f.returns
        BY <1>5, <2>1, <2>2
    <2>4. QED BY <2>3 DEF Reached
<1>11. /\ Cur' = Note(Reached(n), Around(n), moved)
       /\ Ids(Branching)' = Ids(Branching) /\ Ids(PastElse)' = Ids(PastElse) /\ Ids(Looping)' = Ids(Looping)
    <2>1. /\ \A kinds : Ids(kinds)' = IF f.kind \in kinds THEN Ids(kinds) \ {f.id} ELSE Ids(kinds)
          /\ Cur' = Note(Reached(n - 1) /\ ~AlwaysReturns, Around(n), After)
        BY <1>1, <1>2, <1>6, ClosingLinks
    <2>2. f.kind \notin Branching /\ f.kind \notin PastElse /\ f.kind \notin Looping
        BY <1>3 DEF Branching, PastElse, Looping
    <2>3. Cur' = Note(Reached(n), Around(n), moved)
        BY <1>9, <1>10, <2>1
    <2>4. QED BY <2>1, <2>2, <2>3
<1>12. \A a \in Nat : a # Top.id => T[a] = T[a]
    OBVIOUS
<1>13. PICK w : w = Cur'
    OBVIOUS
<1>14. Sound(code', w, T, size, Len(decls), Ids(Branching)', Ids(PastElse)', Ids(Looping)')
    BY <1>7, <1>8, <1>11, <1>13
<1>15. QED BY <1>12, <1>13, <1>14, ClosePreserved

(* } of an if, an else or a match.                                         *)
LEMMA CloseBranchStep ==
    ASSUME Scoped, NEW T \in Labels, Compiled(T), Close, InFrame({"then", "else", "lastArm"})
    PROVE  Preserved
<1>1. PICK n \in Nat : n = Depth
    BY ClosingFrames
<1>2. PICK f : f = Top
    OBVIOUS
<1>3. PICK a : a = f.id
    OBVIOUS
<1>4. n > 1
    BY <1>1, ClosingFrames
<1>5. f = frames[n] /\ f \in Frame /\ f.kind \in {"then", "else", "lastArm"}
    BY <1>1, <1>2, ClosingFrames DEF InFrame
<1>6. n \in 2 .. n /\ a \in Nat
    BY <1>3, <1>4, <1>5 DEF Frame
<1>7. /\ Links(T) /\ Sound(code, Cur, T, size, Len(decls), Ids(Branching), Ids(PastElse), Ids(Looping))
    BY DEF Compiled
<1>8. /\ f.kind = "then" => T[a].head = HeadNote(n)
      /\ T[a].tail = TailNote(n)
    BY <1>1, <1>3, <1>5, <1>6, <1>7 DEF Links
<1>9. PICK w : w = Cur'
    OBVIOUS
<1>10. /\ \A kinds : Ids(kinds)' = IF f.kind \in kinds THEN Ids(kinds) \ {a} ELSE Ids(kinds)
       /\ w = Note(Reached(n - 1) /\ ~AlwaysReturns, Around(n), After)
    BY <1>1, <1>2, <1>3, <1>7, <1>9, ClosingLinks
<1>11. /\ Flows(TailNote(n), w) /\ Flows(Note(Reached(n), Around(n), moved), w)
       /\ f.kind = "then" => Flows(HeadNote(n), w)
    <2>1. f.kind = "then" => InFrame({"then"})
        BY <1>2 DEF InFrame
    <2>2. QED BY <1>1, <1>10, <2>1, BranchFlows
<1>12. w \in Notes
    <2>1. Around(n) \in SUBSET Nat
        BY TypedIs DEF Scoped, Around
    <2>2. (Reached(n - 1) /\ ~AlwaysReturns) \in BOOLEAN
        OBVIOUS
    <2>3. QED BY <1>10, <2>1, <2>2, NoteType
<1>13. /\ a \in Ids(Branching) /\ (f.kind # "then" => a \in Ids(PastElse))
       /\ (f.kind = "then" => a \notin Ids(PastElse)) /\ a \notin Ids(Looping)
    <2>1. a \in Ids(Branching) /\ (f.kind # "then" => a \in Ids(PastElse))
        BY <1>1, <1>3, <1>5, <1>6 DEF Ids, Branching, PastElse
    <2>2. ASSUME NEW kinds, f.kind \notin kinds PROVE a \notin Ids(kinds)
        <3>1. SUFFICES ASSUME NEW k \in 2 .. n, frames[k].kind \in kinds, frames[k].id = a PROVE FALSE
            BY <1>1 DEF Ids
        <3>2. k # n
            BY <1>5, <2>2, <3>1
        <3>3. frames[k].id # frames[n].id
            BY <1>1, <1>6, <3>2, IdsDiffer
        <3>4. QED BY <1>3, <1>5, <3>1, <3>3
    <2>3. QED BY <1>5, <2>1, <2>2 DEF PastElse, Looping
<1>14. PICK U \in Labels :
          /\ Sound(code, Cur, U, size, Len(decls), Ids(Branching), Ids(PastElse), Ids(Looping))
          /\ U[a].head = T[a].head /\ U[a].tail = w
          /\ \A b \in Nat : b # a => U[b] = T[b]
    BY <1>7, <1>8, <1>11, <1>12, <1>13, RaiseTail
<1>15. PICK B, E, L : B = Ids(Branching) /\ E = Ids(PastElse) /\ L = Ids(Looping)
    OBVIOUS
<1> DEFINE s == code \o Cleanup(n)
           v == Note(Reached(n), Around(n), moved)
           i == I("end", a)
<1>16. Cleanup(n) \in Seq(Instruction) /\ Sound(s, v, U, size, Len(decls), B, E, L)
    BY <1>1, <1>14, <1>15, CloseCleanup
<1>17. i \in Instruction /\ i.op = "end" /\ i.at = a
    BY <1>6 DEF I, Instruction, Ops
<1>18. code' = code \o (Cleanup(n) \o <<i>>)
    <2>1. code' = code \o (Cleanup(n) \o Ending)
        BY <1>1 DEF Close, Emit
    <2>2. Ending = <<i>>
        BY <1>2, <1>3, <1>5 DEF Ending, InLoop
    <2>3. QED BY <2>1, <2>2
<1> HIDE DEF i
<1>19. s \o <<i>> = code'
    BY <1>16, <1>17, <1>18, AfterCleanup
<1> HIDE DEF s
<1>20. Flows(v, w)
    BY <1>11
<1> HIDE DEF v
<1>21. Sound(s \o <<i>>, w, U, size, Len(decls), B \ {a}, E \ {a}, L)
    <2>1. i.at \in B /\ Flows(v, U[i.at].tail) /\ U[i.at].tail = w
          /\ (i.at \in E \/ Flows(U[i.at].head, U[i.at].tail))
        BY <1>8, <1>11, <1>13, <1>14, <1>15, <1>17, <1>20
    <2>2. Sound(s \o <<i>>, U[i.at].tail, U, size, Len(decls), B \ {i.at}, E \ {i.at}, L)
        BY <1>16, <1>17, <2>1, EndBranch
    <2>3. QED BY <1>17, <2>1, <2>2
<1>22. Ids(Branching)' = B \ {a} /\ Ids(PastElse)' = E \ {a} /\ Ids(Looping)' = L
    <2>1. f.kind \in Branching /\ f.kind \notin Looping /\ (f.kind \in PastElse <=> f.kind # "then")
        BY <1>5 DEF Branching, Looping, PastElse
    <2>2. f.kind = "then" => E \ {a} = E
        BY <1>13, <1>15
    <2>3. Ids(Branching)' = B \ {a} /\ Ids(Looping)' = L
        BY <1>10, <1>15, <2>1
    <2>4. Ids(PastElse)' = E \ {a}
        BY <1>10, <1>15, <2>1, <2>2
    <2>5. QED BY <2>3, <2>4
<1>23. Sound(code', w, U, size, Len(decls), Ids(Branching)', Ids(PastElse)', Ids(Looping)')
    BY <1>19, <1>21, <1>22
<1>24. \A b \in Nat : b # Top.id => U[b] = T[b]
    BY <1>2, <1>3, <1>14
<1>25. QED BY <1>9, <1>23, <1>24, ClosePreserved

(* } of a loop.                                                            *)
LEMMA CloseLoopStep ==
    ASSUME Scoped, NEW T \in Labels, Compiled(T), Close, InFrame({"while", "forever"})
    PROVE  Preserved
<1>1. PICK n \in Nat : n = Depth
    BY ClosingFrames
<1>2. PICK f : f = Top
    OBVIOUS
<1>3. PICK a : a = f.id
    OBVIOUS
<1>4. n > 1
    BY <1>1, ClosingFrames
<1>5. f = frames[n] /\ f \in Frame /\ f.kind \in {"while", "forever"} /\ InLoop(frames[n])
    BY <1>1, <1>2, ClosingFrames DEF InFrame, InLoop
<1>6. n \in 2 .. n /\ n \in 2 .. Depth
    BY <1>1, <1>4
<1>7. /\ a \in Ids(Looping) /\ a \in Nat
      /\ Reached(Depth) => Reached(n - 1)
      /\ Around(n) \ moved = Around(n) \ f.before
      /\ HeadNote(n) = Note(Reached(n - 1), Around(n), f.before)
    BY <1>3, <1>5, <1>6, InnerLoop
<1>8. /\ Links(T) /\ Sound(code, Cur, T, size, Len(decls), Ids(Branching), Ids(PastElse), Ids(Looping))
    BY DEF Compiled
<1>9. T[a].head = HeadNote(n) /\ T[a].tail = TailNote(n)
    BY <1>3, <1>5, <1>6, <1>8 DEF Links, Looping
<1>10. PICK w : w = Cur'
    OBVIOUS
<1>11. /\ \A kinds : Ids(kinds)' = IF f.kind \in kinds THEN Ids(kinds) \ {a} ELSE Ids(kinds)
       /\ w = Note(Reached(n - 1) /\ ~AlwaysReturns, Around(n), After)
    BY <1>1, <1>2, <1>3, <1>8, <1>10, ClosingLinks
<1>12. TailNote(n) = w
    <2>1. After = moved
        BY <1>2, <1>5 DEF After
    <2>2. AlwaysReturns <=> (f.kind = "forever" /\ ~f.breaks)
        BY <1>2, <1>5 DEF AlwaysReturns
    <2>3. TailNote(n) = Note(Reached(n - 1) /\ (f.kind = "while" \/ f.breaks), Around(n), f.before)
        BY <1>5 DEF TailNote
    <2>4. (Reached(n - 1) /\ (f.kind = "while" \/ f.breaks)) <=> (Reached(n - 1) /\ ~AlwaysReturns)
        BY <1>5, <2>2
    <2>5. CASE Reached(n - 1) /\ ~AlwaysReturns
        BY <1>7, <1>11, <2>1, <2>3, <2>4, <2>5 DEF Note
    <2>6. CASE ~(Reached(n - 1) /\ ~AlwaysReturns)
        BY <1>11, <2>3, <2>4, <2>6 DEF Note
    <2>7. QED BY <2>5, <2>6
<1>13. Flows(Note(Reached(n), Around(n), moved), HeadNote(n))
    <2>1. CASE Reached(n)
        BY <1>1, <1>7, <2>1 DEF Flows, Note, Known
    <2>2. CASE ~Reached(n)
        BY <2>2 DEF Flows, Note, Unreached
    <2>3. QED BY <2>1, <2>2
<1>14. PICK B, E, L : B = Ids(Branching) /\ E = Ids(PastElse) /\ L = Ids(Looping)
    OBVIOUS
<1> DEFINE s == code \o Cleanup(n)
           v == Note(Reached(n), Around(n), moved)
           i == I("again", a)
<1>15. Cleanup(n) \in Seq(Instruction) /\ Sound(s, v, T, size, Len(decls), B, E, L)
    BY <1>1, <1>8, <1>14, CloseCleanup
<1>16. i \in Instruction /\ i.op = "again" /\ i.at = a
    BY <1>7 DEF I, Instruction, Ops
<1>17. code' = code \o (Cleanup(n) \o <<i>>)
    <2>1. code' = code \o (Cleanup(n) \o Ending)
        BY <1>1 DEF Close, Emit
    <2>2. Ending = <<i>>
        BY <1>2, <1>3, <1>5 DEF Ending, InLoop
    <2>3. QED BY <2>1, <2>2
<1> HIDE DEF i
<1>18. s \o <<i>> = code'
    BY <1>15, <1>16, <1>17, AfterCleanup
<1> HIDE DEF s
<1>19. Flows(v, T[a].head)
    BY <1>9, <1>13
<1> HIDE DEF v
<1>20. Sound(s \o <<i>>, w, T, size, Len(decls), B, E, L \ {a})
    <2>1. i.at \in L /\ Flows(v, T[i.at].head) /\ T[i.at].tail = w
        BY <1>7, <1>9, <1>12, <1>14, <1>16, <1>19
    <2>2. Sound(s \o <<i>>, T[i.at].tail, T, size, Len(decls), B, E, L \ {i.at})
        BY <1>15, <1>16, <2>1, EndLoop
    <2>3. QED BY <1>16, <2>1, <2>2
<1>21. Ids(Branching)' = B /\ Ids(PastElse)' = E /\ Ids(Looping)' = L \ {a}
    <2>1. f.kind \notin Branching /\ f.kind \in Looping /\ f.kind \notin PastElse
        BY <1>5 DEF Branching, Looping, PastElse
    <2>2. QED BY <1>11, <1>14, <2>1
<1>22. Sound(code', w, T, size, Len(decls), Ids(Branching)', Ids(PastElse)', Ids(Looping)')
    BY <1>18, <1>20, <1>21
<1>23. \A b \in Nat : b # Top.id => T[b] = T[b]
    OBVIOUS
<1>24. QED BY <1>10, <1>22, <1>23, ClosePreserved

(* The end of any block.                                                   *)
LEMMA CloseStep ==
    ASSUME Scoped, NEW T \in Labels, Compiled(T), Close
    PROVE  Preserved
<1>1. \/ InFrame({"block"}) \/ InFrame({"then", "else", "lastArm"}) \/ InFrame({"while", "forever"})
    BY DEF Close, InFrame
<1>2. QED BY <1>1, CloseBlockStep, CloseBranchStep, CloseLoopStep

-----------------------------------------------------------------------------
(* The first statement and the last. *)

(* Nothing is written yet.                                                 *)
LEMMA ScopedInit ==
    ASSUME Init
    PROVE  Scoped /\ Depth = 1
<1> DEFINE f == [kind |-> "fn", id |-> 0, before |-> {}, joins |-> {},
                 all |-> TRUE, returns |-> FALSE, breaks |-> FALSE, from |-> 0]
<1>1. f \in Frame /\ f.kind = "fn" /\ f.before = {} /\ f.joins = {} /\ ~InLoop(f)
    BY DEF Frame, Kinds, InLoop
<1>2. frames = <<f>>
    BY DEF Init
<1> HIDE DEF f
<1>3. frames \in Seq(Frame) /\ Depth = 1 /\ frames[1] = f
    BY <1>1, <1>2 DEF Depth
<1>4. /\ decls = << >> /\ visible = {} /\ moved = {} /\ items = << >> /\ code = << >> /\ size = 0
      /\ style \in Styles
    BY DEF Init
<1>5. Typed
    <2>1. decls \in Seq(Binding) /\ items \in Seq(Cleanups) /\ code \in Seq(Instruction)
        BY <1>4, EmptySeq
    <2>2. QED BY <1>3, <1>4, <2>1 DEF Typed
<1>6. /\ \A k \in 1 .. Depth : k = 1
      /\ \A k \in 2 .. Depth : FALSE
      /\ DOMAIN items = {}
    <2>1. \A k \in 1 .. 1 : k = 1
        OBVIOUS
    <2>2. \A k \in 2 .. 1 : FALSE
        OBVIOUS
    <2>3. DOMAIN items = {}
        BY <1>4
    <2>4. QED BY <1>3, <2>1, <2>2, <2>3
<1>7. Nesting
    BY <1>1, <1>3, <1>6 DEF Nesting
<1>8. Bindings /\ Deferred
    BY <1>4, <1>6 DEF Bindings, Deferred, Placed, Sorted, NamesOpen, AtHome, EachDropped, InOrder,
                      ReadBefore
<1>9. Moved
    <2>1. \A j, k \in 1 .. Depth : ~(j < k)
        BY <1>6
    <2>2. QED BY <1>1, <1>3, <1>4, <1>6, <2>1 DEF Moved
<1>10. Branches
    BY <1>1, <1>3, <1>4, <1>6 DEF Branches
<1>11. QED BY <1>3, <1>5, <1>7, <1>8, <1>9, <1>10 DEF Scoped

(* The function alone is no block with a number.                           *)
LEMMA NoBlocks ==
    ASSUME Depth = 1
    PROVE  (\A kinds : Ids(kinds) = {}) /\ (\A T : Links(T))
<1>1. \A k \in 2 .. 1 : FALSE
    OBVIOUS
<1>2. \A k \in 2 .. Depth : FALSE
    BY <1>1
<1>3. QED BY <1>2 DEF Ids, Links

(* Before the first statement the empty code is sound.                     *)
LEMMA CompiledInit ==
    ASSUME Init
    PROVE  Scoped /\ \E T \in Labels : Compiled(T)
<1> DEFINE u == Known({}, {})
           T == [a \in Nat |-> [head |-> u, tail |-> u]]
           notes == [k \in 1 .. 1 |-> u]
<1>1. u \in Notes
    BY DEF Notes, Known
<1>2. T \in Labels
    BY <1>1 DEF Labels
<1>3. Scoped /\ Depth = 1
    BY ScopedInit
<1>4. /\ decls = << >> /\ visible = {} /\ moved = {} /\ code = << >> /\ size = 0
      /\ frames[1].returns = FALSE
    BY DEF Init
<1>5. Cur = u
    <2>1. \A j \in 1 .. 1 : j = 1
        OBVIOUS
    <2>2. Reached(Depth)
        BY <1>3, <1>4, <2>1 DEF Reached
    <2>3. QED BY <1>4, <2>2 DEF Cur, Note
<1> HIDE DEF u
<1>6. notes \in [1 .. 1 -> Notes] /\ notes[1] = u
    BY <1>1
<1> HIDE DEF T, notes
<1>7. code \in Seq(Instruction) /\ Len(code) = 0 /\ Len(decls) = 0 /\ DOMAIN code = {}
    BY <1>4, EmptySeq
<1>8. Flowing(code, u, T)
    <2>1. \A k \in 1 .. 0 : FALSE
        OBVIOUS
    <2>2. /\ notes \in [1 .. Len(code) + 1 -> Notes] /\ notes[Len(code) + 1] = u
          /\ \A k \in 1 .. Len(code) : Rule(code[k], notes[k], notes[k + 1], T)
        BY <1>6, <1>7, <2>1
    <2>3. QED BY <1>6, <2>2 DEF Flowing, u
<1>9. Matched(code, T, size, Len(decls), {}, {}, {})
    <2>1. \A op : Marks(code, op) = {}
        BY <1>7 DEF Marks
    <2>2. QED BY <2>1 DEF Matched
<1>10. Sound(code, Cur, T, size, Len(decls), {}, {}, {})
    <2>1. size \in Nat /\ Len(decls) \in Nat
        BY <1>4, <1>7
    <2>2. QED BY <1>1, <1>2, <1>5, <1>7, <1>8, <1>9, <2>1 DEF Sound
<1>11. Compiled(T)
    BY <1>3, <1>10, NoBlocks DEF Compiled
<1>12. QED BY <1>2, <1>3, <1>11

(* The function ends where its last statement is behind every scope, or    *)
(* where it is never reached.                                              *)
LEMMA LastCode ==
    ASSUME Scoped, NEW T \in Labels, Compiled(T), EndFn
    PROVE  /\ Sound(code', Unreached, T, size, Len(decls), {}, {}, {})
           /\ \E s \in Seq(Instruction) : code' = s \o <<I("ret", 0)>>
<1> DEFINE i == I("ret", 0)
           n == Len(decls)
<1>1. Depth = 1 /\ (style.void \/ Top.returns)
      /\ code' = code \o (IF style.void THEN Leaving ELSE <<i>>)
    BY DEF EndFn, Emit
<1>2. Sound(code, Cur, T, size, n, {}, {}, {})
    BY <1>1, NoBlocks DEF Compiled
<1>3. /\ size \in Nat /\ size <= size /\ n \in Nat /\ n <= n
      /\ Typed /\ Bindings /\ Deferred /\ (~Written(EndingForms) => moved = {})
      /\ code \in Seq(Instruction)
    BY TypedIs DEF Scoped, Typed, Branches
<1>4. i \in Instruction /\ i.op = "ret" /\ i.op \notin Controls /\ i.op \notin {"fresh", "from"}
      /\ Unreached \in Notes /\ ~Unreached.reached
    BY DEF Instruction, Ops, I, Unreached, Notes, Controls
<1>5. CASE style.void
    <2>1. Reached(Depth) \in BOOLEAN
        BY DEF Reached
    <2>2. Sound(code, Note(Reached(Depth), visible, moved), T, size, n, {}, {}, {})
        BY <1>2 DEF Cur
    <2>3. Leaving \in Seq(Instruction) /\ Sound(code \o Leaving, Unreached, T, size, n, {}, {}, {})
        <3> HIDE DEF n
        <3>1. QED BY <1>3, <2>1, <2>2, LeftBehind
    <2>4. PICK r : r = Cleanup(1)
        OBVIOUS
    <2>5. r \in Seq(Instruction)
        BY <1>3, <2>4, CleanupFlows
    <2>6. code' = code \o (r \o <<i>>)
        BY <1>1, <1>5, <2>4 DEF Leaving
    <2>7. code' = (code \o r) \o <<i>>
        <3>1. PICK q : q = <<i>>
            OBVIOUS
        <3>2. q \in Seq(Instruction)
            BY <1>4, <3>1
        <3>3. (code \o r) \o q = code \o (r \o q)
            BY <1>3, <2>5, <3>2, ConcatAssociative
        <3>4. QED BY <2>6, <3>1, <3>3
    <2>8. code \o r \in Seq(Instruction)
        BY <1>3, <2>5, ConcatProperties
    <2>9. QED BY <1>1, <1>5, <2>3, <2>7, <2>8
<1>6. CASE ~style.void
    <2>1. Cur = Unreached
        <3>1. frames[Depth].returns /\ Depth \in 1 .. Depth
            BY <1>1, <1>6 DEF Top
        <3>2. ~Reached(Depth)
            BY <3>1 DEF Reached
        <3>3. QED BY <3>2 DEF Cur, Note
    <2>2. Rule(i, Cur, Unreached, T)
        BY <1>4, <2>1 DEF Rule
    <2> HIDE DEF i, n
    <2>3. Sound(code \o <<i>>, Unreached, T, size, n, {}, {}, {})
        BY <1>2, <1>3, <1>4, <2>2, StraightOne
    <2>4. QED BY <1>1, <1>3, <1>6, <2>3 DEF i, n
<1>7. QED BY <1>5, <1>6

-----------------------------------------------------------------------------
(* The inductive invariant of the execution. *)

(* The finished code is annotated: every jump has its target.              *)
Annotated(notes, T, n) ==
    /\ code \in Seq(Instruction) /\ Len(code) > 0 /\ code[Len(code)].op = "ret"
    /\ T \in Labels /\ n \in Nat /\ notes \in [1 .. Len(code) + 1 -> Notes]
    /\ notes[1] = Known({}, {})
    /\ \A k \in 1 .. Len(code) : Rule(code[k], notes[k], notes[k + 1], T)
    /\ Matched(code, T, size, n, {}, {}, {})

(* The machine's variables: a binding holds a resource created no later.   *)
Machine(n) ==
    /\ inst \in [1 .. n -> Nat] /\ \A d \in 1 .. n : inst[d] <= d
    /\ live \in [1 .. n -> BOOLEAN]
    /\ status \in [1 .. n -> {"none", "live", "dead", "out"}]

Owns(d) == live[d] /\ inst[d] # 0 /\ status[inst[d]] = "live"

(* The execution agrees with the note v: what is whole is owned, what an   *)
(* open binding has not given away is whole, no two share a resource, no   *)
(* other binding owns one, and no resource is without an owner.            *)
Agrees(v, n) ==
    /\ v.open \subseteq 1 .. n
    /\ \A d \in v.whole : live[d]
    /\ \A d \in v.open : live[d] => Owns(d)
    /\ \A d \in 1 .. n : Owns(d) => d \in v.open
    /\ \A d, e \in v.open : live[d] /\ live[e] /\ inst[d] = inst[e] => d = e
    /\ \A r \in 1 .. n : status[r] = "live" => \E d \in v.open : live[d] /\ inst[d] = r

(* Where the execution is, the annotation says it may be.                  *)
Meets(notes, n) ==
    /\ pc \in 1 .. Len(code) + 1
    /\ pc <= Len(code) => notes[pc].reached /\ Agrees(notes[pc], n)
    /\ pc = Len(code) + 1 => \A r \in 1 .. n : status[r] # "live"

Executed == \E n \in Nat, T \in Labels, notes \in [1 .. Len(code) + 1 -> Notes] :
                Annotated(notes, T, n) /\ Machine(n) /\ Meets(notes, n)

(* The compiler's invariant, and then the execution's.                     *)
Inv == Followed => (pc = 0 /\ Compiling) \/ Executed

(* What an instruction does to a note depends on no variable but the       *)
(* style.                                                                  *)
LEMMA RuleSame ==
    ASSUME style' = style
    PROVE  \A i, v, w, T : Rule(i, v, w, T)' <=> Rule(i, v, w, T)
<1>1. ReadsWhole' <=> ReadsWhole
    BY DEF ReadsWhole, Written
<1>2. QED BY <1>1 DEF Rule

(* Execution starts.                                                       *)
LEMMA EndFnStep ==
    ASSUME Scoped, NEW T \in Labels, Compiled(T), EndFn
    PROVE  Executed'
<1>1. /\ Sound(code', Unreached, T, size, Len(decls), {}, {}, {})
      /\ \E s \in Seq(Instruction) : code' = s \o <<I("ret", 0)>>
    BY LastCode
<1>2. PICK n \in Nat : n = Len(decls)
    BY TypedIs DEF Scoped
<1>3. /\ pc' = 1 /\ size' = size /\ style' = style
      /\ inst' = [d \in 1 .. n |-> 0] /\ live' = [d \in 1 .. n |-> FALSE]
      /\ status' = [d \in 1 .. n |-> "none"]
    BY <1>2 DEF EndFn
<1>4. PICK m \in Nat : m = Len(code') /\ m > 0 /\ code'[m].op = "ret"
    <2>1. PICK s \in Seq(Instruction) : code' = s \o <<I("ret", 0)>>
        BY <1>1
    <2> DEFINE i == I("ret", 0)
    <2>2. i \in Instruction /\ i.op = "ret"
        BY DEF Instruction, Ops, I
    <2>3. code' = s \o <<i>>
        BY <2>1
    <2> HIDE DEF i
    <2>4. Len(s) \in Nat /\ Len(s \o <<i>>) = Len(s) + 1 /\ (s \o <<i>>)[Len(s) + 1] = i
        OBVIOUS
    <2>5. Len(s) + 1 \in Nat /\ Len(s) + 1 > 0
        BY <2>4
    <2>6. QED BY <2>2, <2>4, <2>5, <2>3
<1>5. PICK notes \in [1 .. m + 1 -> Notes] :
          /\ notes[1] = Known({}, {})
          /\ \A k \in 1 .. m : Rule(code'[k], notes[k], notes[k + 1], T)
    BY <1>1, <1>4 DEF Sound, Flowing
<1>6. code' \in Seq(Instruction) /\ Matched(code', T, size, n, {}, {}, {})
    BY <1>1, <1>2 DEF Sound
<1>7. \A k \in 1 .. m : Rule(code[k], notes[k], notes[k + 1], T)'
    BY <1>3, <1>5, RuleSame
<1>8. Annotated(notes, T, n)'
    BY <1>3, <1>4, <1>5, <1>6, <1>7 DEF Annotated
<1>9. Machine(n)'
    BY <1>3 DEF Machine
<1>10. Meets(notes, n)'
    <2>1. notes[1].reached /\ notes[1].open = {} /\ notes[1].whole = {}
        BY <1>5 DEF Known
    <2>2. pc' \in 1 .. m + 1 /\ pc' # m + 1
        BY <1>3, <1>4
    <2>3. Agrees(notes[1], n)'
        BY <1>3, <2>1 DEF Agrees, Owns
    <2>4. QED BY <1>3, <1>4, <2>1, <2>2, <2>3 DEF Meets
<1>11. QED BY <1>4, <1>8, <1>9, <1>10 DEF Executed

-----------------------------------------------------------------------------
(* Every instruction preserves it. *)

(* A jump finds its target where there is one.                             *)
LEMMA PositionIs ==
    ASSUME code \in Seq(Instruction), NEW op, NEW a
    PROVE  /\ a \in Marks(code, op) => /\ Position(op, a) \in 1 .. Len(code)
                                       /\ code[Position(op, a)].op = op
                                       /\ code[Position(op, a)].at = a
           /\ a \notin Marks(code, op) => Position(op, a) = 0
<1> DEFINE S == {k \in 1 .. Len(code) : code[k].op = op /\ code[k].at = a}
<1>1. Position(op, a) = IF S # {} THEN Min(S) ELSE 0
    BY DEF Position, SelectInSeq
<1>2. a \in Marks(code, op) <=> S # {}
    <2>1. DOMAIN code = 1 .. Len(code)
        BY LenProperties
    <2>2. QED BY <2>1 DEF Marks
<1>3. S # {} => Min(S) \in S
    <2>1. ASSUME S # {} PROVE \E x \in S : \A y \in S : x <= y
        <3>1. S \subseteq Nat
            <4>1. Len(code) \in Nat
                BY LenProperties
            <4>2. QED BY <4>1
        <3> HIDE DEF S
        <3>2. QED BY <2>1, <3>1, Least
    <2> HIDE DEF S
    <2>2. QED BY <2>1 DEF Min
<1>4. QED BY <1>1, <1>2, <1>3

(* The instruction behind one that is not the last is an instruction.      *)
LEMMA Onward ==
    ASSUME NEW m \in Nat, NEW p \in 1 .. m
    PROVE  /\ p \in 1 .. m + 1 /\ p <= m /\ p # m + 1 /\ p + 1 \in 1 .. m + 1
           /\ p # m => p + 1 \in 1 .. m
OBVIOUS

(* The instruction that is executed, and what is known of it.              *)
LEMMA Present ==
    ASSUME NEW notes, NEW T, NEW n, Annotated(notes, T, n), Meets(notes, n), pc \in 1 .. Len(code)
    PROVE  /\ Now \in Instruction /\ Now.at \in Nat /\ pc + 1 \in 1 .. Len(code) + 1
           /\ Rule(Now, notes[pc], notes[pc + 1], T) /\ Now.at \in Marks(code, Now.op)
           /\ notes[pc] \in Notes /\ notes[pc].reached /\ Agrees(notes[pc], n)
           /\ Now.op # "ret" => pc + 1 \in 1 .. Len(code)
<1>1. /\ code \in Seq(Instruction) /\ code[Len(code)].op = "ret"
      /\ notes \in [1 .. Len(code) + 1 -> Notes]
      /\ Rule(code[pc], notes[pc], notes[pc + 1], T)
    BY DEF Annotated
<1>2. Len(code) \in Nat /\ DOMAIN code = 1 .. Len(code)
    BY <1>1, LenProperties
<1>3. Now \in Instruction
    BY <1>1, ElementOfSeq DEF Now
<1>4. Now.at \in Nat /\ Now.at \in Marks(code, Now.op)
    BY <1>2, <1>3 DEF Instruction, Now, Marks
<1>5. /\ pc \in 1 .. Len(code) + 1 /\ pc <= Len(code) /\ pc + 1 \in 1 .. Len(code) + 1
      /\ pc # Len(code) => pc + 1 \in 1 .. Len(code)
    BY <1>2, Onward
<1>6. notes[pc] \in Notes /\ notes[pc].reached /\ Agrees(notes[pc], n)
    BY <1>1, <1>5 DEF Meets
<1>7. Now.op # "ret" => pc + 1 \in 1 .. Len(code)
    BY <1>1, <1>5 DEF Now
<1>8. QED BY <1>1, <1>3, <1>4, <1>5, <1>6, <1>7 DEF Now

(* The execution goes on where the annotation knows less.                  *)
LEMMA Lands ==
    ASSUME NEW notes, NEW T, NEW n, Annotated(notes, T, n), UNCHANGED compiler, Machine(n)',
           NEW v, v.reached, Agrees(v, n)', NEW q \in 1 .. Len(code), Flows(v, notes[q]), pc' = q
    PROVE  Executed'
<1>1. code' = code /\ style' = style /\ size' = size
    BY DEF compiler
<1>2. /\ n \in Nat /\ T \in Labels /\ notes \in [1 .. Len(code) + 1 -> Notes]
      /\ Len(code) \in Nat
    BY LenProperties DEF Annotated
<1>3. Annotated(notes, T, n)'
    <2>1. \A k \in 1 .. Len(code) : Rule(code[k], notes[k], notes[k + 1], T)'
        <3>1. \A k \in 1 .. Len(code) : Rule(code[k], notes[k], notes[k + 1], T)
            BY DEF Annotated
        <3>2. \A i, u, w, U : Rule(i, u, w, U)' <=> Rule(i, u, w, U)
            BY <1>1, RuleSame
        <3>3. QED BY <1>1, <3>1, <3>2
    <2>2. QED BY <1>1, <2>1 DEF Annotated
<1>4. Meets(notes, n)'
    <2>1. q \in 1 .. Len(code) + 1 /\ q # Len(code) + 1
        BY <1>2, Onward
    <2>2. notes[q].reached /\ notes[q].open = v.open /\ notes[q].whole \subseteq v.whole
        BY DEF Flows
    <2>3. Agrees(notes[q], n)'
        BY <2>2 DEF Agrees
    <2>4. QED BY <1>1, <2>1, <2>2, <2>3 DEF Meets
<1>5. QED BY <1>1, <1>2, <1>3, <1>4 DEF Executed

(* Control goes to where a jump finds its mark.                            *)
LEMMA JumpLands ==
    ASSUME NEW notes, NEW T, NEW n, Annotated(notes, T, n), NEW op \in Controls, NEW a,
           a \in Marks(code, op)
    PROVE  /\ Position(op, a) + 1 \in 1 .. Len(code)
           /\ op \in {"end", "again"} => Flows(T[a].tail, notes[Position(op, a) + 1])
           /\ op \in {"else", "loop"} => Flows(T[a].head, notes[Position(op, a) + 1])
<1>1. code \in Seq(Instruction) /\ code[Len(code)].op = "ret" /\ Len(code) \in Nat
    <2>1. code \in Seq(Instruction) /\ code[Len(code)].op = "ret"
        BY DEF Annotated
    <2>2. QED BY <2>1, LenProperties
<1>2. PICK p \in 1 .. Len(code) : p = Position(op, a) /\ code[p].op = op /\ code[p].at = a
    BY <1>1, PositionIs
<1>3. op # "ret"
    BY DEF Controls
<1>4. p + 1 \in 1 .. Len(code)
    <2>1. p # Len(code)
        BY <1>1, <1>2, <1>3
    <2>2. QED BY <1>1, <2>1, Onward
<1>5. Rule(code[p], notes[p], notes[p + 1], T)
    BY <1>2 DEF Annotated
<1>6. /\ op \in {"end", "again"} => Flows(T[a].tail, notes[p + 1])
      /\ op \in {"else", "loop"} => Flows(T[a].head, notes[p + 1])
    BY <1>2, <1>5 DEF Rule
<1>7. QED BY <1>2, <1>4, <1>6

(* Nothing changes hands.                                                  *)
LEMMA SameMachine ==
    ASSUME NEW n, Machine(n), UNCHANGED machine
    PROVE  Machine(n)' /\ \A v : Agrees(v, n) => Agrees(v, n)'
BY DEF Machine, Agrees, Owns, machine

(* What is held is a resource.                                             *)
LEMMA HeldIs ==
    ASSUME NEW n \in Nat, Machine(n)
    PROVE  \A d \in 1 .. n : inst[d] # 0 => inst[d] \in 1 .. n
<1>1. ASSUME NEW d \in 1 .. n, NEW r \in Nat, r <= d, r # 0 PROVE r \in 1 .. n
    BY <1>1
<1>2. \A d \in 1 .. n : inst[d] \in Nat /\ inst[d] <= d
    BY DEF Machine
<1>3. QED BY <1>1, <1>2

(* let x = T { ... };                                                      *)
LEMMA RunLetStep ==
    ASSUME NEW notes, NEW T, NEW n, Annotated(notes, T, n), Machine(n), Meets(notes, n), RunLet
    PROVE  Executed'
<1>1. /\ pc \in 1 .. Len(code) /\ Now.op = "fresh" /\ UNCHANGED compiler /\ pc' = pc + 1
      /\ inst' = Holding(Now.at) /\ live' = [Live EXCEPT ![Now.at] = TRUE]
      /\ status' = [status EXCEPT ![Now.at] = "live"]
    BY DEF RunLet, Running, Falls
<1>2. PICK a \in Nat : a = Now.at
    BY <1>1, Present
<1>3. PICK v \in Notes : v = notes[pc]
    BY <1>1, Present
<1>4. /\ v.reached /\ Agrees(v, n) /\ a \in Marks(code, "fresh") /\ pc + 1 \in 1 .. Len(code)
      /\ Rule(Now, v, notes[pc + 1], T)
    BY <1>1, <1>2, <1>3, Present
<1>5. a \in 1 .. n /\ n \in Nat
    BY <1>4 DEF Annotated, Matched
<1> DEFINE u == Known(v.open \cup {a}, v.whole \cup {a})
<1>6. (\A d \in v.open : d < a) /\ Flows(u, notes[pc + 1])
    BY <1>1, <1>2, <1>4 DEF Rule
<1>7. u.reached /\ u.open = v.open \cup {a} /\ u.whole = v.whole \cup {a}
    BY DEF Known
<1> HIDE DEF u
<1>8. /\ DOMAIN inst = 1 .. n /\ DOMAIN live = 1 .. n /\ DOMAIN status = 1 .. n
      /\ \A d \in 1 .. n : inst[d] \in Nat /\ inst[d] <= d /\ live[d] \in BOOLEAN
    BY DEF Machine
<1>9. /\ inst' = [d \in 1 .. n |-> IF d < a THEN inst[d] ELSE IF d = a THEN a ELSE 0]
      /\ live' = [d \in 1 .. n |-> IF d = a THEN TRUE ELSE d < a /\ live[d]]
      /\ status' = [d \in 1 .. n |-> IF d = a THEN "live" ELSE status[d]]
    <2>1. Live = [d \in 1 .. n |-> d < a /\ live[d]]
        BY <1>2, <1>8 DEF Live
    <2>2. QED BY <1>1, <1>2, <1>8, <2>1 DEF Holding
<1>10. /\ \A d \in 1 .. n : d < a => inst'[d] = inst[d] /\ inst[d] # a /\ live'[d] = live[d]
       /\ inst'[a] = a /\ live'[a] /\ a # 0
       /\ \A d \in 1 .. n : ~(d < a) /\ d # a => ~live'[d]
       /\ \A r \in 1 .. n : status'[r] = IF r = a THEN "live" ELSE status[r]
    <2>1. \A d \in 1 .. n : d < a => d # a /\ inst[d] # a
        BY <1>2, <1>8
    <2>2. a # 0 /\ ~(a < a)
        BY <1>5
    <2>3. \A d \in 1 .. n : d < a => inst'[d] = inst[d] /\ inst[d] # a /\ live'[d] = live[d]
        BY <1>8, <1>9, <2>1
    <2>4. inst'[a] = a /\ live'[a]
        BY <1>5, <1>9, <2>2
    <2>5. \A d \in 1 .. n : ~(d < a) /\ d # a => ~live'[d]
        BY <1>9
    <2>6. \A r \in 1 .. n : status'[r] = IF r = a THEN "live" ELSE status[r]
        BY <1>9
    <2>7. QED BY <2>2, <2>3, <2>4, <2>5, <2>6
<1>11. Machine(n)'
    <2>1. inst' \in [1 .. n -> Nat]
        BY <1>2, <1>8, <1>9
    <2>2. \A d \in 1 .. n : inst'[d] <= d
        BY <1>2, <1>8, <1>9
    <2>3. live' \in [1 .. n -> BOOLEAN] /\ status' \in [1 .. n -> {"none", "live", "dead", "out"}]
        BY <1>9 DEF Machine
    <2>4. QED BY <2>1, <2>2, <2>3 DEF Machine
<1>12. v.open \subseteq 1 .. n /\ v.whole \subseteq v.open
    BY <1>3, <1>4 DEF Agrees, Notes
<1>13. \A d \in v.open : d \in 1 .. n /\ d < a /\ (live'[d] <=> live[d]) /\ inst'[d] = inst[d] /\ inst[d] # a
    BY <1>6, <1>10, <1>12
<1>14. \A d \in v.open : live[d] => Owns(d)'
    <2>1. ASSUME NEW d \in v.open, live[d] PROVE Owns(d)'
        <3>1. inst[d] # 0 /\ status[inst[d]] = "live"
            BY <1>4, <2>1 DEF Agrees, Owns
        <3>2. inst[d] \in 1 .. n /\ inst[d] # a /\ inst'[d] = inst[d] /\ live'[d]
            BY <1>5, <1>13, <2>1, <3>1, HeldIs
        <3>3. QED BY <1>10, <3>1, <3>2 DEF Owns
    <2>2. QED BY <2>1
<1>15. Owns(a)'
    BY <1>5, <1>10 DEF Owns
<1>16. \A d \in 1 .. n : Owns(d)' => d \in u.open
    <2>1. ASSUME NEW d \in 1 .. n, Owns(d)', d # a
          PROVE  d \in v.open
        <3>1. d < a /\ inst'[d] = inst[d] /\ live[d] /\ inst[d] # a
            BY <1>10, <2>1 DEF Owns
        <3>2. inst[d] \in 1 .. n
            BY <1>5, <2>1, <3>1, HeldIs DEF Owns
        <3>3. Owns(d)
            BY <1>10, <2>1, <3>1, <3>2 DEF Owns
        <3>4. QED BY <1>4, <3>3 DEF Agrees
    <2>2. QED BY <1>7, <2>1
<1>17. \A d, e \in u.open : live'[d] /\ live'[e] /\ inst'[d] = inst'[e] => d = e
    BY <1>4, <1>7, <1>10, <1>13 DEF Agrees
<1>18. \A r \in 1 .. n : status'[r] = "live" => \E d \in u.open : live'[d] /\ inst'[d] = r
    BY <1>4, <1>7, <1>10, <1>13 DEF Agrees
<1>19. \A d \in u.whole : live'[d]
    BY <1>4, <1>7, <1>10, <1>12, <1>13 DEF Agrees
<1>20. Agrees(u, n)'
    <2>1. u.open \subseteq 1 .. n
        BY <1>5, <1>7, <1>12
    <2>2. \A d \in u.open : live'[d] => Owns(d)'
        BY <1>7, <1>13, <1>14, <1>15
    <2>3. QED BY <1>16, <1>17, <1>18, <1>19, <2>1, <2>2 DEF Agrees
<1>21. QED BY <1>1, <1>4, <1>6, <1>7, <1>11, <1>20, Lands

(* let x = move y;                                                         *)
LEMMA RunCopyStep ==
    ASSUME NEW notes, NEW T, NEW n, Annotated(notes, T, n), Machine(n), Meets(notes, n), RunCopy
    PROVE  Executed'
<1>1. /\ pc \in 1 .. Len(code) /\ Now.op \in {"from", "copy"} /\ UNCHANGED compiler /\ pc' = pc + 1
      /\ inst' = Holding(Value)
      /\ live' = [d \in DOMAIN live |-> d = Now.at \/ (Live[d] /\ (Now.op = "from" => d # Now.flag))]
      /\ status' = status
    BY DEF RunCopy, Running, Falls
<1>2. PICK a \in Nat : a = Now.at
    BY <1>1, Present
<1>3. PICK v \in Notes : v = notes[pc]
    BY <1>1, Present
<1>4. /\ v.reached /\ Agrees(v, n) /\ a \in Marks(code, Now.op) /\ pc + 1 \in 1 .. Len(code)
      /\ Rule(Now, v, notes[pc + 1], T)
    BY <1>1, <1>2, <1>3, Present
<1>5. Now.op = "from" /\ Now.flag = Now.src
    BY <1>1, <1>4 DEF Rule
<1>6. PICK s : s = Now.src
    OBVIOUS
<1>7. a \in 1 .. n /\ n \in Nat
    BY <1>4, <1>5 DEF Annotated, Matched
<1> DEFINE u == Known(v.open \cup {a}, (v.whole \ {s}) \cup {a})
<1>8. s \in v.whole /\ (\A d \in v.open : d < a) /\ Flows(u, notes[pc + 1])
    BY <1>2, <1>4, <1>5, <1>6 DEF Rule
<1>9. u.reached /\ u.open = v.open \cup {a} /\ u.whole = (v.whole \ {s}) \cup {a}
    BY DEF Known
<1> HIDE DEF u
<1>10. v.open \subseteq 1 .. n /\ v.whole \subseteq v.open
    BY <1>3, <1>4 DEF Agrees, Notes
<1>11. /\ DOMAIN inst = 1 .. n /\ DOMAIN live = 1 .. n
       /\ \A d \in 1 .. n : inst[d] \in Nat /\ inst[d] <= d /\ live[d] \in BOOLEAN
    BY DEF Machine
<1>12. s \in v.open /\ s \in 1 .. n /\ s < a /\ s # a /\ live[s] /\ Owns(s)
    <2>1. s \in v.open /\ s \in 1 .. n /\ s < a
        BY <1>8, <1>10
    <2>2. s # a
        BY <1>2, <2>1
    <2>3. live[s] /\ Owns(s)
        BY <1>4, <1>8, <2>1 DEF Agrees
    <2>4. QED BY <2>1, <2>2, <2>3
<1>13. /\ inst' = [d \in 1 .. n |-> IF d < a THEN inst[d] ELSE IF d = a THEN inst[s] ELSE 0]
       /\ live' = [d \in 1 .. n |-> d = a \/ (d < a /\ live[d] /\ d # s)]
    <2>1. Live = [d \in 1 .. n |-> d < a /\ live[d]]
        BY <1>2, <1>11 DEF Live
    <2>2. Value = inst[s]
        BY <1>2, <1>6, <1>12 DEF Value
    <2>3. Holding(Value) = [d \in 1 .. n |-> IF d < a THEN inst[d] ELSE IF d = a THEN inst[s] ELSE 0]
        BY <1>2, <1>11, <2>2 DEF Holding
    <2>4. \A d \in 1 .. n : (d = Now.at \/ (Live[d] /\ (Now.op = "from" => d # Now.flag)))
                            = (d = a \/ (d < a /\ live[d] /\ d # s))
        BY <1>2, <1>5, <1>6, <2>1
    <2>5. QED BY <1>1, <1>11, <2>3, <2>4
<1>14. /\ \A d \in 1 .. n : d < a => inst'[d] = inst[d] /\ (live'[d] <=> (live[d] /\ d # s))
       /\ inst'[a] = inst[s] /\ live'[a]
       /\ \A d \in 1 .. n : ~(d < a) /\ d # a => ~live'[d]
    <2>1. \A d \in 1 .. n : d < a => d # a
        BY <1>2
    <2>2. ~(a < a)
        BY <1>2
    <2>3. QED BY <1>7, <1>13, <2>1, <2>2
<1>15. Machine(n)'
    <2>1. inst' \in [1 .. n -> Nat]
        BY <1>11, <1>12, <1>13
    <2>2. \A d \in 1 .. n : inst'[d] <= d
        <3>1. inst[s] <= a
            BY <1>2, <1>11, <1>12
        <3>2. QED BY <1>11, <1>13, <3>1
    <2>3. live' \in [1 .. n -> BOOLEAN] /\ status' \in [1 .. n -> {"none", "live", "dead", "out"}]
        BY <1>1, <1>13 DEF Machine
    <2>4. QED BY <2>1, <2>2, <2>3 DEF Machine
<1>16. \A d \in v.open : d \in 1 .. n /\ d < a /\ (live'[d] <=> (live[d] /\ d # s)) /\ inst'[d] = inst[d]
    BY <1>8, <1>10, <1>14
<1>17. \A d \in v.open : live'[d] => Owns(d)'
    BY <1>1, <1>4, <1>16 DEF Agrees, Owns
<1>18. Owns(a)'
    BY <1>1, <1>12, <1>14 DEF Owns
<1>19. \A d \in 1 .. n : Owns(d)' => d \in u.open
    <2>1. ASSUME NEW d \in 1 .. n, Owns(d)', d # a
          PROVE  d \in v.open
        <3>1. d < a /\ inst'[d] = inst[d] /\ live[d]
            BY <1>14, <2>1 DEF Owns
        <3>2. Owns(d)
            BY <1>1, <2>1, <3>1 DEF Owns
        <3>3. QED BY <1>4, <3>2 DEF Agrees
    <2>2. QED BY <1>9, <2>1
<1>20. \A d, e \in u.open : live'[d] /\ live'[e] /\ inst'[d] = inst'[e] => d = e
    <2>1. \A d \in v.open : live'[d] => inst'[d] # inst'[a]
        BY <1>4, <1>12, <1>14, <1>16 DEF Agrees
    <2>2. \A d, e \in v.open : live'[d] /\ live'[e] /\ inst'[d] = inst'[e] => d = e
        BY <1>4, <1>16 DEF Agrees
    <2>3. QED BY <1>9, <2>1, <2>2
<1>21. \A r \in 1 .. n : status'[r] = "live" => \E d \in u.open : live'[d] /\ inst'[d] = r
    <2>1. ASSUME NEW r \in 1 .. n, status'[r] = "live"
          PROVE  \E d \in u.open : live'[d] /\ inst'[d] = r
        <3>1. PICK d \in v.open : live[d] /\ inst[d] = r
            BY <1>1, <1>4, <2>1 DEF Agrees
        <3>2. QED BY <1>9, <1>14, <1>16, <3>1
    <2>2. QED BY <2>1
<1>22. \A d \in u.whole : live'[d]
    BY <1>4, <1>9, <1>10, <1>14, <1>16 DEF Agrees
<1>23. Agrees(u, n)'
    <2>1. u.open \subseteq 1 .. n
        BY <1>7, <1>9, <1>10
    <2>2. \A d \in u.open : live'[d] => Owns(d)'
        BY <1>9, <1>17, <1>18
    <2>3. QED BY <1>19, <1>20, <1>21, <1>22, <2>1, <2>2 DEF Agrees
<1>24. QED BY <1>1, <1>4, <1>8, <1>9, <1>15, <1>23, Lands

(* A binding's resource ends, and the binding has given it away.           *)
LEMMA Given ==
    ASSUME NEW n \in Nat, Machine(n), NEW v \in Notes, Agrees(v, n), NEW a \in v.whole,
           NEW mark \in {"dead", "out"}, inst' = inst,
           status' = [status EXCEPT ![inst[a]] = mark], live' = [live EXCEPT ![a] = FALSE]
    PROVE  Machine(n)' /\ Agrees(Known(v.open, v.whole \ {a}), n)'
<1>1. v.open \subseteq 1 .. n /\ v.whole \subseteq v.open
    BY DEF Agrees, Notes
<1>2. a \in v.open /\ a \in 1 .. n /\ live[a] /\ inst[a] # 0
    BY <1>1 DEF Agrees, Owns
<1>3. inst[a] \in 1 .. n
    BY <1>2, HeldIs
<1>4. /\ live \in [1 .. n -> BOOLEAN] /\ status \in [1 .. n -> {"none", "live", "dead", "out"}]
      /\ inst \in [1 .. n -> Nat] /\ \A d \in 1 .. n : inst[d] <= d
    BY DEF Machine
<1>5. /\ \A d \in 1 .. n : live'[d] <=> (live[d] /\ d # a)
      /\ \A r \in 1 .. n : status'[r] = IF r = inst[a] THEN mark ELSE status[r]
    BY <1>2, <1>3, <1>4
<1>6. Machine(n)'
    <2>1. live' \in [1 .. n -> BOOLEAN]
        BY <1>4
    <2>2. status' \in [1 .. n -> {"none", "live", "dead", "out"}]
        BY <1>4
    <2>3. QED BY <1>4, <2>1, <2>2 DEF Machine
<1>7. \A d \in v.open : live'[d] => Owns(d)'
    <2>1. ASSUME NEW d \in v.open, live'[d]
          PROVE  Owns(d)'
        <3>1. d \in 1 .. n /\ live[d] /\ d # a
            BY <1>1, <1>5, <2>1
        <3>2. inst[d] # 0 /\ status[inst[d]] = "live" /\ inst[d] # inst[a]
            BY <1>2, <3>1 DEF Agrees, Owns
        <3>3. inst[d] \in 1 .. n
            BY <3>1, <3>2, HeldIs
        <3>4. QED BY <1>5, <2>1, <3>2, <3>3 DEF Owns
    <2>2. QED BY <2>1
<1>8. \A d \in 1 .. n : Owns(d)' => d \in v.open
    <2>1. ASSUME NEW d \in 1 .. n, Owns(d)'
          PROVE  Owns(d)
        <3>1. live[d] /\ inst[d] # 0 /\ status'[inst[d]] = "live"
            BY <1>5, <2>1 DEF Owns
        <3>2. inst[d] \in 1 .. n
            BY <3>1, HeldIs
        <3>3. QED BY <1>5, <3>1, <3>2 DEF Owns
    <2>2. QED BY <2>1 DEF Agrees
<1>9. \A d, e \in v.open : live'[d] /\ live'[e] /\ inst'[d] = inst'[e] => d = e
    BY <1>1, <1>5 DEF Agrees
<1>10. \A r \in 1 .. n : status'[r] = "live" => \E d \in v.open : live'[d] /\ inst'[d] = r
    <2>1. ASSUME NEW r \in 1 .. n, status'[r] = "live"
          PROVE  \E d \in v.open : live'[d] /\ inst'[d] = r
        <3>1. status[r] = "live" /\ r # inst[a]
            BY <1>5, <2>1
        <3>2. PICK d \in v.open : live[d] /\ inst[d] = r
            BY <3>1 DEF Agrees
        <3>3. QED BY <1>1, <1>5, <3>1, <3>2
    <2>2. QED BY <2>1
<1>11. \A d \in v.whole \ {a} : live'[d]
    BY <1>1, <1>5 DEF Agrees
<1>12. QED BY <1>1, <1>6, <1>7, <1>8, <1>9, <1>10, <1>11 DEF Agrees, Known

(* A binding leaves its scope, and takes its resource with it.             *)
LEMMA Dropped ==
    ASSUME NEW n \in Nat, Machine(n), NEW v \in Notes, Agrees(v, n), NEW a \in v.open,
           inst' = inst, live' = live,
           status' = IF live[a] THEN [status EXCEPT ![inst[a]] = "dead"] ELSE status
    PROVE  Machine(n)' /\ Agrees(Known(v.open \ {a}, v.whole \ {a}), n)'
<1>1. v.open \subseteq 1 .. n /\ v.whole \subseteq v.open /\ a \in 1 .. n
    BY DEF Agrees, Notes
<1>2. live[a] => inst[a] # 0 /\ inst[a] \in 1 .. n
    BY <1>1, HeldIs DEF Agrees, Owns
<1>3. /\ live \in [1 .. n -> BOOLEAN] /\ status \in [1 .. n -> {"none", "live", "dead", "out"}]
      /\ inst \in [1 .. n -> Nat] /\ \A d \in 1 .. n : inst[d] <= d
    BY DEF Machine
<1>4. \A r \in 1 .. n : status'[r] = IF live[a] /\ r = inst[a] THEN "dead" ELSE status[r]
    BY <1>2, <1>3
<1>5. Machine(n)'
    <2>1. status' \in [1 .. n -> {"none", "live", "dead", "out"}]
        BY <1>3
    <2>2. QED BY <1>3, <2>1 DEF Machine
<1>6. \A d \in v.open \ {a} : live[d] => Owns(d)'
    <2>1. ASSUME NEW d \in v.open \ {a}, live[d]
          PROVE  Owns(d)'
        <3>1. d \in 1 .. n /\ inst[d] # 0 /\ status[inst[d]] = "live" /\ (live[a] => inst[d] # inst[a])
            BY <1>1, <2>1 DEF Agrees, Owns
        <3>2. inst[d] \in 1 .. n
            BY <3>1, HeldIs
        <3>3. QED BY <1>4, <2>1, <3>1, <3>2 DEF Owns
    <2>2. QED BY <2>1
<1>7. \A d \in 1 .. n : Owns(d)' => d \in v.open \ {a}
    <2>1. ASSUME NEW d \in 1 .. n, Owns(d)'
          PROVE  d \in v.open \ {a}
        <3>1. live[d] /\ inst[d] # 0 /\ status'[inst[d]] = "live"
            BY <2>1 DEF Owns
        <3>2. inst[d] \in 1 .. n
            BY <3>1, HeldIs
        <3>3. Owns(d) /\ ~(live[a] /\ inst[d] = inst[a])
            BY <1>4, <3>1, <3>2 DEF Owns
        <3>4. QED BY <3>1, <3>3 DEF Agrees
    <2>2. QED BY <2>1
<1>8. \A r \in 1 .. n : status'[r] = "live" => \E d \in v.open \ {a} : live[d] /\ inst[d] = r
    <2>1. ASSUME NEW r \in 1 .. n, status'[r] = "live"
          PROVE  \E d \in v.open \ {a} : live[d] /\ inst[d] = r
        <3>1. status[r] = "live" /\ ~(live[a] /\ r = inst[a])
            BY <1>4, <2>1
        <3>2. PICK d \in v.open : live[d] /\ inst[d] = r
            BY <3>1 DEF Agrees
        <3>3. QED BY <3>1, <3>2
    <2>2. QED BY <2>1
<1>9. /\ \A d \in v.whole \ {a} : live[d]
      /\ \A d, e \in v.open \ {a} : live[d] /\ live[e] /\ inst[d] = inst[e] => d = e
    BY DEF Agrees
<1>10. QED BY <1>1, <1>5, <1>6, <1>7, <1>8, <1>9 DEF Agrees, Known

(* A call that destroys what it is given, or a return that hands it on.    *)
LEMMA RunEndStep ==
    ASSUME NEW notes, NEW T, NEW n, Annotated(notes, T, n), Machine(n), Meets(notes, n),
           RunDestroy \/ RunOut
    PROVE  Executed'
<1>1. PICK a \in Nat : a = Now.at
    BY Present DEF RunDestroy, RunOut, Running
<1>2. PICK v \in Notes : v = notes[pc]
    BY Present DEF RunDestroy, RunOut, Running
<1>3. /\ pc \in 1 .. Len(code) /\ Now.op \in {"take", "destroy", "deferred", "out"}
      /\ UNCHANGED compiler /\ pc' = pc + 1
    BY DEF RunDestroy, RunOut, Running, Falls
<1>4. /\ v.reached /\ Agrees(v, n) /\ pc + 1 \in 1 .. Len(code) /\ Rule(Now, v, notes[pc + 1], T)
    BY <1>2, <1>3, Present
<1> DEFINE u == Known(v.open, v.whole \ {a})
<1>5. Now.op # "deferred" /\ a \in v.whole /\ Flows(u, notes[pc + 1])
    BY <1>1, <1>3, <1>4 DEF Rule
<1>6. u.reached
    BY DEF Known
<1>7. PICK mark \in {"dead", "out"} :
          inst' = inst /\ status' = [status EXCEPT ![inst[a]] = mark] /\ live' = [live EXCEPT ![a] = FALSE]
    BY <1>1, <1>5 DEF RunDestroy, RunOut, Ends, Running
<1>8. n \in Nat
    BY DEF Annotated
<1>9. Machine(n)' /\ Agrees(u, n)'
    BY <1>4, <1>5, <1>7, <1>8, Given
<1> HIDE DEF u
<1>10. QED BY <1>3, <1>4, <1>5, <1>6, <1>9, Lands

(* The cleanup of a scope.                                                 *)
LEMMA RunDropStep ==
    ASSUME NEW notes, NEW T, NEW n, Annotated(notes, T, n), Machine(n), Meets(notes, n), RunDrop
    PROVE  Executed'
<1>1. PICK a \in Nat : a = Now.at
    BY Present DEF RunDrop, Running
<1>2. PICK v \in Notes : v = notes[pc]
    BY Present DEF RunDrop, Running
<1>3. /\ pc \in 1 .. Len(code) /\ Now.op = "drop" /\ UNCHANGED compiler /\ pc' = pc + 1
      /\ inst' = inst /\ live' = live
      /\ status' = IF live[a] THEN [status EXCEPT ![inst[a]] = "dead"] ELSE status
    BY <1>1 DEF RunDrop, Running, Falls, Ends
<1>4. /\ v.reached /\ Agrees(v, n) /\ pc + 1 \in 1 .. Len(code) /\ Rule(Now, v, notes[pc + 1], T)
    BY <1>2, <1>3, Present
<1> DEFINE u == Known(v.open \ {a}, v.whole \ {a})
<1>5. a \in v.open /\ Flows(u, notes[pc + 1])
    BY <1>1, <1>3, <1>4 DEF Rule
<1>6. u.reached
    BY DEF Known
<1>7. n \in Nat
    BY DEF Annotated
<1>8. Machine(n)' /\ Agrees(u, n)'
    BY <1>3, <1>4, <1>5, <1>7, Dropped
<1> HIDE DEF u
<1>9. QED BY <1>3, <1>4, <1>5, <1>6, <1>8, Lands

(* A step that changes hands of nothing, along one jump or none.           *)
LEMMA Moving ==
    ASSUME NEW notes, NEW T, NEW n, Annotated(notes, T, n), Machine(n), Meets(notes, n),
           pc \in 1 .. Len(code), UNCHANGED compiler, UNCHANGED machine,
           NEW q \in 1 .. Len(code), pc' = q,
           NEW w, Flows(notes[pc], w), Flows(w, notes[q])
    PROVE  Executed'
<1>1. PICK v : v = notes[pc]
    OBVIOUS
<1>2. v.reached /\ Agrees(v, n) /\ Flows(v, notes[q])
    BY <1>1, Present, FlowsThrough
<1>3. Machine(n)' /\ Agrees(v, n)'
    BY <1>2, SameMachine
<1>4. QED BY <1>2, <1>3, Lands

(* A read, and a mark that execution passes, change no resource.           *)
LEMMA RunUseStep ==
    ASSUME NEW notes, NEW T, NEW n, Annotated(notes, T, n), Machine(n), Meets(notes, n),
           RunUse \/ RunOn
    PROVE  Executed'
<1>1. /\ pc \in 1 .. Len(code) /\ Now.op \in {"use", "end", "loop"} /\ pc' = pc + 1
      /\ UNCHANGED compiler /\ UNCHANGED machine
    BY DEF RunUse, RunOn, Running, Falls, Data
<1>2. pc + 1 \in 1 .. Len(code) /\ Rule(Now, notes[pc], notes[pc + 1], T)
    BY <1>1, Present
<1>3. \E w : Flows(notes[pc], w) /\ Flows(w, notes[pc + 1])
    BY <1>1, <1>2, FlowsSame DEF Rule
<1>4. QED BY <1>1, <1>2, <1>3, Moving

(* What a control instruction's rule says, and where its marks are.        *)
LEMMA ControlIs ==
    ASSUME NEW notes, NEW T, NEW n, Annotated(notes, T, n), Meets(notes, n), pc \in 1 .. Len(code),
           Now.op \in Controls
    PROVE  LET a == Now.at
               v == notes[pc]
               op == Now.op
           IN  /\ op \in {"if", "test"} => pc + 1 \in 1 .. Len(code) /\ Flows(v, notes[pc + 1])
               /\ op \in {"if", "again", "continue"} => Flows(v, T[a].head)
               /\ op \in {"else", "test", "break"} => Flows(v, T[a].tail)
               /\ op = "if" => a \in Marks(code, "end")
               /\ op = "if" /\ a \notin Marks(code, "else") => Flows(T[a].head, T[a].tail)
               /\ op = "else" => a \in Marks(code, "end")
               /\ op \in {"test", "break"} => a \in Marks(code, "again")
               /\ op \in {"again", "continue"} => a \in Marks(code, "loop")
<1>1. Now.at \in Marks(code, Now.op) /\ Rule(Now, notes[pc], notes[pc + 1], T)
      /\ (Now.op # "ret" => pc + 1 \in 1 .. Len(code))
    BY Present
<1>2. Matched(code, T, size, n, {}, {}, {})
    BY DEF Annotated
<1>3. /\ Now.op = "if" => /\ Now.at \in Marks(code, "end")
                          /\ Now.at \in Marks(code, "else") \/ Flows(T[Now.at].head, T[Now.at].tail)
      /\ Now.op = "else" => Now.at \in Marks(code, "end")
      /\ Now.op \in {"test", "break"} => Now.at \in Marks(code, "again")
      /\ Now.op \in {"again", "continue"} => Now.at \in Marks(code, "loop")
    BY <1>1, <1>2 DEF Matched
<1>4. /\ Now.op \in {"if", "test"} => pc + 1 \in 1 .. Len(code) /\ Flows(notes[pc], notes[pc + 1])
      /\ Now.op \in {"if", "again", "continue"} => Flows(notes[pc], T[Now.at].head)
      /\ Now.op \in {"else", "test", "break"} => Flows(notes[pc], T[Now.at].tail)
    BY <1>1 DEF Rule
<1>5. QED BY <1>3, <1>4

(* A condition goes either way.                                            *)
LEMMA RunIfStep ==
    ASSUME NEW notes, NEW T, NEW n, Annotated(notes, T, n), Machine(n), Meets(notes, n),
           RunIf \/ RunTest
    PROVE  Executed'
<1>1. /\ pc \in 1 .. Len(code) /\ Now.op \in {"if", "test"}
      /\ UNCHANGED compiler /\ UNCHANGED machine
    BY DEF RunIf, RunTest, Running, Data
<1>2. PICK a : a = Now.at
    OBVIOUS
<1>3. code \in Seq(Instruction)
    BY DEF Annotated
<1>4. CASE pc' = pc + 1
    BY <1>1, <1>4, ControlIs, FlowsSame, Moving DEF Controls
<1>5. CASE Now.op = "if" /\ Position("else", a) # 0 /\ pc' = Position("else", a) + 1
    <2>1. a \in Marks(code, "else") /\ Flows(notes[pc], T[a].head)
        BY <1>1, <1>2, <1>3, <1>5, ControlIs, PositionIs DEF Controls
    <2>2. pc' \in 1 .. Len(code) /\ Flows(T[a].head, notes[pc'])
        BY <1>5, <2>1, JumpLands DEF Controls
    <2>3. QED BY <1>1, <2>1, <2>2, Moving
<1>6. CASE Now.op = "if" /\ Position("else", a) = 0 /\ pc' = Position("end", a) + 1
    <2>1. a \notin Marks(code, "else")
        BY <1>3, <1>6, PositionIs
    <2>2. /\ a \in Marks(code, "end") /\ Flows(notes[pc], T[a].head)
          /\ Flows(T[a].head, T[a].tail)
        BY <1>1, <1>2, <1>6, <2>1, ControlIs DEF Controls
    <2>3. pc' \in 1 .. Len(code) /\ Flows(T[a].tail, notes[pc'])
        BY <1>6, <2>2, JumpLands DEF Controls
    <2>4. Flows(notes[pc], T[a].tail)
        BY <2>2, FlowsThrough
    <2>5. QED BY <1>1, <2>3, <2>4, Moving
<1>7. CASE Now.op = "test" /\ pc' = Position("again", a) + 1
    <2>1. a \in Marks(code, "again") /\ Flows(notes[pc], T[a].tail)
        BY <1>1, <1>2, <1>7, ControlIs DEF Controls
    <2>2. pc' \in 1 .. Len(code) /\ Flows(T[a].tail, notes[pc'])
        BY <1>7, <2>1, JumpLands DEF Controls
    <2>3. QED BY <1>1, <2>1, <2>2, Moving
<1>8. QED BY <1>2, <1>4, <1>5, <1>6, <1>7 DEF RunIf, RunTest, Running, Falls, Goto

(* The unconditional jumps reach a place whose note holds.                 *)
LEMMA RunJumpStep ==
    ASSUME NEW notes, NEW T, NEW n, Annotated(notes, T, n), Machine(n), Meets(notes, n),
           RunElse \/ RunLoop \/ RunBreak
    PROVE  Executed'
<1>1. /\ pc \in 1 .. Len(code) /\ UNCHANGED compiler /\ UNCHANGED machine
      /\ Now.op \in {"else", "again", "continue", "break"}
    BY DEF RunElse, RunLoop, RunBreak, Running, Data
<1>2. PICK a : a = Now.at
    OBVIOUS
<1>3. \/ \E op \in {"end", "again"} :
             /\ a \in Marks(code, op) /\ Flows(notes[pc], T[a].tail)
             /\ pc' = Position(op, a) + 1
      \/ /\ a \in Marks(code, "loop") /\ Flows(notes[pc], T[a].head)
         /\ pc' = Position("loop", a) + 1
    <2>1. CASE RunElse
        BY <1>1, <1>2, <2>1, ControlIs DEF RunElse, Running, Goto, Controls
    <2>2. CASE RunLoop
        BY <1>1, <1>2, <2>2, ControlIs DEF RunLoop, Running, Goto, Controls
    <2>3. CASE RunBreak
        BY <1>1, <1>2, <2>3, ControlIs DEF RunBreak, Running, Goto, Controls
    <2>4. QED BY <2>1, <2>2, <2>3
<1>4. QED BY <1>1, <1>3, JumpLands, Moving DEF Controls

(* The function returns: nothing is still to be cleaned up.                *)
LEMMA RunRetStep ==
    ASSUME NEW notes, NEW T, NEW n, Annotated(notes, T, n), Machine(n), Meets(notes, n), RunRet
    PROVE  Executed'
<1>1. /\ pc \in 1 .. Len(code) /\ Now.op = "ret" /\ UNCHANGED compiler /\ UNCHANGED machine
      /\ pc' = Len(code) + 1
    BY DEF RunRet, Running, Data
<1>2. code' = code /\ style' = style /\ size' = size /\ status' = status
    BY <1>1 DEF compiler, machine
<1>3. /\ n \in Nat /\ T \in Labels /\ notes \in [1 .. Len(code) + 1 -> Notes]
      /\ code \in Seq(Instruction)
    BY DEF Annotated
<1>4. \A r \in 1 .. n : status[r] # "live"
    BY <1>1, Present DEF Rule, Agrees
<1>5. Annotated(notes, T, n)'
    <2>1. \A k \in 1 .. Len(code) : Rule(code[k], notes[k], notes[k + 1], T)'
        <3>1. \A k \in 1 .. Len(code) : Rule(code[k], notes[k], notes[k + 1], T)
            BY DEF Annotated
        <3>2. \A i, u, w, U : Rule(i, u, w, U)' <=> Rule(i, u, w, U)
            BY <1>2, RuleSame
        <3>3. QED BY <1>2, <3>1, <3>2
    <2>2. QED BY <1>2, <2>1 DEF Annotated
<1>6. Meets(notes, n)'
    <2>1. Len(code) \in Nat
        BY <1>3, LenProperties
    <2>2. Len(code) + 1 \in 1 .. Len(code) + 1 /\ ~(Len(code) + 1 <= Len(code))
        BY <2>1
    <2>3. QED BY <1>1, <1>2, <1>4, <2>2 DEF Meets
<1>7. Machine(n)'
    BY <1>1, SameMachine
<1>8. QED BY <1>2, <1>3, <1>5, <1>6, <1>7 DEF Executed

-----------------------------------------------------------------------------
(* The theorems. *)

(* The kind of function never changes, and statements are written before   *)
(* the first instruction is executed.                                      *)
LEMMA StatementOnly ==
    ASSUME Statement
    PROVE  pc = 0 /\ style' = style /\ (EndFn \/ pc' = 0)
<1>1. ASSUME NEW x \in Names,
             Let(x) \/ Use(x) \/ Take(x) \/ TakeTry(x) \/ Destroy(x) \/ DeferUse(x)
             \/ DeferDestroy(x) \/ ReturnMove(x) \/ OpenWhileMove(x) \/ NextArm(x)
      PROVE  pc = 0 /\ style' = style /\ pc' = 0
    BY <1>1 DEF Let, Use, Take, TakeTry, Destroy, DeferUse, DeferDestroy, ReturnMove, OpenWhileMove,
                NextArm, Writes, Closes
<1>2. ASSUME NEW x \in Names, NEW y \in Names, LetMove(x, y) \/ LetField(x, y) \/ OpenMatch(x, y)
      PROVE  pc = 0 /\ style' = style /\ pc' = 0
    BY <1>2 DEF LetMove, LetField, OpenMatch, Writes
<1>3. ASSUME NEW kind, OpenWhile(kind)
      PROVE  pc = 0 /\ style' = style /\ pc' = 0
    BY <1>3 DEF OpenWhile, Writes
<1>4. ASSUME Try \/ Return \/ Break \/ Continue \/ OpenIf \/ OpenBlock \/ Else \/ Close
      PROVE  pc = 0 /\ style' = style /\ pc' = 0
    BY <1>4 DEF Try, Return, Break, Continue, OpenIf, OpenBlock, Else, Close, Writes, Closes
<1>5. ASSUME EndFn
      PROVE  pc = 0 /\ style' = style
    BY <1>5 DEF EndFn
<1>6. QED BY <1>1, <1>2, <1>3, <1>4, <1>5 DEF Statement

(* Execution happens in the code, and compiles nothing.                    *)
LEMMA ExecuteOnly ==
    ASSUME Execute
    PROVE  pc \in 1 .. Len(code) /\ style' = style
<1>1. ASSUME NEW ops, Running(ops)
      PROVE  pc \in 1 .. Len(code) /\ style' = style
    BY <1>1 DEF Running, compiler
<1>2. \E ops : Running(ops)
    BY DEF Execute, RunLet, RunCopy, RunDestroy, RunDrop, RunUse, RunOut, RunIf, RunTest, RunElse,
           RunLoop, RunBreak, RunOn, RunRet
<1>3. QED BY <1>1, <1>2

(* A statement of the forms the checker follows keeps the annotation.      *)
LEMMA StatementStep ==
    ASSUME ~Shadowing, Followed, Scoped, NEW T \in Labels, Compiled(T), Statement, ~EndFn
    PROVE  Preserved
<1>1. ASSUME NEW x \in Names,
             \/ Let(x) \/ Use(x) \/ Take(x) \/ TakeTry(x) \/ Destroy(x)
             \/ DeferUse(x) \/ ReturnMove(x) \/ NextArm(x)
      PROVE  Preserved
    BY <1>1, LetStep, UseStep, TakeStep, TakeTryStep, DestroyStep, DeferUseStep, ReturnMoveStep,
       NextArmStep
<1>2. ASSUME NEW x \in Names, NEW y \in Names, LetMove(x, y) \/ OpenMatch(x, y)
      PROVE  Preserved
    BY <1>2, LetMoveStep, OpenMatchStep
<1>3. ASSUME NEW kind \in {"while", "forever"}, OpenWhile(kind)
      PROVE  Preserved
    BY <1>3, OpenWhileStep
<1>4. ASSUME Try \/ Return \/ Break \/ Continue \/ OpenIf \/ OpenBlock \/ Else \/ Close
      PROVE  Preserved
    BY <1>4, TryStep, ReturnStep, BreakStep, ContinueStep, OpenIfStep, OpenBlockStep, ElseStep,
       CloseStep
<1>5. ASSUME NEW x \in Names, NEW y \in Names, DeferDestroy(x) \/ OpenWhileMove(x) \/ LetField(x, y)
      PROVE  FALSE
    BY <1>5 DEF DeferDestroy, OpenWhileMove, LetField, Writes, Followed, Written
<1>6. QED BY <1>1, <1>2, <1>3, <1>4, <1>5 DEF Statement

(* Every instruction keeps the invariant of execution.                     *)
LEMMA InstructionStep ==
    ASSUME NEW notes, NEW T, NEW n, Annotated(notes, T, n), Machine(n), Meets(notes, n), Execute
    PROVE  Executed'
BY RunLetStep, RunCopyStep, RunEndStep, RunDropStep, RunUseStep, RunIfStep, RunJumpStep, RunRetStep
   DEF Execute

(* Every step, of the compiler or of the program, keeps the invariant.     *)
LEMMA InvNext ==
    ASSUME ~Shadowing, Inv, Next
    PROVE  Inv'
<1>1. SUFFICES ASSUME Followed PROVE Inv'
    <2>1. style' = style
        BY StatementOnly, ExecuteOnly DEF Next
    <2>2. Followed' <=> Followed
        BY <2>1 DEF Followed, Written
    <2>3. QED BY <2>2 DEF Inv
<1>2. CASE Statement
    <2>1. pc = 0 /\ (EndFn \/ pc' = 0)
        BY <1>2, StatementOnly
    <2>2. Compiling
        <3>1. pc \notin 1 .. Len(code) + 1
            BY <2>1
        <3>2. QED BY <1>1, <3>1 DEF Inv, Executed, Meets
    <2>3. PICK T \in Labels : Compiled(T)
        BY <2>2 DEF Compiling
    <2>4. Scoped
        BY <2>2 DEF Compiling
    <2>5. CASE EndFn
        BY <2>3, <2>4, <2>5, EndFnStep DEF Inv
    <2>6. CASE ~EndFn
        <3>1. Preserved
            BY <1>1, <1>2, <2>3, <2>4, <2>6, StatementStep
        <3>2. QED BY <2>1, <2>6, <3>1 DEF Inv, Preserved, Compiling
    <2>7. QED BY <2>5, <2>6
<1>3. CASE Execute
    <2>1. pc # 0
        <3>1. pc \in 1 .. Len(code)
            BY <1>3, ExecuteOnly
        <3>2. \A k \in 1 .. Len(code) : k # 0
            OBVIOUS
        <3>3. QED BY <3>1, <3>2
    <2>2. PICK n \in Nat, T \in Labels, notes \in [1 .. Len(code) + 1 -> Notes] :
              Annotated(notes, T, n) /\ Machine(n) /\ Meets(notes, n)
        BY <1>1, <2>1 DEF Inv, Executed
    <2>3. Executed'
        BY <1>3, <2>2, InstructionStep
    <2>4. QED BY <2>3 DEF Inv
<1>4. QED BY <1>2, <1>3 DEF Next

(* Nor does standing still break it.                                       *)
LEMMA InvStays ==
    ASSUME Inv, UNCHANGED vars
    PROVE  Inv'
<1>1. /\ style' = style /\ decls' = decls /\ visible' = visible /\ moved' = moved
      /\ frames' = frames /\ items' = items /\ code' = code /\ size' = size
      /\ pc' = pc /\ inst' = inst /\ live' = live /\ status' = status
    BY DEF vars, compiler, machine
<1>2. Followed' <=> Followed
    BY <1>1 DEF Followed, Written
<1>3. ASSUME Compiling PROVE Compiling'
    <2>1. Scoped
        BY <1>3 DEF Compiling
    <2>2. PICK T \in Labels : Compiled(T)
        BY <1>3 DEF Compiling
    <2>3. PICK v : v = Cur
        OBVIOUS
    <2>4. /\ SameBlocks /\ Cur' = v
          /\ \A k \in 1 .. Depth : frames'[k].breaks = frames[k].breaks
          /\ \A k \in 1 .. Depth : k < Depth => frames'[k].returns = frames[k].returns
        BY <1>1, <2>1, <2>3, PlainFrames DEF Cur, Scoped
    <2>5. /\ Links(T)
          /\ Sound(code', Cur', T, size', Len(decls), Ids(Branching), Ids(PastElse), Ids(Looping))
        BY <1>1, <2>2, <2>3, <2>4 DEF Compiled
    <2>6. /\ size' \in Nat /\ size <= size' /\ {} \in SUBSET visible /\ moved' = moved \cup {}
          /\ \A k \in 1 .. Depth : InLoop(frames[k]) => \A d \in {} : d \notin Around(k)
        BY <1>1, <2>1 DEF Scoped, Typed
    <2>7. Preserved
        BY <1>1, <2>1, <2>4, <2>5, <2>6, QuietPreserved
    <2>8. QED BY <2>7 DEF Preserved, Compiling
<1>4. ASSUME Executed PROVE Executed'
    <2>1. PICK n \in Nat, T \in Labels, notes \in [1 .. Len(code) + 1 -> Notes] :
              Annotated(notes, T, n) /\ Machine(n) /\ Meets(notes, n)
        BY <1>4 DEF Executed
    <2>2. \A k \in 1 .. Len(code) : Rule(code[k], notes[k], notes[k + 1], T)'
        <3>1. \A k \in 1 .. Len(code) : Rule(code[k], notes[k], notes[k + 1], T)
            BY <2>1 DEF Annotated
        <3>2. \A i, u, w, U : Rule(i, u, w, U)' <=> Rule(i, u, w, U)
            BY <1>1, RuleSame
        <3>3. QED BY <1>1, <3>1, <3>2
    <2>3. Annotated(notes, T, n)'
        BY <1>1, <2>1, <2>2 DEF Annotated
    <2>4. Machine(n)' /\ \A v : Agrees(v, n) => Agrees(v, n)'
        BY <1>1, <2>1, SameMachine DEF machine
    <2>5. Meets(notes, n)'
        BY <1>1, <2>1, <2>4 DEF Meets
    <2>6. QED BY <1>1, <2>1, <2>3, <2>4, <2>5 DEF Executed
<1>5. QED BY <1>1, <1>2, <1>3, <1>4 DEF Inv

(* The invariant holds in every state, when no name is declared again.     *)
THEOREM Correct ==
    ASSUME ~Shadowing
    PROVE  Spec => []Inv
<1>1. Init => Inv
    BY CompiledInit DEF Inv, Compiling, Init
<1>2. Inv /\ [Next]_vars => Inv'
    <2>1. Inv /\ UNCHANGED vars => Inv'
        BY InvStays
    <2>2. QED BY <2>1, InvNext
<1>3. QED BY <1>1, <1>2, PTL DEF Spec

(* In a state of the invariant, what the next instruction needs is there.  *)
LEMMA InvSays ==
    ASSUME Inv, Followed
    PROVE  DestroyedOnce /\ UsedWhole /\ NothingLeaks /\ ReverseOrder
<1>1. CASE pc = 0
    <2>1. \A ops : ~Executing(ops)
        <3>1. pc \notin 1 .. Len(code) /\ ~(pc > 1)
            BY <1>1
        <3>2. QED BY <3>1 DEF Executing
    <2>2. ~(pc > 1)
        BY <1>1
    <2>3. QED BY <2>1, <2>2 DEF DestroyedOnce, UsedWhole, NothingLeaks, ReverseOrder
<1>2. CASE Executed
    <2>1. PICK n \in Nat, T \in Labels, notes \in [1 .. Len(code) + 1 -> Notes] :
              Annotated(notes, T, n) /\ Machine(n) /\ Meets(notes, n)
        BY <1>2 DEF Executed
    <2>2. DOMAIN inst = 1 .. n /\ DOMAIN live = 1 .. n /\ DOMAIN status = 1 .. n
        BY <2>1 DEF Machine
    <2>3. ASSUME pc \in 1 .. Len(code)
          PROVE  /\ DestroyedOnce /\ UsedWhole /\ ReverseOrder
                 /\ Executing({"fresh"}) => status[Now.at] # "live"
        <3>1. PICK v \in Notes : v = notes[pc]
            BY <2>1, <2>3, Present
        <3>2. PICK a \in Nat : a = Now.at
            BY <2>1, <2>3, Present
        <3>3. /\ v.reached /\ Agrees(v, n) /\ Rule(Now, v, notes[pc + 1], T)
              /\ a \in Marks(code, Now.op)
            BY <2>1, <2>3, <3>1, <3>2, Present
        <3>4. /\ \A d \in v.whole : Owns(d)
              /\ \A d \in v.open : live[d] => Owns(d)
              /\ \A d \in 1 .. n : Owns(d) => d \in v.open
            BY <3>1, <3>3 DEF Agrees, Notes
        <3>5. DestroyedOnce
            <4>1. CASE Now.op \in {"take", "destroy", "deferred", "out"}
                <5>1. a \in v.whole
                    BY <3>2, <3>3, <4>1 DEF Rule
                <5>2. QED BY <3>2, <3>4, <5>1 DEF DestroyedOnce, Owns
            <4>2. CASE Now.op = "drop" /\ live[a]
                <5>1. a \in v.open
                    BY <3>2, <3>3, <4>2 DEF Rule
                <5>2. QED BY <3>2, <3>4, <4>2, <5>1 DEF DestroyedOnce, Owns
            <4>3. QED BY <3>2, <4>1, <4>2 DEF DestroyedOnce, Executing
        <3>6. UsedWhole
            <4>1. ASSUME Now.op = "use", Written({"deferUse", "letField"}) => ~Written(EndingForms)
                  PROVE  inst[a] # 0 /\ status[inst[a]] = "live"
                <5>1. ReadsWhole
                    BY <4>1 DEF ReadsWhole, Written
                <5>2. a \in v.whole
                    BY <3>2, <3>3, <4>1, <5>1 DEF Rule
                <5>3. QED BY <3>4, <5>2 DEF Owns
            <4>2. QED BY <3>2, <4>1 DEF UsedWhole, Executing
        <3>7. ReverseOrder
            <4>1. ASSUME Now.op = "drop", NEW d \in 1 .. n, d > a, live[d], inst[d] # 0
                  PROVE  status[inst[d]] # "live"
                <5>1. \A e \in v.open : e <= a
                    BY <3>2, <3>3, <4>1 DEF Rule
                <5>2. ~(d <= a)
                    BY <3>2, <4>1
                <5>3. ~Owns(d)
                    BY <3>4, <4>1, <5>1, <5>2
                <5>4. QED BY <4>1, <5>3 DEF Owns
            <4>2. QED BY <2>2, <3>2, <4>1 DEF ReverseOrder, Executing
        <3>8. Executing({"fresh"}) => status[Now.at] # "live"
            <4>1. SUFFICES ASSUME Now.op = "fresh" PROVE status[a] # "live"
                BY <3>2 DEF Executing
            <4>2. a \in 1 .. n
                BY <2>1, <3>3, <4>1 DEF Annotated, Matched
            <4>3. \A d \in v.open : d < a
                BY <3>2, <3>3, <4>1 DEF Rule
            <4>4. SUFFICES ASSUME NEW d \in v.open, inst[d] = a PROVE FALSE
                BY <3>3, <4>2 DEF Agrees
            <4>5. d < a /\ d \in 1 .. n /\ inst[d] <= d
                BY <2>1, <3>3, <4>3 DEF Agrees, Machine
            <4>6. ~(a <= d)
                BY <3>2, <4>5
            <4>7. QED BY <4>4, <4>5, <4>6
        <3>9. QED BY <3>5, <3>6, <3>7, <3>8
    <2>4. ASSUME pc \notin 1 .. Len(code)
          PROVE  DestroyedOnce /\ UsedWhole /\ ReverseOrder /\ ~Executing({"fresh"})
        BY <2>4 DEF DestroyedOnce, UsedWhole, ReverseOrder, Executing
    <2>5. pc = Len(code) + 1 => \A d \in 1 .. n : status[d] # "live"
        BY <2>1 DEF Meets
    <2>6. QED BY <2>2, <2>3, <2>4, <2>5 DEF NothingLeaks
<1>3. QED BY <1>1, <1>2 DEF Inv

(* No accepted function destroys, hands on or returns a resource that is   *)
(* not whole, whatever its branches, loops, jumps, matches and errors do.  *)
THEOREM DestroysOnce ==
    ASSUME ~Shadowing
    PROVE  Spec => []FollowedDestroyedOnce
<1>1. Inv => FollowedDestroyedOnce
    BY InvSays DEF FollowedDestroyedOnce
<1>2. QED BY <1>1, Correct, PTL

(* No accepted function reads a resource after its end, unless the read is *)
(* deferred past one.                                                      *)
THEOREM UsesWhole ==
    ASSUME ~Shadowing
    PROVE  Spec => [](Followed => UsedWhole)
<1>1. Inv => (Followed => UsedWhole)
    BY InvSays
<1>2. QED BY <1>1, Correct, PTL

(* Every resource of an accepted function is destroyed or handed on by the *)
(* time it has returned, and before the next one takes its place.          *)
THEOREM LeaksNothing ==
    ASSUME ~Shadowing
    PROVE  Spec => [](Followed => NothingLeaks)
<1>1. Inv => (Followed => NothingLeaks)
    BY InvSays
<1>2. QED BY <1>1, Correct, PTL

(* Scopes are cleaned up in reverse order of declaration.                  *)
THEOREM DropsInReverse ==
    ASSUME ~Shadowing
    PROVE  Spec => [](Followed => ReverseOrder)
<1>1. Inv => (Followed => ReverseOrder)
    BY InvSays
<1>2. QED BY <1>1, Correct, PTL
=============================================================================
