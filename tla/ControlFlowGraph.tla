-------------------------- MODULE ControlFlowGraph --------------------------
(***************************************************************************)
(* The native control flow graph of one code range: CfgScanner of          *)
(* ControlFlowGraph.cpp.  The bytes are external; what the disassembler    *)
(* would read at an offset is code[offset]: its length (0 when the bytes   *)
(* decode to nothing), what its mnemonic means and the displacement of a   *)
(* relative operand, or NoTarget.  The scanner decodes in windows, walks   *)
(* the range from the leaders it knows, cuts it into blocks and then works *)
(* on the graph of the blocks: successors, predecessors, strongly          *)
(* connected components (Tarjan, without recursion), connected components  *)
(* (union-find), cyclomatic complexity.  Blocks are numbered from 1.       *)
(***************************************************************************)
EXTENDS Integers, Sequences, FiniteSets

CONSTANTS Codes,                \* the code ranges examined; NullCode is a null pointer
          NullCode, NoTarget, Unknown, Outside, NoBlock,
          CfgDecodeWindowBytes, CfgMaxRangeBytes, CfgMaxBlocks, CfgMaxInstructions,
          Int32Max              \* a target at or beyond it does not fit an int32_t

ASSUME Limits == /\ {CfgDecodeWindowBytes, CfgMaxBlocks, CfgMaxInstructions} \subseteq Nat \ {0}
                 /\ Int32Max \in Nat

\* A code range is indexed from 0; no instruction is longer than a window.
ASSUME CodesAssumption ==
    \A c \in Codes \ {NullCode} :
        /\ Cardinality(DOMAIN c) \in Nat
        /\ DOMAIN c = 0 .. Cardinality(DOMAIN c) - 1
        /\ \A o \in DOMAIN c : /\ c[o].len \in 0 .. CfgDecodeWindowBytes
                               /\ c[o].disp = NoTarget \/ c[o].disp \in Int

\* What an instruction does to the flow of control (CfgInstructionRole).
Roles == {"Normal", "Call", "DirectBranch", "ConditionalBranch", "IndirectBranch", "Return", "NoReturn", "Invalid"}

\* The values that stand for "none" are none of the values they stand beside.
ASSUME NoneAssumption ==
    /\ NoBlock \notin Nat /\ NoTarget \notin Int /\ Outside \notin Int
    /\ Unknown \notin [len : Nat, role : Roles, target : Int \cup {NoTarget, Outside}]

VARIABLES code,      \* Code_ and Length_
          phase,     \* the step of Run
          status,    \* Out_.Status
          slots,     \* Slots_ and SlotState_: what has been decoded
          leaders,   \* Leaders_, in the order they were found (IsLeader_: the set)
          cursor,    \* the leaders DiscoverLeaders has begun
          start,     \* the leader being walked, or NoBlock
          at,        \* Offset of the walk
          size,      \* Block.InstructionCount of the block being walked
          pending,   \* BuildBlocks: the ordered leaders that are left
          blocks,    \* Out_.Blocks
          count,     \* the counters of Out_
          succ, pred,\* BlockSuccessors and BlockPredecessors
          dfs,       \* the state of ComputeStronglyConnected
          uf         \* the state of ComputeConnectedComponents

vars == <<code, phase, status, slots, leaders, cursor, start, at, size, pending,
          blocks, count, succ, pred, dfs, uf>>

scan == <<slots, leaders, cursor, start, at, size, pending>>

Length == IF code = NullCode THEN 1 ELSE Cardinality(DOMAIN code)
Offsets == 0 .. Length - 1
Leaders == {leaders[i] : i \in DOMAIN leaders}
Halted == status # "Ok"
Nodes == DOMAIN blocks
Smaller(a, b) == IF a < b THEN a ELSE b

-----------------------------------------------------------------------------
(* Decoding *)

RelativeTargetOf(o, len, disp) ==
    LET c == o + len + disp
    IN  IF c > Int32Max - 1 \/ c < -Int32Max THEN Outside ELSE c

TargetInsideRange(t) == t \notin {NoTarget, Outside} /\ t >= 0 /\ t < Length

\* MakeSlot: a jump without a relative operand is an indirect branch.
Role(kind, disp) ==
    CASE kind = "jump" -> IF disp = NoTarget THEN "IndirectBranch" ELSE "DirectBranch"
      [] kind = "conditional" -> IF disp = NoTarget THEN "IndirectBranch" ELSE "ConditionalBranch"
      [] kind = "call" -> "Call"
      [] kind = "return" -> "Return"
      [] kind = "noreturn" -> "NoReturn"
      [] OTHER -> "Normal"

MakeSlot(o) ==
    LET i == code[o]
        r == Role(i.kind, i.disp)
    IN  [len |-> i.len, role |-> r,
         target |-> IF r \in {"DirectBranch", "ConditionalBranch"}
                    THEN RelativeTargetOf(o, i.len, i.disp) ELSE NoTarget]

InvalidSlot == [len |-> 1, role |-> "Invalid", target |-> NoTarget]

\* DecodeRange: the offsets decoded one after another from o, each instruction
\* whole inside the window; the first that is not ends the window.
DecodeRange(o) ==
    LET end == o + Smaller(Length - o, CfgDecodeWindowBytes)
        Stream[x \in o .. end] ==
            IF x < end /\ code[x].len # 0 /\ x + code[x].len <= end
            THEN {x} \cup Stream[x + code[x].len] ELSE {}
    IN  Stream[o]

Known == {o \in Offsets : slots[o] # Unknown}

\* The instructions of the window that are new, as far as the limit on decoded
\* instructions lets them in; a slot that is known keeps its first value.
NewInstructions(o) == DecodeRange(o) \ Known
Admitted(new) == {x \in new : Cardinality({y \in new : y < x}) + Cardinality(Known) < CfgMaxInstructions}

\* DecodeWindowAt: an offset at which nothing decodes becomes an invalid slot of
\* one byte, unless the scan has already failed; beyond the limit it fails.
LimitReached(o, new, kept) ==
    kept # new \/ (o \notin new /\ ~Halted /\ Cardinality(Known) + Cardinality(new) >= CfgMaxInstructions)

Filled(o, new, kept) ==
    [x \in Offsets |-> IF x \in kept THEN MakeSlot(x)
                       ELSE IF x = o /\ ~Halted /\ ~LimitReached(o, new, kept) THEN InvalidSlot
                       ELSE slots[x]]

DecodeWindowAt(o) ==
    \E new \in {NewInstructions(o)} : \E kept \in {Admitted(new)} :
        /\ slots' = Filled(o, new, kept)
        /\ status' = IF LimitReached(o, new, kept) /\ ~Halted THEN "InstructionLimitReached" ELSE status

NextOffset(slot) == IF at + slot.len > Length THEN Length ELSE at + slot.len

-----------------------------------------------------------------------------
(* DiscoverLeaders *)

\* AddLeader and AddBranchLeader on the list and the status.
AddLeader(s, o) ==
    IF o >= Length \/ o \in {s.leaders[i] : i \in DOMAIN s.leaders} THEN s
    ELSE IF Len(s.leaders) >= CfgMaxBlocks
         THEN [s EXCEPT !.status = IF @ = "Ok" THEN "BlockLimitReached" ELSE @]
         ELSE [s EXCEPT !.leaders = Append(@, o)]

\* Mutant: a faulty AddBranchLeader that takes only jumps forward.
AddForwardLeader(s, slot) ==
    IF TargetInsideRange(slot.target) /\ slot.target > at THEN AddLeader(s, slot.target) ELSE s

AddBranchLeader(s, slot) ==
    IF TargetInsideRange(slot.target) THEN AddLeader(s, slot.target) ELSE s

NextLeader ==
    /\ phase = "discover" /\ start = NoBlock
    /\ cursor < Len(leaders) /\ ~Halted
    /\ cursor' = cursor + 1
    /\ start' = leaders[cursor + 1]
    /\ at' = leaders[cursor + 1]
    /\ UNCHANGED <<code, phase, status, slots, leaders, size, pending, blocks, count, succ, pred, dfs, uf>>

LeadersFound ==
    /\ phase = "discover" /\ start = NoBlock
    /\ cursor >= Len(leaders) \/ Halted
    /\ phase' = "blocks"
    /\ pending' = Leaders
    /\ UNCHANGED <<code, status, slots, leaders, cursor, start, at, size, blocks, count, succ, pred, dfs, uf>>

\* The walk needs a slot that is not decoded; a failure ends the discovery.
DecodeForScan ==
    /\ phase = "discover" /\ start # NoBlock
    /\ at < Length /\ (at = start \/ at \notin Leaders)
    /\ slots[at] = Unknown
    /\ DecodeWindowAt(at)
    /\ start' = IF status' = "Ok" THEN start ELSE NoBlock
    /\ UNCHANGED <<code, phase, leaders, cursor, at, size, pending, blocks, count, succ, pred, dfs, uf>>

\* One instruction of the walk from a leader.
ScanInstruction ==
    /\ phase = "discover" /\ start # NoBlock
    /\ at < Length /\ (at = start \/ at \notin Leaders)
    /\ slots[at] # Unknown
    /\ LET slot == slots[at]
           one == AddBranchLeader([leaders |-> leaders, status |-> status], slot)
           two == IF slot.role = "ConditionalBranch" THEN AddLeader(one, NextOffset(slot)) ELSE one
       IN  /\ leaders' = two.leaders
           /\ status' = two.status
           /\ IF slot.role \in {"Normal", "Call"}
              THEN at' = NextOffset(slot) /\ UNCHANGED start
              ELSE start' = NoBlock /\ UNCHANGED at
    /\ UNCHANGED <<code, phase, slots, cursor, size, pending, blocks, count, succ, pred, dfs, uf>>

\* The walk meets another leader, or the end of the range.
ScanStops ==
    /\ phase = "discover" /\ start # NoBlock
    /\ at >= Length \/ (at # start /\ at \in Leaders)
    /\ start' = NoBlock
    /\ UNCHANGED <<code, phase, status, slots, leaders, cursor, at, size, pending, blocks, count, succ, pred, dfs, uf>>

-----------------------------------------------------------------------------
(* BuildBlocks *)

CoveredUntil == IF blocks = <<>> THEN 0
                ELSE LET b == blocks[Len(blocks)] IN b.offset + b.size

\* The next leader in ascending order.  (There are never more leaders than
\* CfgMaxBlocks, so the second test of that limit cannot fail.)
NextBlock ==
    /\ phase = "blocks" /\ start = NoBlock /\ pending # {}
    /\ LET s == CHOOSE o \in pending : \A p \in pending : o <= p
       IN  /\ pending' = pending \ {s}
           /\ IF s < CoveredUntil
              THEN /\ count' = [count EXCEPT !.overlapping = @ + 1]
                   /\ UNCHANGED <<start, at, size>>
              ELSE start' = s /\ at' = s /\ size' = 0 /\ UNCHANGED count
    /\ UNCHANGED <<code, phase, status, slots, leaders, cursor, blocks, succ, pred, dfs, uf>>

\* The block from start up to end; one without an instruction is forgotten.
Close(end, n, kind, target) ==
    /\ blocks' = IF n = 0 THEN blocks
                 ELSE Append(blocks, [offset |-> start, size |-> end - start, instructions |-> n,
                                      end |-> kind, target |-> target])
    /\ start' = NoBlock
    /\ size' = 0

CountOf(slot) ==
    [count EXCEPT
        !.calls = @ + (IF slot.role = "Call" THEN 1 ELSE 0),
        !.errors = @ + (IF slot.role = "Invalid" THEN 1 ELSE 0),
        !.indirect = @ + (IF slot.role = "IndirectBranch" THEN 1 ELSE 0),
        !.outside = @ + (IF /\ slot.role \in {"DirectBranch", "ConditionalBranch"}
                            /\ ~TargetInsideRange(slot.target) THEN 1 ELSE 0)]

BlockEnd(role) == IF role = "Invalid" THEN "DecodeError" ELSE role

\* Mutant: a faulty DecodeForBlock that tries again when nothing could be decoded.
DecodeForBlockAgain ==
    /\ phase = "blocks" /\ start # NoBlock
    /\ at = start \/ at \notin Leaders
    /\ slots[at] = Unknown
    /\ DecodeWindowAt(at)
    /\ UNCHANGED <<code, phase, leaders, cursor, start, at, size, pending, blocks, count, succ, pred, dfs, uf>>

\* A slot that is not decoded is decoded now, also after the limit on blocks
\* stopped the discovery; when it stays unknown the block ends in front of it.
DecodeForBlock ==
    /\ phase = "blocks" /\ start # NoBlock
    /\ at = start \/ at \notin Leaders
    /\ slots[at] = Unknown
    /\ IF status = "InstructionLimitReached" THEN UNCHANGED <<slots, status>> ELSE DecodeWindowAt(at)
    /\ IF slots'[at] = Unknown THEN Close(at, size, "RangeEnd", NoTarget)
                               ELSE UNCHANGED <<start, size, blocks>>
    /\ UNCHANGED <<code, phase, leaders, cursor, at, pending, count, succ, pred, dfs, uf>>

\* One instruction of a block.
ExtendBlock ==
    /\ phase = "blocks" /\ start # NoBlock
    /\ at = start \/ at \notin Leaders
    /\ slots[at] # Unknown
    /\ LET slot == slots[at]
           next == NextOffset(slot)
       IN  /\ count' = CountOf(slot)
           /\ at' = next
           /\ IF slot.role \notin {"Normal", "Call"}
              THEN Close(next, size + 1, BlockEnd(slot.role),
                         IF TargetInsideRange(slot.target) THEN slot.target ELSE NoTarget)
              ELSE IF next >= Length THEN Close(next, size + 1, "RangeEnd", NoTarget)
              ELSE size' = size + 1 /\ UNCHANGED <<start, blocks>>
    /\ UNCHANGED <<code, phase, status, slots, leaders, cursor, pending, succ, pred, dfs, uf>>

\* The walk ends in front of another leader.
FallThrough ==
    /\ phase = "blocks" /\ start # NoBlock
    /\ at # start /\ at \in Leaders
    /\ Close(at, size, "Fallthrough", NoTarget)
    /\ UNCHANGED <<code, phase, status, slots, leaders, cursor, at, pending, count, succ, pred, dfs, uf>>

OnlyDecodeError ==
    Len(blocks) = 1 /\ blocks[1].offset = 0 /\ blocks[1].size = 1 /\ blocks[1].end = "DecodeError"

\* A range whose first instruction does not decode has no graph.
BlocksBuilt ==
    /\ phase = "blocks" /\ start = NoBlock /\ pending = {}
    /\ blocks' = IF OnlyDecodeError THEN <<>> ELSE blocks
    /\ count' = IF OnlyDecodeError THEN [count EXCEPT !.errors = 0] ELSE count
    /\ status' = IF OnlyDecodeError /\ ~Halted THEN "EntryUndecodable" ELSE status
    /\ phase' = IF status' = "EntryUndecodable" THEN "done" ELSE "successors"
    /\ UNCHANGED <<code, scan, succ, pred, dfs, uf>>

-----------------------------------------------------------------------------
(* BuildSuccessors and BuildPredecessors *)

BlockAtOffset(o) ==
    LET B == {b \in Nodes : blocks[b].offset = o}
    IN  IF B = {} THEN NoBlock ELSE CHOOSE b \in B : TRUE

\* The offsets a block may continue at, in the order they are resolved.
SuccessorOffsets(b) ==
    LET target == IF blocks[b].target = NoTarget THEN <<>> ELSE <<blocks[b].target>>
        through == <<blocks[b].offset + blocks[b].size>>
    IN  CASE blocks[b].end = "ConditionalBranch" -> target \o through
          [] blocks[b].end = "DirectBranch" -> target
          [] blocks[b].end \in {"Fallthrough", "RangeEnd"} -> through
          [] OTHER -> <<>>

ResolveSuccessor(o) == IF o >= Length THEN NoBlock ELSE BlockAtOffset(o)

\* The elements of s that are in S, in their order.
Selected(s, S) ==
    LET Kept[i \in 0 .. Len(s)] ==
            IF i = 0 THEN <<>> ELSE IF s[i] \in S THEN Append(Kept[i - 1], s[i]) ELSE Kept[i - 1]
    IN  Kept[Len(s)]

SuccessorsOf(b) ==
    LET resolved == [i \in DOMAIN SuccessorOffsets(b) |-> ResolveSuccessor(SuccessorOffsets(b)[i])]
        kept == Selected(resolved, Nodes)
    IN  IF Len(kept) = 2 /\ kept[1] = kept[2] THEN <<kept[1]>> ELSE kept

DroppedOf(b) ==
    Cardinality({i \in DOMAIN SuccessorOffsets(b) :
        SuccessorOffsets(b)[i] < Length /\ BlockAtOffset(SuccessorOffsets(b)[i]) = NoBlock})

Total(f) ==
    LET S[i \in 0 .. Len(f)] == IF i = 0 THEN 0 ELSE S[i - 1] + f[i] IN S[Len(f)]

\* Predecessors are filled in the order of the blocks they come from.
PredecessorsOf(b, next) == Selected([i \in Nodes |-> i],
                                    {a \in Nodes : \E k \in DOMAIN next[a] : next[a][k] = b})

BuildEdges ==
    /\ phase = "successors"
    /\ LET next == [b \in Nodes |-> SuccessorsOf(b)]
       IN  /\ succ' = next
           /\ pred' = [b \in Nodes |-> PredecessorsOf(b, next)]
           /\ count' = [count EXCEPT
                 !.dropped = Total([b \in Nodes |-> DroppedOf(b)]),
                 !.exits = Cardinality({b \in Nodes : next[b] = <<>>}),
                 !.edges = Total([b \in Nodes |-> Len(next[b])])]
    /\ phase' = "strong"
    /\ dfs' = [index |-> [b \in Nodes |-> 0], low |-> [b \in Nodes |-> 0], next |-> 1,
               stack |-> <<>>, frames |-> <<>>, component |-> [b \in Nodes |-> 0],
               members |-> <<>>, loop |-> <<>>]
    /\ UNCHANGED <<code, status, scan, blocks, uf>>

-----------------------------------------------------------------------------
(* ComputeStronglyConnected: index 0 is CfgUnvisited, components count from 1 *)

\* Mutant: a faulty OnStack that is true of every visited block.
EverVisited(b) == dfs.index[b] # 0

OnStack(b) == \E i \in DOMAIN dfs.stack : dfs.stack[i] = b

Push(b) == [dfs EXCEPT !.index[b] = dfs.next, !.low[b] = dfs.next, !.next = @ + 1,
                       !.stack = Append(@, b)]

VisitRoot ==
    /\ phase = "strong" /\ dfs.frames = <<>>
    /\ \E b \in Nodes :
          /\ dfs.index[b] = 0
          /\ \A a \in Nodes : a < b => dfs.index[a] # 0
          /\ dfs' = [Push(b) EXCEPT !.frames = <<[node |-> b, cursor |-> 0]>>]
    /\ UNCHANGED <<code, phase, status, scan, blocks, count, succ, pred, uf>>

Top == dfs.frames[Len(dfs.frames)]

\* The next successor of the node on top: a new one is entered, one on the
\* stack lowers the link of the node.
VisitChild ==
    /\ phase = "strong" /\ dfs.frames # <<>> /\ Top.cursor < Len(succ[Top.node])
    /\ LET child == succ[Top.node][Top.cursor + 1]
           advanced == [dfs.frames EXCEPT ![Len(dfs.frames)].cursor = @ + 1]
       IN  dfs' = IF dfs.index[child] = 0
                  THEN [Push(child) EXCEPT !.frames = Append(advanced, [node |-> child, cursor |-> 0])]
                  ELSE [dfs EXCEPT !.frames = advanced,
                          !.low[Top.node] = IF OnStack(child) THEN Smaller(@, dfs.index[child]) ELSE @]
    /\ UNCHANGED <<code, phase, status, scan, blocks, count, succ, pred, uf>>

\* A node without successors left: the root of a component takes what is above
\* it on the stack; the caller's link takes the node's.
LeaveNode ==
    /\ phase = "strong" /\ dfs.frames # <<>> /\ Top.cursor >= Len(succ[Top.node])
    /\ LET n == Top.node
           root == dfs.low[n] = dfs.index[n]
           pos == CHOOSE i \in DOMAIN dfs.stack : dfs.stack[i] = n
           taken == {dfs.stack[i] : i \in pos .. Len(dfs.stack)}
           frames == SubSeq(dfs.frames, 1, Len(dfs.frames) - 1)
           popped == IF root
                     THEN [dfs EXCEPT !.stack = SubSeq(@, 1, pos - 1),
                             !.component = [b \in Nodes |-> IF b \in taken
                                                THEN Len(dfs.members) + 1 ELSE @[b]],
                             !.members = Append(@, Cardinality(taken)),
                             !.loop = Append(@, Cardinality(taken) > 1)]
                     ELSE dfs
       IN  dfs' = IF frames = <<>> THEN [popped EXCEPT !.frames = frames]
                  ELSE [popped EXCEPT !.frames = frames,
                          !.low[frames[Len(frames)].node] = Smaller(@, dfs.low[n])]
    /\ UNCHANGED <<code, phase, status, scan, blocks, count, succ, pred, uf>>

HasSelfEdge(b) == \E k \in DOMAIN succ[b] : succ[b][k] = b

\* All blocks visited: a component of one block is a loop when it has an edge to
\* itself.  The union-find starts with every block its own parent.
StrongDone ==
    /\ phase = "strong" /\ dfs.frames = <<>>
    /\ \A b \in Nodes : dfs.index[b] # 0
    /\ dfs' = [dfs EXCEPT !.loop =
          [c \in DOMAIN dfs.loop |->
              dfs.loop[c] \/ \E b \in Nodes : dfs.component[b] = c /\ HasSelfEdge(b)]]
    /\ phase' = "connected"
    /\ uf' = [parent |-> [b \in Nodes |-> b], rank |-> [b \in Nodes |-> 0], node |-> 1, cursor |-> 0]
    /\ UNCHANGED <<code, status, scan, blocks, count, succ, pred>>

-----------------------------------------------------------------------------
(* ComputeConnectedComponents and ComputeStatistics *)

\* CfgFindRoot: the root, and the parents with the path to it compressed.
FindRoot(parent, b) ==
    LET Path[n \in 0 .. Len(blocks)] == IF n = 0 THEN b ELSE parent[Path[n - 1]]
        root == Path[Len(blocks)]
    IN  [root |-> root,
         parent |-> [x \in Nodes |-> IF \E n \in 0 .. Len(blocks) : Path[n] = x THEN root ELSE parent[x]]]

CfgUnion(parent, rank, l, r) ==
    IF l = r THEN [parent |-> parent, rank |-> rank]
    ELSE IF rank[l] < rank[r] THEN [parent |-> [parent EXCEPT ![l] = r], rank |-> rank]
    ELSE [parent |-> [parent EXCEPT ![r] = l],
          rank |-> IF rank[l] > rank[r] THEN rank ELSE [rank EXCEPT ![l] = @ + 1]]

\* The edges are joined one by one, in the order of their blocks.
UniteEdge ==
    /\ phase = "connected" /\ uf.node <= Len(blocks)
    /\ IF uf.cursor = Len(succ[uf.node])
       THEN uf' = [uf EXCEPT !.node = @ + 1, !.cursor = 0]
       ELSE LET left == FindRoot(uf.parent, uf.node)
                right == FindRoot(left.parent, succ[uf.node][uf.cursor + 1])
                joined == CfgUnion(right.parent, uf.rank, left.root, right.root)
            IN  uf' = [uf EXCEPT !.parent = joined.parent, !.rank = joined.rank, !.cursor = @ + 1]
    /\ UNCHANGED <<code, phase, status, scan, blocks, count, succ, pred, dfs>>

ConnectedComponentCount == Cardinality({b \in Nodes : uf.parent[b] = b})

CyclomaticComplexity ==
    LET c == count.edges - Len(blocks) + 2 * ConnectedComponentCount
    IN  IF blocks = <<>> THEN 0 ELSE IF c < 1 THEN 1 ELSE c

ComputeStatistics ==
    /\ phase = "connected" /\ uf.node > Len(blocks)
    /\ count' = [count EXCEPT !.components = ConnectedComponentCount,
                              !.complexity = CyclomaticComplexity]
    /\ phase' = "done"
    /\ UNCHANGED <<code, status, scan, blocks, succ, pred, dfs, uf>>

-----------------------------------------------------------------------------
NoCounts == [overlapping |-> 0, calls |-> 0, errors |-> 0, indirect |-> 0, outside |-> 0,
             dropped |-> 0, exits |-> 0, edges |-> 0, components |-> 0, complexity |-> 0]

Init ==
    /\ code \in Codes
    /\ phase = "start" /\ status = "Ok"
    /\ slots = <<>> /\ leaders = <<>> /\ cursor = 0
    /\ start = NoBlock /\ at = 0 /\ size = 0 /\ pending = {}
    /\ blocks = <<>> /\ count = NoCounts
    /\ succ = <<>> /\ pred = <<>> /\ dfs = <<>> /\ uf = <<>>

\* BuildControlFlowGraph: what is refused, and the scanner with its first leader.
Refuse ==
    /\ phase = "start"
    /\ \/ Length = 0 /\ status' = "EmptyRange"
       \/ Length # 0 /\ code = NullCode /\ status' = "NullCode"
       \/ Length > CfgMaxRangeBytes /\ code # NullCode /\ status' = "RangeTooLarge"
    /\ phase' = "done"
    /\ UNCHANGED <<code, scan, blocks, count, succ, pred, dfs, uf>>

Begin ==
    /\ phase = "start" /\ code # NullCode /\ Length \in 1 .. CfgMaxRangeBytes
    /\ phase' = "discover"
    /\ slots' = [o \in Offsets |-> Unknown]
    /\ leaders' = <<0>>
    /\ UNCHANGED <<code, status, cursor, start, at, size, pending, blocks, count, succ, pred, dfs, uf>>

Next ==
    \/ Refuse \/ Begin
    \/ NextLeader \/ LeadersFound \/ DecodeForScan \/ ScanInstruction \/ ScanStops
    \/ NextBlock \/ DecodeForBlock \/ ExtendBlock \/ FallThrough \/ BlocksBuilt
    \/ BuildEdges
    \/ VisitRoot \/ VisitChild \/ LeaveNode \/ StrongDone
    \/ UniteEdge \/ ComputeStatistics

Spec == Init /\ [][Next]_vars /\ WF_vars(Next)

-----------------------------------------------------------------------------
(* Properties *)

\* What the instruction at o passes control to, read off the code itself: the
\* reference the graph is compared with.  Nothing is decoded beyond the range.
Fits(o) == code[o].len # 0 /\ o + code[o].len <= Length
TransfersTo(o) ==
    LET slot == MakeSlot(o)
        through == {o + slot.len} \cap Offsets
        target == IF TargetInsideRange(slot.target) THEN {slot.target} ELSE {}
    IN  IF ~Fits(o) THEN {}
        ELSE CASE slot.role \in {"Normal", "Call"} -> through
               [] slot.role = "ConditionalBranch" -> through \cup target
               [] slot.role = "DirectBranch" -> target
               [] OTHER -> {}

\* Everything reachable from the elements of S by the relation next.
Closure(S, next, bound) ==
    LET R[n \in 0 .. bound] ==
            IF n = 0 THEN S ELSE LET T == R[n - 1] IN T \cup UNION {next[x] : x \in T}
    IN  R[bound]

Reachable == Closure({0}, [o \in Offsets |-> TransfersTo(o)], Length)

\* The offsets at which a block's instructions begin.
InstructionsOf(b) ==
    Closure({blocks[b].offset},
            [o \in Offsets |->
                IF Fits(o) THEN {o + code[o].len} \cap (0 .. blocks[b].offset + blocks[b].size - 1) ELSE {}],
            Length)
LastOf(b) == CHOOSE o \in InstructionsOf(b) : \A p \in InstructionsOf(b) : p <= o
SuccessorSet(b) == {succ[b][k] : k \in DOMAIN succ[b]}

\* The blocks are in ascending order and share no byte: BlockAtOffset searches
\* them by bisection, and Size and InstructionCount are summed over them.
BlocksInOrder ==
    \A a, b \in Nodes : a < b => blocks[a].offset + blocks[a].size <= blocks[b].offset

\* Every edge of the graph is a transfer of control the code really makes, and
\* every block holds reachable instructions only: also when leaders overlap,
\* when a window cut an instruction and when a limit stopped the scan.
EdgesAreTransfers ==
    phase = "done" =>
        \A b \in Nodes :
            /\ InstructionsOf(b) \subseteq Reachable
            /\ Cardinality(InstructionsOf(b)) = blocks[b].instructions
            /\ \A c \in SuccessorSet(b) : blocks[c].offset \in TransfersTo(LastOf(b))

\* A scan that reports Ok and no overlapping leader is exact: the blocks hold
\* every reachable instruction, no edge was dropped, every transfer between
\* blocks is an edge, and everything hangs together with the entry block.
OkIsExact ==
    (phase = "done" /\ status = "Ok" /\ count.overlapping = 0) =>
        /\ UNION {InstructionsOf(b) : b \in Nodes} = Reachable
        /\ count.dropped = 0
        /\ \A b \in Nodes : TransfersTo(LastOf(b)) = {blocks[c].offset : c \in SuccessorSet(b)}
        /\ count.components = 1

\* The predecessor lists are the successor lists turned round.
PredecessorsInvert ==
    phase = "done" =>
        \A a, b \in DOMAIN succ :
            (b \in SuccessorSet(a)) <=> (\E k \in DOMAIN pred[b] : pred[b][k] = a)

\* The graph is what the code says: in order, with real edges only and in both
\* directions, and complete where the scan reports no trouble.
GraphIsExact == BlocksInOrder /\ EdgesAreTransfers /\ OkIsExact /\ PredecessorsInvert

ReachableFrom(b) == Closure({b}, [x \in Nodes |-> SuccessorSet(x)], Len(blocks))

\* Two blocks have one component number exactly when each reaches the other,
\* the sizes are right, and a component is a loop when it holds a cycle.
ComponentsAreStrong ==
    phase = "done" /\ dfs # <<>> =>
        /\ \A a, b \in Nodes : (dfs.component[a] = dfs.component[b]) <=>
                                   (b \in ReachableFrom(a) /\ a \in ReachableFrom(b))
        /\ \A c \in DOMAIN dfs.members :
              /\ dfs.members[c] = Cardinality({b \in Nodes : dfs.component[b] = c})
              /\ dfs.loop[c] <=> \E b \in Nodes : dfs.component[b] = c /\ \E s \in SuccessorSet(b) :
                                                     b \in ReachableFrom(s)

Neighbours(b) == SuccessorSet(b) \cup {a \in Nodes : b \in SuccessorSet(a)}

\* The union-find counts the classes of blocks that are joined by edges in
\* either direction.
ComponentsAreConnected ==
    phase = "done" /\ uf # <<>> =>
        count.components =
            Cardinality({Closure({b}, [x \in Nodes |-> Neighbours(x)], Len(blocks)) : b \in Nodes})

\* Both partitions of the blocks, Tarjan's and the union-find's, are the right ones.
ComponentsAreExact == ComponentsAreStrong /\ ComponentsAreConnected

\* The scan of every range ends: jumps backwards, overlapping instructions and
\* limits included.
ScanEnds == <>(phase = "done")

=============================================================================
