------------------------------- MODULE Chunker -------------------------------
(***************************************************************************)
(* Chunk (internal/render/text.go): an answer longer than the budget of a   *)
(* platform message is cut into chunks, and a code fence that is open at a  *)
(* cut is closed there and opened again in the next chunk.  The text comes  *)
(* line by line, a line longer than its limit piece by piece, as in add and *)
(* splitUnits; the state is the chunker's.                                  *)
(*                                                                          *)
(* Text is kept to what is counted: units, ends of lines and fences.  Where *)
(* a piece may be cut (at a space, or before a rune of two units) is open,  *)
(* within what splitUnits allows for some text.                             *)
(***************************************************************************)
EXTENDS Integers

CONSTANTS
    Budget,  \* units of a message
    Lines    \* lines a text is made of: [len, fences, nl]; fences counts the
             \* ``` on a line that begins with one, and len the end of line

(* A budget is 3500 or 1800 units, less the notice of a preview.            *)
ASSUME BudgetAssumption == Budget \in Nat /\ Budget >= 24
ASSUME LinesAssumption ==
    /\ \A l \in Lines : l \in [len : Nat \ {0}, fences : Nat, nl : BOOLEAN]
    /\ \A l \in Lines : l.fences > 0 => l.len >= 3 + (IF l.nl THEN 1 ELSE 0)

VARIABLES
    out,        \* the chunk finished last, Empty before the first
    cur,        \* the chunk being filled
    openFence,  \* measure of the fence line that is open, 0 for none
    split,      \* the rest of the line being split
    done,
    long,       \* the text is longer than the budget
    untracked   \* a fence was split, or closed on the line that opened it

chunkVars == <<out, cur, openFence, split, done, long, untracked>>

fenceReserve == 12
maxFence == Budget \div 4

(* A chunk: its units, those that are text, whether a fence in it lacks its *)
(* other end, and whether it ends with a line.                              *)
Empty == [len |-> 0, text |-> 0, odd |-> FALSE, nl |-> TRUE]
NoLine == [len |-> 0, fences |-> 0, nl |-> TRUE]
NoSplit == [line |-> NoLine, rest |-> 0, window |-> 0, solid |-> 0]

(* limit reserves room for the markers when a fence is open or begins.      *)
Limit(line) ==
    IF openFence # 0 \/ line.fences > 0
    THEN LET reserved == Budget - fenceReserve - openFence
         IN  IF reserved > Budget \div 2 THEN reserved ELSE Budget \div 2
    ELSE Budget

(* What flush and done append to a chunk that ends within a fence.          *)
Closed(chunk, marker) ==
    IF openFence = 0 THEN chunk
    ELSE [len |-> chunk.len + marker + (IF chunk.nl THEN 0 ELSE 1),
          text |-> chunk.text, odd |-> ~chunk.odd, nl |-> chunk.nl]

(* Faulty: the next chunk does not open the fence again.                    *)
NotReopened == Empty

Reopened ==
    IF openFence = 0 THEN Empty
    ELSE [len |-> openFence + 1, text |-> 0, odd |-> TRUE, nl |-> TRUE]

Piece(n, fences, nl) == [len |-> n, text |-> n, odd |-> fences % 2 = 1, nl |-> nl]

Appended(chunk, p) ==
    [len |-> chunk.len + p.len, text |-> chunk.text + p.text,
     odd |-> chunk.odd # p.odd, nl |-> p.nl]

(* Faulty: a piece that does not fit is appended all the same.              *)
WriteOver(p, limit) == cur' = Appended(cur, p) /\ UNCHANGED out

(* write flushes first when the piece would overflow the limit of its line. *)
Write(p, limit) ==
    IF cur.len + p.len > limit /\ cur.len > 0
    THEN out' = Closed(cur, 4) /\ cur' = Appended(Reopened, p)
    ELSE cur' = Appended(cur, p) /\ UNCHANGED out

(* trackFence: a longer opener is opened again as a plain one.              *)
TrackFence(line) ==
    openFence' = IF line.fences = 0 THEN openFence
                 ELSE IF openFence # 0 THEN 0
                 ELSE IF line.len <= maxFence THEN line.len - (IF line.nl THEN 1 ELSE 0)
                 ELSE 3

-----------------------------------------------------------------------------
(* add: a line that fits its limit.                                         *)
AddLine(line) ==
    /\ ~done /\ split = NoSplit
    /\ cur.nl
    /\ line.len <= Limit(line)
    /\ Write(Piece(line.len, line.fences, line.nl), Limit(line))
    /\ TrackFence(line)
    /\ long' = (long \/ out # Empty \/ cur.len + line.len > Budget)
    /\ untracked' = (untracked \/ line.fences > 1)
    /\ UNCHANGED <<split, done>>

(* A longer line is split; its first piece may fill up the chunk.           *)
SplitLine(line) ==
    /\ ~done /\ split = NoSplit
    /\ cur.nl
    /\ line.len > Limit(line)
    /\ LET room == Limit(line) - cur.len
       IN  split' = [line |-> line, rest |-> line.len, solid |-> 0,
                    window |-> IF room <= 0 THEN Limit(line) ELSE room]
    /\ long' = (long \/ out # Empty \/ cur.len + line.len > Budget)
    /\ untracked' = (untracked \/ line.fences > 0)
    /\ UNCHANGED <<out, cur, openFence, done>>

(* Where splitUnits may cut: at the end of the window, before a wide rune   *)
(* there, or, when the window is filled, after its last space.  What lay    *)
(* between that space and the end of the window has none.                   *)
Cuts ==
    LET w == split.window
    IN  ({w, w - 1} \ {0}) \cup (split.solid + 1 .. w) \cup (IF w = 1 THEN {2} ELSE {})

(* The fence of a split line is on its first piece.                         *)
HeadFences == IF split.rest = split.line.len THEN split.line.fences ELSE 0

SplitPiece(k) ==
    /\ split # NoSplit /\ split.rest > split.window
    /\ k \in Cuts /\ k < split.rest
    /\ Write(Piece(k, HeadFences, FALSE), Limit(split.line))
    /\ split' = [split EXCEPT !.rest = @ - k, !.window = Limit(split.line),
                            !.solid = IF k < split.window - 1 THEN split.window - k ELSE 0]
    /\ UNCHANGED <<openFence, done, long, untracked>>

LastPiece ==
    /\ split # NoSplit
    /\ split.rest <= split.window \/ (split.window = 1 /\ split.rest = 2 /\ ~split.line.nl)
    /\ Write(Piece(split.rest, HeadFences, split.line.nl), Limit(split.line))
    /\ TrackFence(split.line)
    /\ split' = NoSplit
    /\ UNCHANGED <<done, long, untracked>>

(* done: a text that fits the budget is not cut at all.                     *)
Done ==
    /\ ~done /\ split = NoSplit /\ long
    /\ out' = Closed(cur, 3) /\ cur' = Empty
    /\ done' = TRUE
    /\ UNCHANGED <<openFence, split, long, untracked>>

ChunkInit ==
    /\ out = Empty /\ cur = Empty /\ openFence = 0 /\ split = NoSplit
    /\ done = FALSE /\ long = FALSE /\ untracked = FALSE

ChunkNext ==
    \/ \E line \in Lines : AddLine(line) \/ SplitLine(line)
    \/ \E k \in 1 .. Budget : SplitPiece(k)
    \/ LastPiece \/ Done

ChunkSpec == ChunkInit /\ [][ChunkNext]_chunkVars

-----------------------------------------------------------------------------
Chunk == [len : Nat, text : Nat, odd : BOOLEAN, nl : BOOLEAN]

(* "pieces whose measure never exceeds budget" (text.go): with the markers  *)
(* that are added where a fence is cut, and whatever is split where.        *)
WithinBudget == out.len <= Budget

(* "tracking the open code fence so every chunk renders balanced"           *)
(* (text.go), as long as the fences are lines of their own and fit a chunk. *)
BalancedWhenTracked == ~untracked => ~out.odd

(* The comment, for every text.  It does not hold: a line with two fences   *)
(* counts as an opener.                                                     *)
EveryChunkBalanced == ~out.odd
=============================================================================
