----------------------------- MODULE TextChunking -----------------------------
(***************************************************************************)
(* SemanticTextChunker: how the cleaned text of a page is cut into         *)
(* passages. Blocks of the text become units, units are packed, passages   *)
(* that came out too short are merged with a neighbour or filled from it   *)
(* (the loop of _normalise_minimum_size, one step for each iteration), and *)
(* each passage gets the end of the one before it as context.              *)
(*                                                                         *)
(* A text is a sequence of characters. A visible one is named by its block *)
(* and its place there; a line break within a block counts as a space.     *)
(***************************************************************************)
EXTENDS Integers, FiniteSets, Sequences, SequencesExt, FiniteSetsExt

CONSTANTS
    Documents,   \* sequences of blocks: [level, length, spaces, stops], level 0 for a
                 \* paragraph, stops being the spaces that end a sentence
    Settings     \* [size, overlap, minimum]

\* The cleaner leaves single spaces, none of them at an end of a block.
IsBlock(block) ==
    /\ block.level \in 0 .. 6 /\ block.length \in Nat \ {0}
    /\ block.spaces \subseteq 2 .. block.length - 1 /\ block.stops \subseteq block.spaces
    /\ \A k \in block.spaces : k + 1 \notin block.spaces

ASSUME ChunkingAssumption ==
    /\ \A d \in Documents : d \in Seq(ToSet(d)) /\ \A b \in DOMAIN d : IsBlock(d[b])
    /\ \A s \in Settings : /\ s.size \in Nat \ {0} /\ s.overlap \in 0 .. s.size - 1
                           /\ s.minimum \in 1 .. s.size

VARIABLES
    document,
    setting,
    chunks,     \* passages so far: [text, path]
    index,      \* where the loop is
    passages    \* what chunk returns

inputs == <<document, setting, passages>>
chunkingVars == <<inputs, chunks, index>>

Size == setting.size
Minimum == setting.minimum

-----------------------------------------------------------------------------
(* Texts *)

Space == <<0, 0>>
Newline == <<0, 1>>
Blank(c) == c[1] = 0
BlankLine == <<Newline, Newline>>

RStrip(t) == SubSeq(t, 1, Max({0} \union {i \in DOMAIN t : ~Blank(t[i])}))
LStrip(t) == SubSeq(t, Min({Len(t) + 1} \union {i \in DOMAIN t : ~Blank(t[i])}), Len(t))
Strip(t) == RStrip(LStrip(t))
Joined(left, separator, right) == IF left = <<>> THEN right ELSE left \o separator \o right

Block(b) == [k \in 1 .. document[b].length |-> IF k \in document[b].spaces THEN Space ELSE <<b, k>>]

\* The pieces that are complete, and the one that grows.
Begun(pieces, current) == [pieces |-> pieces, current |-> current]
Nothing == Begun(<<>>, <<>>)

AddCharacter(begun, c, cut) ==
    IF cut THEN Begun(Append(begun.pieces, begun.current), <<>>)
    ELSE Begun(begun.pieces, Append(begun.current, c))

\* A text without the characters at the cuts, in pieces.
Split(text, cuts) ==
    LET split[n \in 0 .. Len(text)] ==
            IF n = 0 THEN Nothing ELSE AddCharacter(split[n - 1], text[n], n \in cuts)
    IN Append(split[Len(text)].pieces, split[Len(text)].current)
Sentences(b) == Split(Block(b), document[b].stops)
Words(b) == Split(Block(b), document[b].spaces)

-----------------------------------------------------------------------------
(* Units: headings and pieces of paragraphs *)

\* A tail that would be too short is evened out if all pieces can be long enough.
HardSplit(text) ==
    LET count == (Len(text) + Size - 1) \div Size
        tail == Len(text) % Size
        even == tail \in 1 .. Minimum - 1 /\ count > 1 /\ Len(text) >= count * Minimum
        length == Len(text) \div count
        larger == Len(text) % count
        Start(i) == IF even THEN (i - 1) * length + Min({i - 1, larger}) ELSE (i - 1) * Size
    IN [i \in 1 .. count |-> SubSeq(text, Start(i) + 1, Min({Start(i + 1), Len(text)}))]

Flushed(texts, current) == IF current = <<>> THEN texts ELSE Append(texts, current)

\* One more fragment: split, joined to what there is of a piece, or the beginning of the next.
AddFragment(begun, fragment) ==
    LET candidate == Joined(begun.current, <<Space>>, fragment)
        flushed == Flushed(begun.pieces, begun.current)
    IN IF Len(fragment) > Size THEN Begun(flushed \o HardSplit(fragment), <<>>)
       ELSE IF Len(candidate) <= Size THEN Begun(begun.pieces, candidate)
       ELSE Begun(flushed, fragment)

PackFragments(fragments) ==
    LET packed[n \in 0 .. Len(fragments)] ==
            IF n = 0 THEN Nothing ELSE AddFragment(packed[n - 1], fragments[n])
    IN Flushed(packed[Len(fragments)].pieces, packed[Len(fragments)].current)

\* Pieces of several sentences always fit: a sentence that does not is split hard.
SplitOversized(b) ==
    IF Len(Block(b)) <= Size THEN <<Block(b)>>
    ELSE IF document[b].stops # {} THEN PackFragments(Sentences(b))
    ELSE IF document[b].spaces # {} THEN PackFragments(Words(b))
    ELSE HardSplit(Block(b))

Unit(text, path, starts) == [text |-> text, path |-> path, starts |-> starts]

\* The headings above b and b itself; a heading is named by its block.
PathOf(stack, b) == Append(SubSeq(stack, 1, Min({Len(stack), document[b].level - 1})), b)

\* One more block: the stack of headings it is under, and its units.
AddBlock(acc, b) ==
    IF document[b].level > 0
    THEN LET path == PathOf(acc.stack, b)
         IN [stack |-> path, units |-> Append(acc.units, Unit(Block(b), path, TRUE))]
    ELSE LET pieces == SplitOversized(b)
         IN [stack |-> acc.stack,
             units |-> acc.units \o [i \in DOMAIN pieces |-> Unit(pieces[i], acc.stack, FALSE)]]

Units ==
    LET read[b \in 0 .. Len(document)] ==
            IF b = 0 THEN [stack |-> <<>>, units |-> <<>>] ELSE AddBlock(read[b - 1], b)
    IN read[Len(document)].units

Chunk(text, path) == [text |-> text, path |-> path]

\* The passages that are complete, and the one that grows.
Closed(acc) == IF acc.text = <<>> THEN acc.done ELSE Append(acc.done, Chunk(acc.text, acc.path))

\* A section begins a new passage, and so does a unit that does not fit.
AddUnit(acc, unit) ==
    LET text == Joined(acc.text, BlankLine, unit.text)
    IN IF acc.text # <<>> /\ ~unit.starts /\ Len(text) <= Size
       THEN [done |-> acc.done, text |-> text, path |-> acc.path]
       ELSE [done |-> Closed(acc), text |-> unit.text, path |-> unit.path]

Pack(units) ==
    LET packed[n \in 0 .. Len(units)] ==
            IF n = 0 THEN [done |-> <<>>, text |-> <<>>, path |-> <<>>]
            ELSE AddUnit(packed[n - 1], units[n])
    IN Closed(packed[Len(units)])

ChunkingInit ==
    /\ document \in Documents
    /\ setting \in Settings
    /\ \E units \in {Units} : chunks = Pack(units)
    /\ index = 1
    /\ passages = <<>>

-----------------------------------------------------------------------------
(* Passages that are too short *)

Looping == passages = <<>> /\ index <= Len(chunks)
Short == Looping /\ Len(chunks[index].text) < Minimum /\ Len(chunks) > 1

\* Mutant: the length of the separator is forgotten.
CombinedLengthOfTexts(left, right) == Len(left.text) + Len(right.text)

CombinedLength(left, right) == Len(left.text) + 2 + Len(right.text)

\* i and i + 1 become one passage, under the path of the first.
Merged(i) ==
    LET both == Chunk(chunks[i].text \o BlankLine \o chunks[i + 1].text, chunks[i].path)
    IN ReplaceAt(RemoveAt(chunks, i + 1), i, both)

FitsBefore == index > 1 /\ CombinedLength(chunks[index - 1], chunks[index]) <= Size
FitsAfter == index < Len(chunks) /\ CombinedLength(chunks[index], chunks[index + 1]) <= Size

\* The places next to white space where text may be cut in two.
Boundaries(text) == {i \in 1 .. Len(text) - 1 : Blank(text[i]) \/ Blank(text[i + 1])}
LeftOf(text, i) == RStrip(SubSeq(text, 1, i))
RightOf(text, i) == LStrip(SubSeq(text, i + 1, Len(text)))

\* What the passage at index lacks, and how much of it another one can give.
Needed == Minimum - Len(chunks[index].text)
MayTake(from) == Needed .. Min({Len(from) - Minimum, Size - Len(chunks[index].text) - 2})

SuffixCuts(text) ==
    {i \in Boundaries(text) : /\ Len(text) - i \in MayTake(text) /\ LeftOf(text, i) # <<>>
                              /\ Len(RightOf(text, i)) \in MayTake(text)}
PrefixCuts(text) ==
    {i \in Boundaries(text) : /\ i \in MayTake(text) /\ RightOf(text, i) # <<>>
                              /\ Len(LeftOf(text, i)) \in MayTake(text)}

\* The passages at i and i + 1 after the one at index has taken what it lacks from
\* the end of the one before it, or from the beginning of the one after it.
FromPrevious ==
    LET text == chunks[index - 1].text
        i == Max(SuffixCuts(text))
    IN <<LeftOf(text, i), RightOf(text, i) \o BlankLine \o chunks[index].text>>
FromFollowing ==
    LET text == chunks[index + 1].text
        i == Min(PrefixCuts(text))
    IN <<chunks[index].text \o BlankLine \o LeftOf(text, i), RightOf(text, i)>>

BorrowsBefore ==
    /\ index > 1 /\ SuffixCuts(chunks[index - 1].text) # {}
    /\ Len(FromPrevious[1]) >= Minimum /\ Len(FromPrevious[2]) <= Size
BorrowsAfter ==
    /\ index < Len(chunks) /\ PrefixCuts(chunks[index + 1].text) # {}
    /\ Len(FromFollowing[2]) >= Minimum /\ Len(FromFollowing[1]) <= Size

Rewritten(i, texts) ==
    [chunks EXCEPT ![i].text = texts[1], ![i + 1].text = texts[2]]

MergeBefore ==
    /\ Short /\ FitsBefore
    /\ chunks' = Merged(index - 1) /\ index' = index - 1 /\ UNCHANGED inputs
MergeAfter ==
    /\ Short /\ ~FitsBefore /\ FitsAfter
    /\ chunks' = Merged(index) /\ UNCHANGED <<index, inputs>>
BorrowBefore ==
    /\ Short /\ ~FitsBefore /\ ~FitsAfter /\ BorrowsBefore
    /\ chunks' = Rewritten(index - 1, FromPrevious) /\ index' = index + 1 /\ UNCHANGED inputs
BorrowAfter ==
    /\ Short /\ ~FitsBefore /\ ~FitsAfter /\ ~BorrowsBefore /\ BorrowsAfter
    /\ chunks' = Rewritten(index, FromFollowing) /\ index' = index + 1 /\ UNCHANGED inputs
Keep ==
    /\ Looping
    /\ ~Short \/ ~(FitsBefore \/ FitsAfter \/ BorrowsBefore \/ BorrowsAfter)
    /\ index' = index + 1 /\ UNCHANGED <<chunks, inputs>>

-----------------------------------------------------------------------------
(* Context *)

\* The last words among the last characters of a text; its first word may be cut.
ContextSuffix(text, budget) ==
    LET candidate == Strip(SubSeq(text, Len(text) - budget + 1, Len(text)))
        spaces == {i \in DOMAIN candidate : candidate[i] = Space}
    IN IF spaces = {} THEN candidate
       ELSE Strip(SubSeq(candidate, Min(spaces) + 1, Len(candidate)))

WithContext(i) ==
    LET text == chunks[i].text
        before == chunks[i - 1].text
        budget == Min({setting.overlap, Size - Len(text) - 2, Len(before) - 1})
    IN IF i = 1 \/ budget <= 0 THEN text ELSE Joined(ContextSuffix(before, budget), BlankLine, text)

Passage(i) == [sequence |-> i, text |-> Strip(WithContext(i)), path |-> chunks[i].path]

\* Passages that say nothing are left out; the others keep their numbers.
Finish ==
    /\ passages = <<>> /\ index > Len(chunks)
    /\ LET kept[n \in 0 .. Len(chunks)] ==
              IF n = 0 THEN <<>>
              ELSE IF Passage(n).text = <<>> THEN kept[n - 1] ELSE Append(kept[n - 1], Passage(n))
       IN passages' = kept[Len(chunks)]
    /\ UNCHANGED <<document, setting, chunks, index>>

ChunkingNext ==
    \/ MergeBefore \/ MergeAfter \/ BorrowBefore \/ BorrowAfter \/ Keep
    \/ Finish
ChunkingSpec == ChunkingInit /\ [][ChunkingNext]_chunkingVars

-----------------------------------------------------------------------------
(* Properties *)

\* The visible characters of a text, which say by themselves where they come from.
Letters(text) == {text[k] : k \in {i \in DOMAIN text : ~Blank(text[i])}}
Ahead(c, d) == c[1] < d[1] \/ (c[1] = d[1] /\ c[2] < d[2])
Precede(first, second) == \A c \in first, d \in second : Ahead(c, d)

\* The visible characters of a text, or of several texts, are in order, and none is there twice.
InOrder(text) ==
    \A i, j \in DOMAIN text : i < j /\ ~Blank(text[i]) /\ ~Blank(text[j]) => Ahead(text[i], text[j])
Tell(texts, letters) ==
    /\ \A i \in DOMAIN texts : InOrder(texts[i])
    /\ \A i, j \in DOMAIN texts : i < j => Precede(Letters(texts[i]), Letters(texts[j]))
    /\ UNION {Letters(texts[i]) : i \in DOMAIN texts} = letters

Texts(parts) == [i \in DOMAIN parts |-> parts[i].text]
Everything == UNION {Letters(Block(b)) : b \in DOMAIN document}

Headings == {b \in DOMAIN document : document[b].level > 0}

\* The headings a block is under: those no later one of their level or above has ended.
Enclosing(b) ==
    {h \in Headings : /\ h <= b
                      /\ \A g \in Headings : g \in h + 1 .. b => document[g].level > document[h].level}

\* Each heading is one level below another that it is under, or at the top.
Nested ==
    \A h \in Headings : document[h].level = 1 \/ \E g \in Enclosing(h) : document[g].level + 1 = document[h].level

\* The path is that of the block.
Names(path, b) == ToSet(path) = Enclosing(b) /\ \A i, j \in DOMAIN path : i < j => path[i] < path[j]

\* A text that is too long is nothing but a heading.
Bounded(text) ==
    \/ Len(text) <= Size
    \/ \E h \in Headings : document[h].length > Size /\ \A c \in Letters(text) : c[1] = h

\* What stands in a passage besides its own text is the end of the passage before.
ContextOf(p) == Letters(p.text) \ Letters(chunks[p.sequence].text)
PassageFaithful(p) ==
    LET own == Letters(chunks[p.sequence].text)
    IN /\ own \subseteq Letters(p.text) /\ InOrder(p.text) /\ Bounded(p.text)
       /\ ContextOf(p) # {} =>
             LET before == Letters(chunks[p.sequence - 1].text)
             IN ContextOf(p) \subseteq before /\ Precede(before \ ContextOf(p), ContextOf(p))
       /\ Cardinality(ContextOf(p)) <= setting.overlap
       /\ Nested => \E c \in own : Names(p.path, c[1])

\* The passages say what the page says. Without their context they hold every
\* character of it once and in order; the context is the end of the passage
\* before; none is longer than the limit, except for a heading that is itself;
\* and the path of each is the path of something in it.
PassagesFaithful ==
    passages # <<>> =>
        /\ Tell(Texts(chunks), Everything)
        /\ \A i \in DOMAIN chunks : Letters(chunks[i].text) # {} => \E n \in DOMAIN passages : passages[n].sequence = i
        /\ \A m, n \in DOMAIN passages : m < n => passages[m].sequence < passages[n].sequence
        /\ \A n \in DOMAIN passages : PassageFaithful(passages[n])
=============================================================================
