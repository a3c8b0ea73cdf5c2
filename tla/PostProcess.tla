---------------------------- MODULE PostProcess -----------------------------
(***************************************************************************)
(* PostProcess (internal/digest/postprocess.go): from the text of a model  *)
(* to the summary in the notification.  A text is a sequence of tokens:    *)
(* letters, blanks, the tags around reasoning, a code fence, and a         *)
(* preamble up to its colon.  Each token stands for one character, which   *)
(* matters to the cap only; tags that arise when a removal joins two       *)
(* halves of a tag are left out.                                           *)
(***************************************************************************)
EXTENDS Integers, SequencesExt

Letter == "a"
Space == "space"
Newline == "newline"
Open == "<think>"
Close == "</think>"
Fence == "fence"
Preamble == "Summary:"
Ellipsis == "..."

Blank == {Space, Newline}
Tokens == {Letter, Open, Close, Fence, Preamble} \cup Blank

\* How many of the places there are up to i.
Rank(places, i) == Cardinality({j \in places : j <= i})

\* The characters at some places of a text, in order.
At(s, places) ==
  [k \in 1 .. Cardinality(places) |-> s[CHOOSE i \in places : Rank(places, i) = k]]

TrimSpace(s) ==
  LET solid == {i \in DOMAIN s : s[i] \notin Blank}
  IN  IF solid = {} THEN <<>> ELSE SubSeq(s, Min(solid), Max(solid))

HasPrefix(s, token) == s # <<>> /\ Head(s) = token
TrimPrefix(s, token) == IF HasPrefix(s, token) THEN Tail(s) ELSE s
TrimSuffix(s, token) == IF s # <<>> /\ Last(s) = token THEN Front(s) ELSE s

\* strings.Fields: how many words there are.
Fields(s) == Cardinality({i \in DOMAIN s : s[i] \notin Blank /\ (i = 1 \/ s[i - 1] \in Blank)})

\* thinkRe is not greedy: a tag is closed by the next closing tag after it.
DropThinking(s) ==
  LET thought(i) == \E k \in 1 .. i, j \in i .. Len(s) :
                      s[k] = Open /\ s[j] = Close /\ \A m \in k .. j - 1 : s[m] # Close
  IN  At(s, {i \in DOMAIN s : ~thought(i)})

AfterLastClose(s) ==
  LET closes == {i \in DOMAIN s : s[i] = Close}
  IN  IF closes = {} THEN s ELSE SubSeq(s, Max(closes) + 1, Len(s))

\* A fence at the start goes, with the language tag on its line, and a fence at
\* the end with it.
Unfence(s) ==
  LET newlines == {i \in DOMAIN s : s[i] = Newline}
      first == Min(newlines)
      tagged == newlines # {} /\ Fields(SubSeq(s, 1, first - 1)) <= 1
      body == IF tagged THEN SubSeq(s, first + 1, Len(s)) ELSE s
  IN  TrimSpace(TrimSuffix(TrimSpace(body), Fence))

StripFence(s) == IF HasPrefix(s, Fence) THEN Unfence(Tail(s)) ELSE s

\* Mutant: orphaned closing tags are left alone.
Clean_orphans(s) ==
  TrimSpace(TrimPrefix(StripFence(TrimSpace(DropThinking(s))), Preamble))

\* Mutant: the preamble is looked for before the fence.
Clean_preambleFirst(s) ==
  TrimSpace(StripFence(TrimSpace(TrimPrefix(TrimSpace(AfterLastClose(DropThinking(s))), Preamble))))

Clean(s) ==
  TrimSpace(TrimPrefix(StripFence(TrimSpace(AfterLastClose(DropThinking(s)))), Preamble))

\* The place of the last blank, from 0, or -1.
lastSpace(s) == Max({i - 1 : i \in {i \in DOMAIN s : s[i] \in Blank}} \cup {-1})

\* Mutant: the last blank is not looked for.
Capped_midWord(s, maxChars) ==
  IF maxChars <= 0 \/ Len(s) <= maxChars THEN s
  ELSE TrimSpace(SubSeq(s, 1, maxChars)) \o <<Ellipsis>>

Capped(s, maxChars) ==
  LET cut == SubSeq(s, 1, maxChars)
      kept == IF lastSpace(cut) > maxChars \div 2 THEN SubSeq(cut, 1, lastSpace(cut)) ELSE cut
  IN  IF maxChars <= 0 \/ Len(s) <= maxChars THEN s ELSE TrimSpace(kept) \o <<Ellipsis>>

Summary(text, maxChars) == Capped(Clean(text), maxChars)
=============================================================================
