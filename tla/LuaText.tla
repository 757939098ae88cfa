-------------------------------- MODULE LuaText --------------------------------
(* string.find, gmatch and gsub (lstrlib.c) over LuaPattern, and what a pattern  *)
(* means: the manual's items, each with all the ways it can match, in the order *)
(* it prefers them.  An example is a subject and a pattern with what match      *)
(* answers at every place of the subject.                                      *)
EXTENDS LuaPattern, SequencesExt

CONSTANT Examples      \* see Example

(* The items of a pattern: a character of a set, so often; a capture opens or    *)
(* closes, or takes a position; a capture again; %b; %f; the end of the subject.  *)
Chars_(text, set, often) == [is |-> "char", text |-> text, set |-> set, often |-> often]
OpenItem == [is |-> "open", text |-> <<Open>>]
ShutItem == [is |-> "shut", text |-> <<Shut>>]
PositionItem == [is |-> "position", text |-> <<Open, Shut>>]
BackItem(l) == [is |-> "back", text |-> <<L_ESC, 48 + l>>, l |-> l]
BalanceItem(b, e) == [is |-> "balance", text |-> <<L_ESC, 98, b, e>>, b |-> b, e |-> e]
FrontierItem(text, set) == [is |-> "frontier", text |-> <<L_ESC, 102>> \o text, set |-> set]
EndItem == [is |-> "end", text |-> <<Dollar>>]

Text(items) == FlattenSeq([i \in 1..Len(items) |->
                 IF items[i].is = "char" /\ items[i].often # 0
                 THEN Append(items[i].text, items[i].often) ELSE items[i].text])

(* How often a character item may match at s, best first.                        *)
Run(src, s, set) == CHOOSE n \in 0..(Len(src) - s + 1) :
                      /\ \A k \in 0..(n - 1) : src[s + k] \in set
                      /\ s + n > Len(src) \/ src[s + n] \notin set
Counts(src, s, item) ==
  LET n == Run(src, s, item.set)
      Down(from, to) == [i \in 1..(from - to + 1) |-> from - i + 1]
  IN CASE item.often = 0     -> IF n > 0 THEN <<1>> ELSE <<>>
       [] item.often = Quest -> IF n > 0 THEN <<1, 0>> ELSE <<0>>
       [] item.often = Star  -> Down(n, 0)
       [] item.often = Plus  -> Down(n, 1)
       [] OTHER              -> [i \in 1..(n + 1) |-> i - 1]

(* The balanced text from s: its first prefix in which every opening character   *)
(* is closed, a character that is both closing.                                *)
Depth(src, s, t, item) ==
  1 + Cardinality({k \in (s + 1)..t : src[k] = item.b /\ item.b # item.e})
    - Cardinality({k \in (s + 1)..t : src[k] = item.e})
BalancedEnds(src, s, item) ==
  {t \in s..Len(src) : src[s] = item.b /\ Depth(src, s, t, item) = 0
                       /\ \A k \in s..(t - 1) : Depth(src, s, k, item) > 0}

RECURSIVE Ways(_, _, _, _)
Ways(src, items, s, caps) ==
  IF items = <<>> THEN <<Result(s, caps)>>
  ELSE LET item == Head(items)
           Rest(at, with) == Ways(src, Tail(items), at, with)
           l == capture_to_close(caps)
           size == caps[item.l].len
           from == caps[item.l].init
       IN CASE item.is = "char" -> LET counts == Counts(src, s, item)
                                   IN FlattenSeq([i \in 1..Len(counts) |-> Rest(s + counts[i], caps)])
            [] item.is = "open" -> Rest(s, Append(caps, [init |-> s, len |-> Unfinished]))
            [] item.is = "position" -> Rest(s, Append(caps, [init |-> s, len |-> Position]))
            [] item.is = "shut" -> Rest(s, SetLen(caps, l, s - caps[l].init))
            [] item.is = "back" -> IF /\ size >= 0 /\ s + size - 1 <= Len(src)
                                      /\ \A k \in 0..(size - 1) : src[from + k] = src[s + k]
                                   THEN Rest(s + size, caps) ELSE <<>>
            [] item.is = "balance" -> IF BalancedEnds(src, s, item) = {} THEN <<>>
                                      ELSE Rest(1 + (CHOOSE t \in BalancedEnds(src, s, item) : TRUE), caps)
            [] item.is = "frontier" -> IF Char(src, s - 1) \notin item.set /\ Char(src, s) \in item.set
                                       THEN Rest(s, caps) ELSE <<>>
            [] OTHER -> IF s > Len(src) THEN Rest(s, caps) ELSE <<>>

Meaning(src, items, s) == LET ways == Ways(src, items, s, <<>>)
                          IN IF ways = <<>> THEN Result(None, <<>>) ELSE ways[1]

Example(src, items, anchored) ==
  LET pat == IF anchored THEN <<Hat>> \o Text(items) ELSE Text(items)
  IN [src |-> src, pat |-> pat, anchored |-> anchored,
      answers |-> [s \in 1..(Len(src) + 1) |-> match(src, pat, s)],
      meaning |-> [s \in 1..(Len(src) + 1) |-> Meaning(src, items, s)]]

VARIABLES ptext,       \* the example
          pdoing,      \* "idle", "gmatch", "str_gsub", "done"
          psrc,        \* the place to try next
          pfound,      \* the matches so far: <<from, after>>
          pbuffer      \* gsub's result so far, with 0 for a replacement

textVars == <<ptext, pdoing, psrc, pfound, pbuffer>>

NoText == [src |-> <<>>, pat |-> <<>>, anchored |-> FALSE, answers |-> <<Result(1, <<>>)>>,
           meaning |-> <<Result(1, <<>>)>>]
TextInit == ptext = NoText /\ pdoing = "idle" /\ psrc = 1 /\ pfound = <<>> /\ pbuffer = <<>>

At_(s) == ptext.answers[s].at
End == Len(ptext.src) + 1

(* gmatch takes no anchor; gsub does.                                           *)
BeginText == /\ pdoing = "idle"
             /\ \E ex \in Examples, how \in {"gmatch", "str_gsub"} :
                  /\ ~(ex.anchored /\ how = "gmatch")
                  /\ ptext' = ex /\ pdoing' = how
             /\ UNCHANGED <<psrc, pfound, pbuffer>>

(* As gmatch_aux would be without newstart++.                                   *)
gmatch_stays ==
  /\ pdoing = "gmatch"
  /\ IF psrc > End THEN pdoing' = "done" /\ UNCHANGED <<psrc, pfound>>
     ELSE /\ pfound' = IF At_(psrc) = None THEN pfound ELSE Append(pfound, <<psrc, At_(psrc)>>)
          /\ psrc' = IF At_(psrc) = None THEN psrc + 1 ELSE At_(psrc)
          /\ UNCHANGED pdoing
  /\ UNCHANGED <<ptext, pbuffer>>

(* gmatch_aux: the next place with a match; after an empty one, a place further. *)
gmatch_aux ==
  /\ pdoing = "gmatch"
  /\ IF psrc > End THEN pdoing' = "done" /\ UNCHANGED <<psrc, pfound>>
     ELSE /\ pfound' = IF At_(psrc) = None THEN pfound ELSE Append(pfound, <<psrc, At_(psrc)>>)
          /\ psrc' = IF At_(psrc) \in {None, psrc} THEN psrc + 1 ELSE At_(psrc)
          /\ UNCHANGED pdoing
  /\ UNCHANGED <<ptext, pbuffer>>

(* As str_gsub would be if it skipped a character after every empty match.       *)
gsub_skips ==
  LET found == At_(psrc) # None
      after == IF found /\ At_(psrc) > psrc THEN At_(psrc) ELSE psrc + 1
  IN /\ pdoing = "str_gsub"
     /\ pfound' = IF found THEN Append(pfound, <<psrc, At_(psrc)>>) ELSE pfound
     /\ pbuffer' = pbuffer \o (IF found THEN <<0>> ELSE IF psrc < End THEN <<ptext.src[psrc]>> ELSE <<>>)
     /\ psrc' = IF after > End THEN psrc ELSE after
     /\ pdoing' = IF after > End \/ ptext.anchored THEN "done" ELSE pdoing
     /\ UNCHANGED ptext

(* str_gsub: a match is replaced; unless it took characters, the next one is    *)
(* copied; at the end of the subject, or after one try when anchored, it ends.   *)
str_gsub ==
  LET found == At_(psrc) # None
      took == found /\ At_(psrc) > psrc
      copies == ~took /\ psrc < End
  IN /\ pdoing = "str_gsub"
     /\ pfound' = IF found THEN Append(pfound, <<psrc, At_(psrc)>>) ELSE pfound
     /\ pbuffer' = pbuffer \o (IF found THEN <<0>> ELSE <<>>)
                           \o (IF copies THEN <<ptext.src[psrc]>> ELSE <<>>)
     /\ psrc' = IF took THEN At_(psrc) ELSE IF copies THEN psrc + 1 ELSE psrc
     /\ pdoing' = IF (~took /\ ~copies) \/ ptext.anchored THEN "done" ELSE pdoing
     /\ UNCHANGED ptext

TextNext == BeginText \/ gmatch_aux \/ str_gsub

TextSpec == TextInit /\ [][TextNext]_textVars

(* match finds the match the pattern means, the most preferred of all there     *)
(* are, and the captures of that one: none that a branch left behind.           *)
PatternMeans ==
  \A s \in 1..End : LET a == ptext.answers[s]  m == ptext.meaning[s]
                     IN a.at = m.at /\ (m.at # None => a.caps = m.caps)

(* gmatch and gsub take the same matches: each the first from where the one     *)
(* before it ended, or from the next place when that one was empty, and none    *)
(* is left when they end.                                                      *)
Resumes(k) == IF k = 0 THEN 1
              ELSE IF pfound[k][1] = pfound[k][2] THEN pfound[k][2] + 1 ELSE pfound[k][2]
MatchesTaken ==
  /\ \A k \in 1..Len(pfound) :
       /\ pfound[k][2] = At_(pfound[k][1]) /\ pfound[k][1] >= Resumes(k - 1)
       /\ \A s \in Resumes(k - 1)..(pfound[k][1] - 1) : At_(s) = None
  /\ pdoing = "done" /\ ~ptext.anchored =>
       \A s \in Resumes(Len(pfound))..End : At_(s) = None
  /\ ptext.anchored => Len(pfound) <= 1

(* gsub loses nothing of the subject: with the matches put back for their       *)
(* replacements and the rest after them (luaL_addlstring), its result is the    *)
(* subject.                                                                    *)
PutBack ==
  LET Before(i) == Cardinality({k \in 1..i : pbuffer[k] = 0})
  IN FlattenSeq([i \in 1..Len(pbuffer) |->
       IF pbuffer[i] = 0 THEN SubSeq(ptext.src, pfound[Before(i)][1], pfound[Before(i)][2] - 1)
       ELSE <<pbuffer[i]>>])
NothingLost ==
  pdoing = "str_gsub" \/ (pdoing = "done" /\ pbuffer # <<>>) =>
    PutBack \o SubSeq(ptext.src, psrc, Len(ptext.src)) = ptext.src

(* gmatch and gsub over the whole subject.                                     *)
TextCovered == MatchesTaken /\ NothingLost
================================================================================
