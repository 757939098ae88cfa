------------------------------- MODULE LuaPattern ------------------------------
(* Pattern matching (lstrlib.c).  match goes through the text of a pattern       *)
(* while it tries it, with one array of captures that every branch writes and   *)
(* has to put back when it fails.  Strings are sequences of character codes; a  *)
(* place is an index, one past the end for the '\0' there.                      *)
EXTENDS Integers, Sequences

CONSTANT MAXCAPTURES   \* LUA_MAXCAPTURES (32 in the build)

None == 0              \* a match that fails: NULL
Error == -1            \* luaL_error
Unfinished == -1       \* CAP_UNFINISHED
Position == -2         \* CAP_POSITION

(* The characters that mean something, by their codes.                         *)
L_ESC == 37   Open == 40   Shut == 41   Star == 42   Plus == 43   Minus == 45
Dot == 46     Quest == 63  Left == 91   Right == 93  Hat == 94    Dollar == 36
IsDigit(c) == c \in 48..57
IsLower(c) == c \in 97..122
IsUpper(c) == c \in 65..90

Char(text, i) == IF i \in 1..Len(text) THEN text[i] ELSE 0

(* match_class, for the classes %a, %d, %l, %u, %w, %z and their complements.    *)
Classes == [c \in {97, 100, 108, 117, 119, 122} |->
  CASE c = 97 -> (65..90) \cup (97..122)   [] c = 100 -> 48..57
    [] c = 108 -> 97..122                  [] c = 117 -> 65..90
    [] c = 119 -> (48..57) \cup (65..90) \cup (97..122)   [] OTHER -> {0}]
tolower(c) == IF IsUpper(c) THEN c + 32 ELSE c
match_class(c, cl) ==
  IF tolower(cl) \in DOMAIN Classes
  THEN (c \in Classes[tolower(cl)]) = IsLower(cl)
  ELSE c = cl

(* classend: one past the single-character item at p.                          *)
RECURSIVE SetEnd(_, _)
SetEnd(pat, p) ==
  LET q == IF Char(pat, p) = L_ESC /\ Char(pat, p + 1) # 0 THEN p + 2 ELSE p + 1
  IN CASE Char(pat, p) = 0     -> Error
       [] Char(pat, q) = Right -> q + 1
       [] OTHER                -> SetEnd(pat, q)
classend(pat, p) ==
  CASE Char(pat, p) = L_ESC -> IF Char(pat, p + 1) = 0 THEN Error ELSE p + 2
    [] Char(pat, p) = Left  -> SetEnd(pat, IF Char(pat, p + 1) = Hat THEN p + 2 ELSE p + 1)
    [] OTHER                -> p + 1

(* matchbracketclass: c among the characters, classes and ranges before ec.     *)
RECURSIVE InSet(_, _, _, _)
InSet(c, pat, p, ec) ==
  CASE p >= ec -> FALSE
    [] Char(pat, p) = L_ESC -> match_class(c, Char(pat, p + 1)) \/ InSet(c, pat, p + 2, ec)
    [] Char(pat, p) # L_ESC /\ Char(pat, p + 1) = Minus /\ p + 2 < ec ->
         c \in Char(pat, p)..Char(pat, p + 2) \/ InSet(c, pat, p + 3, ec)
    [] OTHER -> c = Char(pat, p) \/ InSet(c, pat, p + 1, ec)
matchbracketclass(c, pat, p, ec) ==
  IF Char(pat, p + 1) = Hat THEN ~InSet(c, pat, p + 2, ec) ELSE InSet(c, pat, p + 1, ec)

singlematch(c, pat, p, ep) ==
  CASE Char(pat, p) = Dot   -> TRUE
    [] Char(pat, p) = L_ESC -> match_class(c, Char(pat, p + 1))
    [] Char(pat, p) = Left  -> matchbracketclass(c, pat, p, ep - 1)
    [] OTHER                -> Char(pat, p) = c

(* matchbalance, from the character after the opening one.                      *)
RECURSIVE Balance(_, _, _, _, _)
Balance(src, s, b, e, cont) ==
  CASE s > Len(src) -> None
    [] s <= Len(src) /\ Char(src, s) = e -> IF cont = 1 THEN s + 1 ELSE Balance(src, s + 1, b, e, cont - 1)
    [] s <= Len(src) /\ Char(src, s) = b /\ b # e -> Balance(src, s + 1, b, e, cont + 1)
    [] OTHER -> Balance(src, s + 1, b, e, cont)
matchbalance(src, s, pat, p) ==
  CASE Char(pat, p) = 0 \/ Char(pat, p + 1) = 0 -> Error
    [] Char(src, s) # Char(pat, p) -> None
    [] OTHER -> Balance(src, s + 1, Char(pat, p), Char(pat, p + 1), 1)

(* capture_to_close: the last unfinished capture.                               *)
capture_to_close(caps) ==
  LET open == {l \in 1..Len(caps) : caps[l].len = Unfinished}
  IN IF open = {} THEN Error ELSE CHOOSE l \in open : \A k \in open : k <= l

check_capture(caps, l) ==
  IF l \in 1..Len(caps) THEN (IF caps[l].len = Unfinished THEN Error ELSE l) ELSE Error

(* match_capture: the text of a finished capture again; a position capture has  *)
(* a length no text reaches.                                                   *)
match_capture(src, caps, s, l) ==
  IF check_capture(caps, l) = Error THEN Error
  ELSE LET len == caps[l].len
       IN IF /\ len # Position /\ Len(src) - s + 1 >= len
             /\ \A k \in 0..(len - 1) : src[caps[l].init + k] = src[s + k]
          THEN s + len ELSE None

Result(at, caps) == [at |-> at, caps |-> caps]
SetLen(caps, l, len) == [caps EXCEPT ![l] = [init |-> caps[l].init, len |-> len]]

(* What end_capture puts back when the rest fails; as it would be if it did not. *)
LeaveClosed(res, l) == res
Undo(res, l) == IF res.at = None THEN Result(None, SetLen(res.caps, l, Unfinished)) ELSE res

(* match: the place after the match that begins at s, and the captures.  Every  *)
(* branch gets the captures as the branches before it left them.               *)
RECURSIVE Match(_, _, _, _, _), MaxExpand(_, _, _, _, _, _, _), MinExpand(_, _, _, _, _, _)

start_capture(src, pat, s, p, what, caps) ==
  IF Len(caps) >= MAXCAPTURES THEN Result(Error, caps)
  ELSE LET res == Match(src, pat, s, p, Append(caps, [init |-> s, len |-> what]))
       IN IF res.at = None THEN Result(None, SubSeq(res.caps, 1, Len(caps))) ELSE res

end_capture(src, pat, s, p, caps) ==
  LET l == capture_to_close(caps)
  IN IF l = Error THEN Result(Error, caps)
     ELSE Undo(Match(src, pat, s, p, SetLen(caps, l, s - caps[l].init)), l)

(* max_expand with i repetitions or fewer; ep is where the item ends.            *)
MaxExpand(src, pat, s, p, ep, i, caps) ==
  LET res == Match(src, pat, s + i, ep + 1, caps)
  IN IF res.at # None \/ i = 0 THEN res
     ELSE MaxExpand(src, pat, s, p, ep, i - 1, res.caps)
Repeats(src, pat, s, p, ep) ==
  CHOOSE i \in 0..(Len(src) - s + 1) :
    /\ \A k \in 0..(i - 1) : singlematch(src[s + k], pat, p, ep)
    /\ s + i > Len(src) \/ ~singlematch(src[s + i], pat, p, ep)

MinExpand(src, pat, s, p, ep, caps) ==
  LET res == Match(src, pat, s, ep + 1, caps)
  IN IF res.at # None \/ s > Len(src) \/ ~singlematch(Char(src, s), pat, p, ep) THEN res
     ELSE MinExpand(src, pat, s + 1, p, ep, res.caps)

(* The default case: a single character and how often.                          *)
Item(src, pat, s, p, caps) ==
  LET ep == classend(pat, p)
      m == s <= Len(src) /\ singlematch(src[s], pat, p, ep)
      once == Match(src, pat, s + 1, ep + 1, caps)
  IN CASE ep = Error -> Result(Error, caps)
       [] ep # Error /\ Char(pat, ep) = Quest ->
            IF m /\ once.at # None THEN once
            ELSE Match(src, pat, s, ep + 1, IF m THEN once.caps ELSE caps)
       [] ep # Error /\ Char(pat, ep) = Star ->
            MaxExpand(src, pat, s, p, ep, Repeats(src, pat, s, p, ep), caps)
       [] ep # Error /\ Char(pat, ep) = Plus ->
            IF m THEN MaxExpand(src, pat, s + 1, p, ep, Repeats(src, pat, s + 1, p, ep), caps)
            ELSE Result(None, caps)
       [] ep # Error /\ Char(pat, ep) = Minus -> MinExpand(src, pat, s, p, ep, caps)
       [] OTHER -> IF m THEN Match(src, pat, s + 1, ep, caps) ELSE Result(None, caps)

(* Goes on with the pattern at p when the place is one.                          *)
Onward(src, pat, at, p, caps) ==
  IF at \in {None, Error} THEN Result(at, caps) ELSE Match(src, pat, at, p, caps)

Frontier(src, pat, s, p, caps) ==
  LET ep == classend(pat, p)
  IN CASE Char(pat, p) # Left \/ ep = Error -> Result(Error, caps)
       [] OTHER -> IF /\ ~matchbracketclass(Char(src, s - 1), pat, p, ep - 1)
                      /\ matchbracketclass(Char(src, s), pat, p, ep - 1)
                   THEN Match(src, pat, s, ep, caps) ELSE Result(None, caps)

Match(src, pat, s, p, caps) ==
  LET c == Char(pat, p)  next == Char(pat, p + 1)
  IN CASE c = Open /\ next = Shut -> start_capture(src, pat, s, p + 2, Position, caps)
       [] c = Open /\ next # Shut -> start_capture(src, pat, s, p + 1, Unfinished, caps)
       [] c = Shut -> end_capture(src, pat, s, p + 1, caps)
       [] c = L_ESC /\ next = 98 -> Onward(src, pat, matchbalance(src, s, pat, p + 2), p + 4, caps)
       [] c = L_ESC /\ next = 102 -> Frontier(src, pat, s, p + 2, caps)
       [] c = L_ESC /\ IsDigit(next) ->
            Onward(src, pat, match_capture(src, caps, s, next - 48), p + 2, caps)
       [] c = 0 -> Result(s, caps)
       [] c = Dollar /\ next = 0 -> Result(IF s > Len(src) THEN s ELSE None, caps)
       [] OTHER -> Item(src, pat, s, p, caps)

match(src, pat, s) == Match(src, pat, s, IF Char(pat, 1) = Hat THEN 2 ELSE 1, <<>>)
================================================================================
