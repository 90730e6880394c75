---------------------------- MODULE PatternMatch ----------------------------
(***************************************************************************)
(* The regexes of a filter, on its two ways: an attribute's is given to    *)
(* Postgres, which knows lookarounds; a price description's is matched in  *)
(* Go by MatchRegexPattern, which emulates them because RE2 does not.      *)
(*                                                                         *)
(* A text is a sequence of words, each at the beginning or behind a        *)
(* hyphen.  A pattern is what the code and the engines tell apart: its     *)
(* form (bare, /body/flags, or a slash that is never closed), its length,  *)
(* the flag i, `^', its lookaheads (?!X), its lookbehinds (?<!T) and a     *)
(* body: everything, or one word, perhaps behind `.*' or `\-' and perhaps  *)
(* before `$'.  X is `.*' or nothing, one word or several in a group, and  *)
(* `$' or nothing; a word in X or T may be written with an escape.         *)
(***************************************************************************)
EXTENDS Naturals, Sequences

CONSTANT Lower       \* strings.ToLower on words

Texts == Seq(DOMAIN Lower)

Terms == [word : DOMAIN Lower, escaped : BOOLEAN]

Lookaheads == [star : BOOLEAN, terms : SUBSET Terms, group : BOOLEAN, end : BOOLEAN]

Bodies == [all : BOOLEAN, dash : BOOLEAN, star : BOOLEAN, word : DOMAIN Lower, end : BOOLEAN]

Regexes ==
  [form : {"bare", "slashed", "open"}, long : BOOLEAN, i : BOOLEAN, start : BOOLEAN,
   ahead : SUBSET Lookaheads, behind : SUBSET Terms, body : Bodies]

Same(p, a, b) == IF p.i THEN Lower[a] = Lower[b] ELSE a = b

Positions(text) == 1 .. Len(text) + 1

WordAt(p, text, k, word, end) == k \in DOMAIN text /\ Same(p, text[k], word) /\ (end => k = Len(text))

\* The body matches from position s on.
BodyAt(p, text, s) ==
  \/ p.body.all
  \/ /\ p.body.dash => s > 1
     /\ \E k \in s .. Len(text) : (p.body.star \/ k = s) /\ WordAt(p, text, k, p.body.word, p.body.end)

Matching(p, text) == {s \in Positions(text) : (p.start => s = 1) /\ BodyAt(p, text, s)}

\* What a regex means to an engine that has lookarounds (external: Postgres).
Denotes(p, text) ==
  \E s \in Matching(p, text) :
    /\ \A x \in p.ahead : ~\E k \in s .. Len(text), t \in x.terms :
         (x.star \/ k = s) /\ WordAt(p, text, k, t.word, x.end)
    /\ \A t \in p.behind : s > 1 => ~Same(p, text[s - 1], t.word)

\* `\-' at the beginning also stands for the beginning of the text.
normalizeRegexForPrefix(p) == [p EXCEPT !.body.dash = FALSE]

\* RE2 refuses a lookaround.
Compiles(p) == p.ahead = {} /\ p.behind = {}

MatchString(p, text) == Compiles(p) /\ Matching(p, text) # {}

\* Mutant: the flag i is forgotten where the exclusions are looked for.
MutantExcluded(p, x, text) == \E t \in x.terms, k \in DOMAIN text : ~t.escaped /\ text[k] = t.word

\* One of the alternatives, without `.*', `$' and the group around them, is in the
\* text: strings.Contains, so an escape is looked for as it is written.
Excluded(p, x, text) == \E t \in x.terms, k \in DOMAIN text : ~t.escaped /\ Same(p, text[k], t.word)

\* What is left without the lookaheads has to match too, if it compiles: the cleaner
\* stops at the first `)', so a group leaves one that closes nothing.
matchWithNegativeLookahead(p, text) ==
  LET cleaned == [p EXCEPT !.ahead = {}]
      unbalanced == \E x \in p.ahead : x.group
  IN /\ \A x \in p.ahead : ~Excluded(p, x, text)
     /\ unbalanced \/ ~Compiles(cleaned) \/ MatchString(cleaned, text)

\* Only the leftmost match is looked at.
matchWithNegativeLookbehind(p, text) ==
  \E s \in Matching(p, text) :
    /\ \A r \in Matching(p, text) : s <= r
    /\ \A t \in p.behind : t.escaped \/ s = 1 \/ ~Same(p, text[s - 1], t.word)

MatchRegexPattern(p, text) ==
  LET q == normalizeRegexForPrefix(p)
  IN /\ ~p.long
     /\ \/ p.form = "bare" /\ MatchString(p, text)
        \/ p.form = "slashed" /\ q.ahead # {} /\ matchWithNegativeLookahead(q, text)
        \/ p.form = "slashed" /\ q.ahead = {} /\ q.behind # {} /\ matchWithNegativeLookbehind(q, text)
        \/ p.form = "slashed" /\ q.ahead = {} /\ q.behind = {} /\ MatchString(q, text)

\* An attribute's regex loses its slashes; one that is not closed is no clause at all.
PostgresClause(p, text) == p.form = "open" \/ Denotes(normalizeRegexForPrefix(p), text)

\* The patterns whose emulation is meant to hold: no escape among what is excluded, no
\* group before a body that says something, no lookbehind beside a lookahead.
Emulated(p) ==
  /\ \A x \in p.ahead : (\A t \in x.terms : ~t.escaped) /\ (x.group => p.body.all)
  /\ \A t \in p.behind : ~t.escaped
  /\ p.ahead = {} \/ p.behind = {}

\* What the emulation takes a pattern for: the words of a lookahead are kept out of the
\* whole text, whether or not it has `.*' and `$', and an escaped word is found in none.
TakenFor(p) ==
  [p EXCEPT !.ahead = {[x EXCEPT !.star = TRUE, !.end = FALSE, !.terms = {t \in @ : ~t.escaped}] : x \in @},
            !.behind = {t \in @ : ~t.escaped}]

\* The patterns of which the emulation rejects nothing that they, so taken, accept: what
\* is excluded is so from `^' on, and a body behind a lookbehind matches in one place.
EmulatedExactly(p) ==
  /\ ~p.long /\ p.form = "slashed"
  /\ p.ahead # {} => p.start
  /\ p.ahead = {} /\ p.behind # {} => p.body.end /\ ~p.body.star

\* The shape matchWithNegativeLookahead names: ^(?!.*(Excluded1|Excluded2)$).*$
Documented(p) ==
  /\ ~p.long /\ p.form = "slashed" /\ p.start /\ p.behind = {} /\ p.body.all
  /\ \A x \in p.ahead : x.star /\ x.group /\ x.end /\ \A t \in x.terms : ~t.escaped
=============================================================================
