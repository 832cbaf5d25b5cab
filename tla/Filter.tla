------------------------------- MODULE Filter -------------------------------
(***************************************************************************)
(* Path patterns: --exclude of a backup, --include and --exclude of a      *)
(* restore (kist-core/src/filter.rs).  A path is a sequence of names, a    *)
(* name a sequence of characters.  A filter is a sequence of patterns, and *)
(* matching goes down the path one name at a time, so that a walk knows    *)
(* which branches can still hold a match.                                  *)
(***************************************************************************)
EXTENDS Naturals, Sequences, FiniteSetsExt

CONSTANTS
    Lower,      \* what the lower case of every character is
    NotUtf8     \* the characters that are bytes outside of any UTF-8 sequence

ASSUME LettersAssumption == NotUtf8 \subseteq DOMAIN Lower

-----------------------------------------------------------------------------
(* One segment of a pattern: tokens, each but the star for one character.  *)

Token(kind, negated, chars) == [kind |-> kind, negated |-> negated, chars |-> chars]
Lit(c) == Token("char", FALSE, {c})
AnyChar == Token("any", FALSE, {})
Star == Token("star", FALSE, {})
Class(negated, chars) == Token("class", negated, chars)

\* Token::matches.
Fits(token, unit, fold) ==
    LET found == /\ unit \notin NotUtf8
                 /\ \E c \in token.chars : c = unit \/ (fold /\ Lower[c] = Lower[unit])
    IN \/ token.kind = "any"
       \/ token.kind = "char" /\ found
       \/ token.kind = "class" /\ found # token.negated

\* Where glob_match is: at a token and a character; after is the token behind
\* the last star (0: none yet), which has eaten up to the character from.
Spot(t, at, after, from) == [t |-> t, at |-> at, after |-> after, from |-> from]
Spots(n, l) == [t : 1 .. n + 1, at : 1 .. l + 1, after : 0 .. n + 1, from : 1 .. l + 1]

\* glob_match: a mismatch goes back to the last star, which takes one
\* character more, never past the end.
GlobMatch(tokens, name, fold) ==
    LET n == Len(tokens)
        loop[s \in Spots(n, Len(name))] ==
            IF s.at > Len(name) THEN \A k \in s.t .. n : tokens[k] = Star
            ELSE IF s.t <= n /\ tokens[s.t] = Star THEN loop[Spot(s.t + 1, s.at, s.t + 1, s.at)]
            ELSE IF s.t <= n /\ Fits(tokens[s.t], name[s.at], fold)
                 THEN loop[Spot(s.t + 1, s.at + 1, s.after, s.from)]
            ELSE IF s.after = 0 \/ s.from > Len(name) THEN FALSE
            ELSE loop[Spot(s.after, s.from + 1, s.after, s.from + 1)]
    IN loop[Spot(1, 1, 0, 1)]

\* A component: any number of names, one literal name, or a glob for one.
AnyDepth == [kind |-> "anyDepth", tokens |-> <<>>]

\* parse_segment: a segment without wildcards is compared as it is, unless
\* case does not count.
Component(segment, fold) ==
    IF segment = <<Star, Star>> THEN AnyDepth
    ELSE [kind |-> IF ~fold /\ \A k \in DOMAIN segment : segment[k].kind = "char"
                   THEN "literal" ELSE "glob",
          tokens |-> segment]

\* Pattern::parse: a pattern that does not start at the top starts anywhere.
Pattern(negated, anchored, fold, segments) ==
    [comps |-> (IF anchored THEN <<>> ELSE <<AnyDepth>>)
                  \o [k \in DOMAIN segments |-> Component(segments[k], fold)],
     negated |-> negated, fold |-> fold]

FitsName(comp, name, fold) ==
    IF comp.kind = "literal"
    THEN Len(comp.tokens) = Len(name) /\ \A k \in DOMAIN name : comp.tokens[k] = Lit(name[k])
    ELSE GlobMatch(comp.tokens, name, fold)

\* What parse can make of a text, which is UTF-8.
Letters == DOMAIN Lower \ NotUtf8
Tokens == {t \in [kind : {"any", "char", "star", "class"}, negated : BOOLEAN, chars : SUBSET Letters] :
              t.kind = "char" => \E c \in Letters : t = Lit(c)}
Comps == [kind : {"anyDepth", "literal", "glob"}, tokens : Seq(Tokens)]
IsComp(comp, fold) ==
    /\ comp \in Comps
    /\ comp.kind = "anyDepth" => comp = AnyDepth
    /\ comp.kind = "literal" => ~fold /\ \A k \in DOMAIN comp.tokens : comp.tokens[k].kind = "char"
IsPattern(pattern) ==
    /\ pattern.negated \in BOOLEAN /\ pattern.fold \in BOOLEAN
    /\ pattern.comps \in Seq(Comps)
    /\ \A k \in DOMAIN pattern.comps : IsComp(pattern.comps[k], pattern.fold)
IsFilter(filter) == \A p \in DOMAIN filter : IsPattern(filter[p])

\* The names of files: any bytes.
PathNames == Seq(DOMAIN Lower)

-----------------------------------------------------------------------------
(* The positions of the patterns at a node.                                *)

\* A slip: `**' has to take a name.
ReachNone(comps, i) == {i}

\* FilterState::add: where a pattern may be at position i, since `**' may
\* stand for nothing.
Reach(comps, i) ==
    {j \in i .. Len(comps) + 1 : \A k \in i .. j - 1 : comps[k] = AnyDepth}

At(filter, positions, top) ==
    LET there == UNION {{<<x[1], j>> : j \in Reach(filter[x[1]].comps, x[2])} : x \in positions}
        active == {y \in there : y[2] <= Len(filter[y[1]].comps)}
        matched == {y[1] : y \in there \ active}
    IN [active |-> active,
        matched |-> matched,
        decision |-> IF top \/ matched = {} THEN "none"
                     ELSE IF filter[Max(matched)].negated THEN "no" ELSE "yes",
        mayMatchBelow |-> \E y \in active : ~filter[y[1]].negated]

\* PathFilter::start.
Start(filter) == At(filter, {<<p, 1>> : p \in DOMAIN filter}, TRUE)

\* PathFilter::descend: `**' takes the name and stays.
Descend(filter, state, name) ==
    At(filter,
       {x \in state.active : filter[x[1]].comps[x[2]] = AnyDepth}
         \cup {<<x[1], x[2] + 1>> : x \in
                 {y \in state.active : LET p == filter[y[1]] comp == p.comps[y[2]]
                                       IN comp # AnyDepth /\ FitsName(comp, name, p.fold)}},
       FALSE)

-----------------------------------------------------------------------------
(* What the patterns mean: a pattern matches a path when its components,   *)
(* and the tokens of each, can be laid out over it.  cut[k] is where the   *)
(* k-th of them ends.                                                      *)

Cuts(parts, whole) ==
    LET n == Len(parts)
        cut(inner) == [k \in 0 .. n |-> IF k = 0 THEN 0 ELSE IF k = n THEN Len(whole) ELSE inner[k]]
    IN {c \in {cut(inner) : inner \in [1 .. n - 1 -> 0 .. Len(whole)]} :
           c[n] = Len(whole) /\ \A k \in 1 .. n : c[k - 1] <= c[k]}

MeansName(tokens, name, fold) ==
    \E cut \in Cuts(tokens, name) : \A k \in DOMAIN tokens :
        tokens[k] # Star => cut[k] = cut[k - 1] + 1 /\ Fits(tokens[k], name[cut[k]], fold)

MeansPath(pattern, path) ==
    \E cut \in Cuts(pattern.comps, path) : \A k \in DOMAIN pattern.comps :
        LET comp == pattern.comps[k]
        IN comp # AnyDepth =>
              cut[k] = cut[k - 1] + 1 /\ MeansName(comp.tokens, path[cut[k]], pattern.fold)

\* The patterns that match a node, and what the last of them says.
Matching(filter, path) == {p \in DOMAIN filter : MeansPath(filter[p], path)}

Decision(filter, path) ==
    LET ps == Matching(filter, path)
    IN IF ps = {} THEN "none" ELSE IF filter[Max(ps)].negated THEN "no" ELSE "yes"
=============================================================================
