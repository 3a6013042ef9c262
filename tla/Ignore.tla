------------------------------- MODULE Ignore -------------------------------
(***************************************************************************)
(* .gytignore: the rules of the files are compiled line by line, and a     *)
(* path is ignored when the last rule that matches it says so.  Patterns   *)
(* and paths are sequences of symbols; a character class, which matches    *)
(* one byte like ?, and escapes are left out.  Against the recursive       *)
(* matcher stands a definition by components of the path.                  *)
(***************************************************************************)
EXTENDS Naturals, Sequences, SequencesExt

CONSTANTS
    Letter,         \* the bytes that stand for themselves
    IgnoreFiles,    \* sequences of lines: [anchor, raw], outer directories first
    PathsAsked      \* the paths that are looked up: [name, is_dir]

Symbol == Letter \cup {"/", "?", "*", "!", "#"}

ASSUME IgnoreAssumption ==
    /\ \A f \in IgnoreFiles : \A j \in 1 .. Len(f) :
            f[j].raw \in Seq(Symbol) /\ f[j].anchor \in Seq(Letter \cup {"/"})
    /\ \A p \in PathsAsked : p.name \in Seq(Letter \cup {"/"}) /\ p.is_dir \in BOOLEAN

VARIABLES
    unread,     \* the lines still to be read
    rules,      \* the rules of the set
    failed      \* a line was refused, and the command with it

ignoreVars == <<unread, rules, failed>>

Has(s, from, sym) == from <= Len(s) /\ s[from] = sym

(***************************************************************************)
(* From a line to a rule                                                   *)
(***************************************************************************)

Tok(t) == [tok |-> t]
Lit(c) == [tok |-> "Lit", byte |-> c]

\* The tokens of the pattern from position i on, after those in acc.  Two
\* stars between slashes or ends take the separator before them with them.
RECURSIVE compile_tokens(_, _, _)
compile_tokens(pat, i, acc) ==
    LET stars == Has(pat, i, "*") /\ Has(pat, i + 1, "*")
        component == stars /\ (i = 1 \/ pat[i - 1] = "/") /\ (i + 2 > Len(pat) \/ pat[i + 2] = "/")
        leading == i = 1
        trailing == i + 2 > Len(pat)
    IN  IF i > Len(pat) THEN acc
        ELSE IF component
             THEN IF leading THEN compile_tokens(pat, i + 3, Append(acc, Tok("DStarSlash")))
                  ELSE IF trailing THEN Append(Front(acc), Tok("SlashDStar"))
                  ELSE compile_tokens(pat, i + 3, Append(Front(acc), Tok("SlashDStarSlash")))
        ELSE IF stars THEN compile_tokens(pat, i + 2, Append(acc, Tok("Star")))
        ELSE LET tok == CASE pat[i] = "/" -> Tok("Sep")
                          [] pat[i] = "?" -> Tok("Any")
                          [] pat[i] = "*" -> Tok("Star")
                          [] OTHER -> Lit(pat[i])
             IN  compile_tokens(pat, i + 1, Append(acc, tok))

\* A line without its "!", its last "/" and its first "/".
parse_line(anchor, raw) ==
    LET negate == Has(raw, 1, "!")
        s1 == IF negate THEN Tail(raw) ELSE raw
        dir_only == s1 # <<>> /\ Last(s1) = "/"
        s2 == IF dir_only THEN Front(s1) ELSE s1
        rooted == Has(s2, 1, "/")
        s3 == IF rooted THEN Tail(s2) ELSE s2
    IN  [negate |-> negate, dir_only |-> dir_only, anchored |-> rooted \/ Contains(s3, "/"),
         anchor |-> anchor, pattern |-> s3, tokens |-> compile_tokens(s3, 1, <<>>)]

IgnoreInit ==
    /\ unread \in IgnoreFiles
    /\ rules = <<>>
    /\ failed = FALSE

\* Comments and blank lines give no rule, an empty pattern is an error.
AddLine ==
    /\ unread # <<>> /\ ~failed
    /\ LET line == Head(unread)
           rule == parse_line(line.anchor, line.raw)
           none == line.raw = <<>> \/ Has(line.raw, 1, "#")
       IN  /\ failed' = (~none /\ rule.pattern = <<>>)
           /\ rules' = IF none \/ rule.pattern = <<>> THEN rules ELSE Append(rules, rule)
    /\ unread' = Tail(unread)

IgnoreNext == AddLine
IgnoreSpec == IgnoreInit /\ [][IgnoreNext]_ignoreVars

(***************************************************************************)
(* From a path to a decision                                               *)
(***************************************************************************)

\* Mutant: a star runs on over the end of a component.
StarStops_Never(path, k) == k > Len(path)

\* A star takes no more bytes at k.
StarStops(path, k) == k > Len(path) \/ path[k] = "/"

RECURSIVE match_at(_, _, _, _)
match_at(tokens, ti, path, pi) ==
    LET inside == pi <= Len(path)
        kind == tokens[ti].tok
        here == /\ inside
                /\ CASE kind = "Lit" -> path[pi] = tokens[ti].byte
                     [] kind = "Any" -> path[pi] # "/"
                     [] kind = "Sep" -> path[pi] = "/"
        after(k) == match_at(tokens, ti + 1, path, k)
    IN  IF ti > Len(tokens) THEN pi = Len(path) + 1
        ELSE CASE kind \in {"Lit", "Any", "Sep"} -> here /\ after(pi + 1)
               [] kind = "Star" ->
                    \E k \in pi .. Len(path) + 1 :
                        after(k) /\ \A q \in pi .. k - 1 : ~StarStops(path, q)
               [] kind = "DStarSlash" ->
                    after(pi) \/ \E q \in pi .. Len(path) : path[q] = "/" /\ after(q + 1)
               [] kind = "SlashDStar" ->
                    IF ~inside THEN after(pi)
                    ELSE path[pi] = "/" /\ pi < Len(path) /\ after(Len(path) + 1)
               [] kind = "SlashDStarSlash" ->
                    \E q \in pi .. Len(path) : path[q] = "/" /\ after(q + 1)

match_tokens(tokens, path) == match_at(tokens, 1, path, 1)

\* The rule is about what is below the directory of its file; a loose pattern
\* may match at any depth.
rule_matches(rule, path, is_dir) ==
    LET n == Len(rule.anchor)
        below == n = 0 \/ (IsPrefix(rule.anchor, path) /\ Has(path, n + 1, "/"))
        rel == IF n = 0 THEN path ELSE SubSeq(path, n + 2, Len(path))
    IN  /\ rule.dir_only => is_dir
        /\ below
        /\ \/ match_tokens(rule.tokens, rel)
           \/ ~rule.anchored /\ \E q \in 1 .. Len(rel) :
                    rel[q] = "/" /\ match_tokens(rule.tokens, SubSeq(rel, q + 1, Len(rel)))

\* The last rule that matches decides.
matched(path, is_dir) ==
    \E j \in 1 .. Len(rules) :
        /\ rule_matches(rules[j], path, is_dir) /\ ~rules[j].negate
        /\ \A q \in j + 1 .. Len(rules) : ~rule_matches(rules[q], path, is_dir)

(***************************************************************************)
(* Properties                                                              *)
(***************************************************************************)

\* The components of a path or of a pattern.
RECURSIVE Components(_)
Components(s) ==
    IF ~Contains(s, "/") THEN <<s>>
    ELSE LET q == CHOOSE k \in 1 .. Len(s) : s[k] = "/" /\ \A j \in 1 .. k - 1 : s[j] # "/"
         IN  <<SubSeq(s, 1, q - 1)>> \o Components(SubSeq(s, q + 1, Len(s)))

\* One component against one component of a pattern.
RECURSIVE Glob(_, _)
Glob(pat, name) ==
    IF pat = <<>> THEN name = <<>>
    ELSE IF Head(pat) = "*" THEN \E k \in 0 .. Len(name) : Glob(Tail(pat), SubSeq(name, k + 1, Len(name)))
    ELSE /\ name # <<>>
         /\ Head(pat) = "?" \/ Head(pat) = Head(name)
         /\ Glob(Tail(pat), Tail(name))

\* A sequence of components against those of a pattern, in which "**" stands
\* for any number of them.
RECURSIVE GlobPath(_, _)
GlobPath(pats, names) ==
    IF pats = <<>> THEN names = <<>>
    ELSE IF Head(pats) = <<"*", "*">>
         THEN \E k \in 0 .. Len(names) : GlobPath(Tail(pats), SubSeq(names, k + 1, Len(names)))
    ELSE names # <<>> /\ Glob(Head(pats), Head(names)) /\ GlobPath(Tail(pats), Tail(names))

\* The meaning of a rule: below its directory, a pattern with a slash matches
\* from there, one without a slash matches the last component.
Means(rule, path, is_dir) ==
    LET names == Components(path)
        anchor == IF rule.anchor = <<>> THEN <<>> ELSE Components(rule.anchor)
        rel == SubSeq(names, Len(anchor) + 1, Len(names))
    IN  /\ rule.dir_only => is_dir
        /\ IsPrefix(anchor, names) /\ rel # <<>>
        /\ IF rule.anchored THEN GlobPath(Components(rule.pattern), rel)
           ELSE Glob(rule.pattern, Last(rel))

\* The patterns whose two stars do not do what they mean: "**" alone matches
\* nothing, "a/**/b" matches "ab/b" too, and a "**" after another one takes
\* the first away.
Misread(rule) ==
    LET pats == Components(rule.pattern)
        Stars == {j \in 1 .. Len(pats) : pats[j] = <<"*", "*">>}
    IN  rule.pattern = <<"*", "*">> \/ \E j \in Stars : j > 1 /\ (j < Len(pats) \/ j - 1 \in Stars)

\* A path is ignored exactly when the last rule that means it, nested files
\* after outer ones, is not negated; the patterns of Misread are excepted.
IgnoreExact ==
    (unread = <<>> /\ ~failed /\ \A j \in 1 .. Len(rules) : ~Misread(rules[j])) =>
        \A p \in PathsAsked :
            matched(p.name, p.is_dir) <=>
                \E j \in 1 .. Len(rules) :
                    /\ Means(rules[j], p.name, p.is_dir) /\ ~rules[j].negate
                    /\ \A q \in j + 1 .. Len(rules) : ~Means(rules[q], p.name, p.is_dir)
=============================================================================
