-------------------------------- MODULE Paths --------------------------------
(***************************************************************************)
(* The path helpers of the kernel and the shell (kernel/fs/path.c).  A path *)
(* is a sequence of the characters "/" and "." and of letters.  The root is *)
(* written ".", and what begins with "/" or "./" is absolute.  Paths are    *)
(* short here: the limits on components and on the length of a result are   *)
(* not reached.                                                             *)
(***************************************************************************)
EXTENDS Integers, Sequences, SequencesExt

CONSTANTS
  Letter,          \* the characters of names
  MaxPathLength,   \* bound: characters of a path
  MaxDepth         \* bound: depth of the current directory

VARIABLES
  cwd,       \* the current directory
  path,      \* a path given
  answer     \* what the helpers make of the two

pathVars == <<cwd, path, answer>>

-----------------------------------------------------------------------------
Slash == <<"/">>
Dot == <<".">>
UpOne == <<".", ".">>

path_is_absolute(p) == p # <<>> /\ (p[1] = "/" \/ (p[1] = "." /\ (Len(p) = 1 \/ p[2] = "/")))

\* What stands between the slashes.
Split(p) ==
  LET Character(s, c) ==
        IF c = "/" THEN [done |-> Append(s.done, s.current), current |-> <<>>]
        ELSE [s EXCEPT !.current = Append(@, c)]
      end == FoldLeft(Character, [done |-> <<>>, current |-> <<>>], p)
  IN SelectSeq(Append(end.done, end.current), LAMBDA c : c # <<>>)

\* A component as it is met: "." is passed over, ".." takes the one before it away.
Taken(components, c, absolute) ==
  IF c = Dot THEN components
  ELSE IF c # UpOne THEN Append(components, c)
  ELSE IF components # <<>> /\ Last(components) # UpOne THEN Front(components)
  ELSE IF absolute THEN components ELSE Append(components, c)

Joined(components) ==
  FlattenSeq([i \in DOMAIN components |-> IF i = 1 THEN components[i] ELSE Slash \o components[i]])

normalize_components(p, absolute) ==
  LET Take(components, c) == Taken(components, c, absolute)
      components == FoldLeft(Take, <<>>, Split(p))
  IN IF absolute THEN Slash \o Joined(components)
     ELSE IF components = <<>> THEN Dot ELSE Joined(components)

\* An absolute path comes out as "." or with "./" in front.
Rooted(p) == IF p = Slash THEN Dot ELSE Dot \o p

path_normalize(p) ==
  IF p = <<>> THEN Dot
  ELSE IF ~path_is_absolute(p) THEN normalize_components(p, FALSE)
  ELSE Rooted(normalize_components(IF p[1] = "." /\ Len(p) > 1 THEN Slash \o SubSeq(p, 3, Len(p)) ELSE p, TRUE))

Built(dir, p) == dir \o (IF Last(dir) = "/" THEN <<>> ELSE Slash) \o p

path_resolve(dir, p) ==
  IF p = <<>> THEN path_normalize(dir)
  ELSE IF path_is_absolute(p) THEN path_normalize(p)
  ELSE path_normalize(Built(IF dir = <<>> THEN Slash ELSE dir, p))

\* The last slash of a normalized path, but for one in front; 0 if there is none.
LastSlash(p) ==
  LET slashes == {i \in DOMAIN p : p[i] = "/" /\ i > 1}
  IN IF slashes = {} THEN 0 ELSE CHOOSE i \in slashes : \A j \in slashes : j <= i

path_parent(p) ==
  LET n == path_normalize(p)
  IN IF LastSlash(n) = 0 THEN Dot ELSE SubSeq(n, 1, LastSlash(n) - 1)

path_basename(p) ==
  LET n == path_normalize(p) IN SubSeq(n, LastSlash(n) + 1, Len(n))

-----------------------------------------------------------------------------
NoAnswer == [resolved |-> <<>>]

\* Where a directory is: the names on the way from the root.  PathOf writes it down.
Places == UNION {[1..n -> {<<c>> : c \in Letter}] : n \in 0..MaxDepth}
PathOf(place) == IF place = <<>> THEN Dot ELSE Dot \o Slash \o Joined(place)

PathsInit ==
  /\ cwd \in {PathOf(place) : place \in Places}
  /\ path \in UNION {[1..n -> Letter \cup {"/", "."}] : n \in 0..MaxPathLength}
  /\ answer = NoAnswer

\* What a command does with the path it was given.
ResolvePath ==
  /\ answer = NoAnswer
  /\ answer' = [resolved |-> path_resolve(cwd, path),
                tidied |-> path_resolve(cwd, path_normalize(path)),
                parent |-> path_parent(path_resolve(cwd, path)),
                name |-> path_basename(path_resolve(cwd, path))]
  /\ UNCHANGED <<cwd, path>>

-----------------------------------------------------------------------------
\* Where a walk along the components leads, one at a time from a place.
Walked(place, c) ==
  CASE c = Dot -> place
    [] c = UpOne -> IF place = <<>> THEN <<>> ELSE Front(place)
    [] OTHER -> Append(place, c)
Destination == FoldLeft(Walked, IF path_is_absolute(path) THEN <<>> ELSE Split(Tail(cwd)), Split(path))

\* A path resolves to the one name of the place a walk along it leads to, never above
\* the root; parent and base name take that name apart so that resolving puts it
\* together again; normalizing first changes nothing, unless a relative path comes to
\* nothing, which is then the root's name (path_resolve, path_normalize, path_parent,
\* path_basename).
PathsLeadRight ==
  answer # NoAnswer =>
    /\ answer.resolved = PathOf(Destination)
    /\ path_resolve(answer.parent, answer.name) = answer.resolved
    /\ path_normalize(path) # Dot /\ path # <<>> => answer.tidied = answer.resolved
=============================================================================
