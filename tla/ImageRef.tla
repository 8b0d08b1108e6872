------------------------------ MODULE ImageRef ------------------------------
(***************************************************************************)
(* The image references that dockwatch takes apart, each place in its own  *)
(* way.  A reference is a sequence of words and separators, for instance   *)
(* <<"reg.io", ":", "5000", "/", "app", ":", "1.0.0", "@", "sha256", ":",    *)
(* "d1">>; a word has no separator in it, but may have dots.               *)
(***************************************************************************)
EXTENDS Integers, Sequences, FiniteSetsExt

CONSTANT Dotted     \* the words with a dot in them

ASSUME DottedAssumption == {"reg.io", "docker.io"} \subseteq Dotted /\ "team" \notin Dotted

\* strings.Index and strings.LastIndex, 0 for "not there".
FirstAt(r, c) == LET at == {i \in DOMAIN r : r[i] = c}
                 IN  IF at = {} THEN 0 ELSE Min(at)
LastAt(r, c) == Max({i \in DOMAIN r : r[i] = c} \cup {0})

Before(r, i) == SubSeq(r, 1, i - 1)
After(r, i) == SubSeq(r, i + 1, Len(r))

\* What every reader does first: the digest is cut off.
NoPin(r) == IF FirstAt(r, "@") = 0 THEN r ELSE Before(r, FirstAt(r, "@"))
PinOf(r) == IF FirstAt(r, "@") = 0 THEN <<>>
            ELSE SubSeq(r, FirstAt(r, "@"), Len(r))

\* executor.imageTag and history.parseImageTag: what follows the last colon,
\* a port and a path as well.
ImageTag(r) == LET s == NoPin(r)
               IN  IF LastAt(s, ":") = 0 THEN <<>> ELSE After(s, LastAt(s, ":"))

\* Variant with a bug: strings.Index for the colon.
ReplaceTagFirstColon(r, tag) ==
    LET s == NoPin(r)
        named == IF FirstAt(s, ":") = 0 THEN s \o <<":">>
                 ELSE SubSeq(s, 1, FirstAt(s, ":"))
    IN  named \o tag \o PinOf(r)

\* compose.replaceTag.
ReplaceTag(r, tag) ==
    LET s == NoPin(r)
        named == IF LastAt(s, ":") = 0 THEN s \o <<":">>
                 ELSE SubSeq(s, 1, LastAt(s, ":"))
    IN  named \o tag \o PinOf(r)

Hub == <<"registry-1.docker.io">>

\* registry.parseImageRef looks for the tag after the last slash only, takes
\* "latest" for none, and fills in Docker Hub.  (The variant has a bug: it
\* takes a port for a tag.)
HasTagAnyColon(s) == LastAt(s, ":") > 0
HasTag(s) == LastAt(s, ":") > LastAt(s, "/")
IsHost(words) == \/ \E i \in DOMAIN words : words[i] \in {":"} \cup Dotted
                 \/ words = <<"localhost">>

ParseImageRef(r) ==
    LET s == NoPin(r)
        path == IF HasTag(s) THEN Before(s, LastAt(s, ":")) ELSE s
        slash == FirstAt(path, "/")
        first == IF slash = 0 THEN path ELSE Before(path, slash)
        hosted == slash # 0 /\ IsHost(first)
        hub == ~hosted \/ first = <<"docker.io">>
        name == IF hosted THEN After(path, slash) ELSE path
    IN  [host |-> IF hub THEN Hub ELSE first,
         name |-> IF hub /\ FirstAt(name, "/") = 0
                  THEN <<"library", "/">> \o name ELSE name,
         tag |-> IF HasTag(s) THEN After(s, LastAt(s, ":")) ELSE <<"latest">>]

\* dockerclient.registryHost: as above, but "docker.io" stays what it is.
RegistryHost(r) ==
    LET s == NoPin(r)
        path == IF HasTag(s) THEN Before(s, LastAt(s, ":")) ELSE s
        slash == FirstAt(path, "/")
    IN  IF slash # 0 /\ IsHost(Before(path, slash)) THEN Before(path, slash)
        ELSE Hub

\* The name that webhook.containersForImage compares with the pushed one.
PushedName(r) == IF LastAt(r, ":") = 0 THEN r ELSE Before(r, LastAt(r, ":"))

-----------------------------------------------------------------------------
\* A reference as Docker reads it: a host, with a port or not, a path, a tag
\* of one word and a digest.  The daemon and compose refuse anything else.
Word(words) == Len(words) = 1 /\ words[1] \notin {":", "/", "@"}
Parses(r) ==
    LET s == NoPin(r)
        path == IF HasTag(s) THEN Before(s, LastAt(s, ":")) ELSE s
        slash == FirstAt(path, "/")
        host == IF slash = 0 THEN <<>> ELSE Before(path, slash)
    IN  /\ HasTag(s) => Word(After(s, LastAt(s, ":")))
        /\ PinOf(r) # <<>> => Len(PinOf(r)) = 4 /\ Word(SubSeq(PinOf(r), 4, 4))
        /\ path # <<>> /\ Word(<<path[Len(path)]>>)
        /\ LastAt(path, ":") # 0 => /\ LastAt(path, ":") = Len(host) - 1
                                   /\ FirstAt(path, ":") = LastAt(path, ":")

\* A reference written from its parts; an empty part is left out.
Whole(host, path, tag, pin) ==
    (IF host = <<>> THEN <<>> ELSE host \o <<"/">>) \o path
        \o (IF tag = <<>> THEN <<>> ELSE <<":">> \o tag)
        \o (IF pin = <<>> THEN <<>> ELSE <<"@", "sha256", ":">> \o pin)

Hosts == {<<>>, <<"localhost">>, <<"reg.io">>, <<"reg.io", ":", "5000">>, <<"docker.io">>}
Paths == {<<"app">>, <<"team", "/", "app">>}
TagParts == {<<>>, <<"1.0.0">>, <<"edge">>}
Pins == {<<>>, <<"d1">>}

=============================================================================
