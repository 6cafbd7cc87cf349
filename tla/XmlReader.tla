---------------------------- MODULE XmlReader ----------------------------
(***************************************************************************)
(* libnano2's ATTagParser, an XMLParser over expat that drives an          *)
(* ATTagBuilder, at the other end of an XMLWriter's connection: it reads   *)
(* fragments until the end (parseStream), or is given the whole            *)
(* (parseString).  A read may fail, and the program then calls again.      *)
(***************************************************************************)
EXTENDS XmlWriter

CONSTANTS MaxFails,   \* bound on reads that fail, while a document is not of full size
          None,       \* no tag
          Garbage     \* what popping an empty stack gives

VARIABLES parser,     \* expat: [where, open, tag]
          stack, presult, depth, \* the builder and the parser's depth
          phase,      \* "idle", "reading" or "done"
          result, fails

readerVars == <<parser, stack, presult, depth, phase, result, fails>>
vars == <<writerVars, readerVars>>

Fresh == [where |-> "start", open |-> <<>>, tag |-> None,
          stack |-> <<>>, presult |-> None, depth |-> 0]

(***************************************************************************)
(* The handlers.  s is the state of the parser and of the builder.         *)
(***************************************************************************)
StartElementHandler(s, tag) ==
  [s EXCEPT !.depth = @ + 1,
            !.stack = Append(@, Tag(tag.name, tag.attrs, (s.depth + 1) % 65536))]

CharacterDataHandler(s, c) ==
  [s EXCEPT !.stack = IF @ = <<>> THEN @ ELSE Append(Front(@), InsertNode(Last(@), Char(c)))]

EndElementHandler(s) ==
  LET rest == Front(s.stack)
  IN  CASE s.stack = <<>>      -> [s EXCEPT !.presult = Garbage, !.depth = @ - 1]
        [] Len(s.stack) = 1    -> [s EXCEPT !.presult = s.stack[1], !.stack = <<>>,
                                            !.depth = @ - 1]
        [] OTHER -> [s EXCEPT !.depth = @ - 1,
                              !.stack = Append(Front(rest),
                                               InsertNode(Last(rest), Last(s.stack)))]

(***************************************************************************)
(* expat: one piece of XML, and the handler that it calls.                 *)
(***************************************************************************)
Error(s) == [s EXCEPT !.where = "error"]

Enter(s) == [StartElementHandler(s, s.tag) EXCEPT
               !.where = "content", !.open = Append(@, s.tag.name), !.tag = None]

Leave(s) == [EndElementHandler(s) EXCEPT
               !.open = Front(@), !.where = IF Len(s.open) = 1 THEN "epilog" ELSE "content"]

IsRaw(v) == v.kind = "char" /\ v.data \in Special

\* XML, as expat takes it: what may come in each place.
Allowed(s, piece) ==
  CASE piece.kind = "declaration" -> s.where = "start"
    [] piece.kind = "begin"       -> s.tag = None /\ s.where # "epilog"
    [] piece.kind = "attr"        -> s.tag # None /\ ~IsRaw(piece.value)
    [] piece.kind \in {"gt", "slashgt"}  -> s.tag # None
    [] piece.kind = "end"         -> s.tag = None /\ s.open # <<>> /\ Last(s.open) = piece.name
    [] OTHER -> s.tag = None /\ s.where = "content" /\ ~IsRaw(piece)

Take(s, piece) ==
  CASE s.where = "error" \/ ~Allowed(s, piece) -> Error(s)
    [] piece.kind = "declaration" -> [s EXCEPT !.where = "prolog"]
    [] piece.kind = "begin"       -> [s EXCEPT !.tag = [name |-> piece.name, attrs |-> NoAttrs]]
    [] piece.kind = "attr"        -> [s EXCEPT !.tag.attrs = WithAttribute(@, piece.name, piece.value.data)]
    [] piece.kind = "gt"          -> Enter(s)
    [] piece.kind = "slashgt"     -> Leave(Enter(s))
    [] piece.kind = "end"         -> Leave(s)
    [] OTHER                      -> CharacterDataHandler(s, piece.data)

ParseXML(s, pieces) == FoldLeft(Take, s, pieces)

(***************************************************************************)
(* ATTagParser.                                                            *)
(***************************************************************************)
Now == parser @@ [stack |-> stack, presult |-> presult, depth |-> depth]

Becomes(s) ==
  /\ parser' = [where |-> s.where, open |-> s.open, tag |-> s.tag]
  /\ stack' = s.stack /\ presult' = s.presult /\ depth' = s.depth

\* A bug, though the comment on ATTagBuilder::reset() asks for it.
ResetAlways(s) == [s EXCEPT !.stack = <<>>, !.presult = None]

\* Nothing, unless a tag is complete.
Reset(s) == IF s.presult = None THEN s ELSE [s EXCEPT !.stack = <<>>, !.presult = None]

ReaderInit ==
  /\ parser = [where |-> "start", open |-> <<>>, tag |-> None]
  /\ stack = <<>> /\ presult = None /\ depth = 0
  /\ phase = "idle" /\ result = None /\ fails = 0

\* Reads take from the front of the wire what they like, so that reading before
\* the program has gone would give no fragments that reading afterwards does not.
ParseStream ==
  /\ phase = "idle" /\ closed /\ phase' = "reading" /\ depth' = 0
  /\ UNCHANGED <<writerVars, parser, stack, presult, result, fails>>

ReadSome(k) ==
  /\ phase = "reading" /\ wire # <<>>
  /\ LET s == ParseXML(Now, SubSeq(wire, 1, k))
     IN  IF s.where = "error" THEN Becomes(Reset(s)) /\ phase' = "done"
         ELSE Becomes(s) /\ UNCHANGED phase
  /\ wire' = SubSeq(wire, k + 1, Len(wire))
  /\ UNCHANGED <<opened, attributes, outbuf, closed, meant, names, work, result, fails>>

ReadFails ==
  /\ phase = "reading" /\ fails < MaxFails /\ work > 0 /\ fails' = fails + 1
  /\ Becomes(Reset(Now)) /\ phase' = "idle"
  /\ UNCHANGED <<writerVars, result>>

ReadEnd ==
  /\ phase = "reading" /\ wire = <<>> /\ phase' = "done"
  /\ result' = presult /\ presult' = None
  /\ UNCHANGED <<writerVars, parser, stack, depth, fails>>

\* The whole at once, and nothing to follow: a document that ends early is an error.
ParseString ==
  /\ phase = "idle" /\ closed /\ parser.where = "start" /\ phase' = "done"
  /\ LET s  == ParseXML([Now EXCEPT !.depth = 0], wire)
         ok == s.where = "epilog"
     IN  /\ Becomes(IF ok THEN [s EXCEPT !.presult = None] ELSE s)
         /\ result' = IF ok THEN s.presult ELSE None
  /\ wire' = <<>>
  /\ UNCHANGED <<opened, attributes, outbuf, closed, meant, names, work, fails>>

\* A fragment is one piece or all of the rest: fragments of one piece make the others.
ReadStep == (\E k \in {1, Len(wire)} : ReadSome(k)) \/ ReadFails \/ ReadEnd

Init == WriterInit /\ ReaderInit

Next ==
  \/ Program /\ UNCHANGED readerVars
  \/ ParseStream
  \/ ReadStep
  \/ ParseString

\* The program calls the parser until it is done; read() gives bytes or the end at last.
Spec == Init /\ [][Next]_vars /\ WF_vars(ParseStream) /\ WF_vars(ReadStep)

(***************************************************************************)
(* Properties.                                                             *)
(***************************************************************************)
Whole == names = <<>> /\ Said # <<>> /\ outbuf = <<>>
OneTag == \A i \in DOMAIN Said : Said[i].kind = "start" /\ Said[i].depth = 1 => i = 1

TypeOK ==
  /\ opened \in BOOLEAN /\ closed \in BOOLEAN /\ DOMAIN attributes \subseteq AttrNames
  /\ Len(outbuf) < BufLen /\ work \in 0..MaxWork /\ fails \in 0..MaxFails
  /\ phase \in {"idle", "reading", "done"} /\ Len(names) <= MaxWork

\* What the parser returns is the first tag that the program meant, each tag,
\* attribute and character of it, in whatever fragments it came and however
\* often a read failed; depths are right if none did.
\* (xmlwriter.cpp, xmlparser.cpp, tagbuilder.cpp, attagparser.cpp)
ReadsWhatWasMeant ==
  /\ TypeOK
  /\ result # None =>
       /\ result # Garbage
       /\ LET story == Story(result)
              said  == SubSeq(Said, 1, Len(story))
          IN  IF fails = 0 THEN story = said ELSE WithoutDepth(story) = WithoutDepth(said)

\* A copy of a tag, which clone() makes by writing and parsing it, is that tag.
\* (xml_tag.cpp, toString() against the parser)
CloneIsTheTag(tag) ==
  LET s == ParseXML(Fresh, AsString(tag))
  IN  s.where = "epilog" /\ (fails = 0 => s.presult = tag)
                         /\ WithoutDepth(Story(s.presult)) = WithoutDepth(Story(tag))

\* find() and then findNext() until nothing is found give every tag at the end
\* of a path, once each, in the order of the document. (xml_tag.cpp, find and
\* findNext; taghelper.cpp goes through tags in this way)
FindsEveryMatch(tag) ==
  \A path \in UNION {[1..n -> Names] : n \in 1..2} :
    LET found == Found(tag, path)
    IN  /\ {found[i] : i \in DOMAIN found} = Matches(tag, path)
        /\ \A i \in 1..(Len(found) - 1) : Before(found[i], found[i + 1])

\* A path that TagHelper's operator [] has been given leads to what it gave:
\* find() finds that tag first, no other tag has come to the end of the path, a
\* tag that find() would have found is used and not made again unless it lies
\* behind another of its parent's name, and a text assigned is the text there.
\* (taghelper.cpp:33-59, taghelper.h:94-97, xml_tag.cpp, find)
HelperReaches(tag) ==
  \A path \in UNION {[1..n -> Names] : n \in 1..2}, c \in Chars :
    LET h == Helper(tag, path)
        found == Find(tag, <<>>, path)
        assigned == Assigned(h.tag, h.at, c)
    IN  /\ Find(h.tag, <<>>, path) = h.at
        /\ Matches(h.tag, path) = Matches(tag, path) \cup {h.at}
        /\ found # Nowhere /\ Front(found) = Front(h.at) => h.tag = tag
        /\ Matches(assigned, path) = Matches(h.tag, path)
        /\ CharactersOf(At(assigned, Find(assigned, <<>>, path))) = <<Char(c)>>

\* All of them, for whatever tag the parser returns.
TagsFaithful ==
  result \notin {None, Garbage} =>
    CloneIsTheTag(result) /\ FindsEveryMatch(result) /\ HelperReaches(result)

\* A document that was written and flushed is at last returned, unless a read
\* failed behind its end (ATTagBuilder::reset() deletes a complete tag).
ArrivesAtLast ==
  (closed /\ Whole /\ OneTag) ~> (result # None \/ (fails > 0 /\ parser.where = "epilog"))
=============================================================================
