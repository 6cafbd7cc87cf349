---------------------------- MODULE XmlWriter ----------------------------
(***************************************************************************)
(* libnano2's XMLWriter: a program opens tags, sets attributes, writes     *)
(* text and closes the innermost tag, and flushes now and then; whatever   *)
(* fills the buffer goes to onWriteXML(), and that is a connection here.   *)
(*                                                                         *)
(* meant is what the program means to say.  An attribute belongs to the    *)
(* tag that the program has opened last, as long as nothing follows it.    *)
(***************************************************************************)
EXTENDS XmlTag

CONSTANTS Names, AttrNames, Chars, \* what tags, attributes and text are made of
          BufLen,                  \* size of the writer's buffer, in pieces
          MaxWork                  \* bound on calls: a tag in a tag counts once, others twice

VARIABLES opened, attributes, outbuf, \* the writer
          wire, closed,               \* the connection
          meant, names, work          \* the program: its meaning, open tags, calls that are left

writerVars == <<opened, attributes, outbuf, wire, closed, meant, names, work>>

NoAttrs == << >>

WriterInit ==
  /\ opened = FALSE /\ attributes = NoAttrs /\ outbuf = <<>>
  /\ wire = <<>> /\ closed = FALSE
  /\ meant = <<>> /\ names = <<>> /\ work = MaxWork

\* The whole buffers that the pieces fill go out.
Output(pieces) ==
  LET all  == outbuf \o pieces
      gone == Len(all) - (Len(all) % BufLen)
  IN  /\ wire' = wire \o SubSeq(all, 1, gone)
      /\ outbuf' = SubSeq(all, gone + 1, Len(all))

\* What ends a beginning tag: attributes go out with it and are forgotten.
CompliteTag == IF opened THEN Append(Attributes(attributes), Gt) ELSE <<>>

AttributesWritten == IF opened THEN NoAttrs ELSE attributes

Call(cost) == ~closed /\ work >= cost /\ work' = work - cost /\ UNCHANGED closed

InitXML ==
  /\ Call(2) /\ meant = <<>> /\ outbuf = <<>> /\ wire = <<>>
  /\ Output(<<Declaration>>)
  /\ UNCHANGED <<opened, attributes, meant, names>>

StartElement(n) ==
  /\ Call(IF names = <<>> THEN 2 ELSE 1)
  /\ Output(CompliteTag \o <<Begin(n)>>)
  /\ opened' = TRUE /\ attributes' = NoAttrs
  /\ names' = Append(names, n)
  /\ meant' = Append(meant, Started(n, NoAttrs, Len(names) + 1))

SetAttribute(n, c) ==
  /\ Call(2) /\ names # <<>>
  /\ attributes' = WithAttribute(attributes, n, c)
  /\ meant' = IF Last(meant).kind = "start"
                THEN [meant EXCEPT ![Len(meant)].attrs = WithAttribute(@, n, c)] ELSE meant
  /\ UNCHANGED <<opened, outbuf, wire, names>>

CharacterData(c) ==
  /\ Call(2) /\ names # <<>>
  /\ Output(Append(CompliteTag, Escape(c)))
  /\ opened' = FALSE /\ attributes' = AttributesWritten
  /\ meant' = Append(meant, Text(c))
  /\ UNCHANGED names

\* A bug: a tag that is still beginning is ended as if it were not.
EndElementOnly ==
  /\ Call(0) /\ names # <<>>
  /\ Output(<<End(Last(names))>>)
  /\ opened' = FALSE /\ attributes' = AttributesWritten
  /\ names' = Front(names)
  /\ meant' = Append(meant, Ended)

EndElement ==
  /\ Call(0) /\ names # <<>>
  /\ Output(IF opened THEN Append(Attributes(attributes), SlashGt) ELSE <<End(Last(names))>>)
  /\ opened' = FALSE /\ attributes' = AttributesWritten
  /\ names' = Front(names)
  /\ meant' = Append(meant, Ended)

Flushed == [kind |-> "flush"]

\* It does nothing when nothing waits.
Flush ==
  /\ outbuf # <<>> \/ opened
  /\ Call(IF names = <<>> THEN 0 ELSE 2)
  /\ wire' = wire \o outbuf \o CompliteTag /\ outbuf' = <<>>
  /\ opened' = FALSE /\ attributes' = AttributesWritten
  /\ meant' = Append(meant, Flushed)
  /\ UNCHANGED names

\* The program goes away, also in the middle of a tag.  It has flushed: what is
\* left in the buffer could not go out any more (~XMLWriter() is too late for it).
Close ==
  /\ ~closed /\ outbuf = <<>> /\ ~opened /\ closed' = TRUE
  /\ UNCHANGED <<opened, attributes, outbuf, wire, meant, names, work>>

Program ==
  \/ InitXML
  \/ \E n \in Names : StartElement(n)
  \/ \E n \in AttrNames, c \in Chars : SetAttribute(n, c)
  \/ \E c \in Chars : CharacterData(c)
  \/ EndElement
  \/ Flush
  \/ Close

Said == SelectSeq(meant, LAMBDA m : m # Flushed)
=============================================================================
