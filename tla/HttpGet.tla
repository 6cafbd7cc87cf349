------------------------------- MODULE HttpGet -------------------------------
(***************************************************************************)
(* The HTTP client of libnano (nanosoft::http and the program miniget) and *)
(* what it is built from: url_parse(), the list of options that keeps the  *)
(* headers, and base64.                                                    *)
(***************************************************************************)
LOCAL INSTANCE Integers
LOCAL INSTANCE Sequences

CONSTANTS
  BufSize,      \* http::bufsize; the unit is a line, the blank line is one
  Pages,        \* responses: header lines, a blank line, a body
  ReadSizes,    \* bound: sizes given to read()
  MaxOpens,     \* bound: calls of open() of one object
  Keys, Values, \* what options are written
  Urls,         \* [scheme, user, pass, host, port, path, query, fragment]
  Texts         \* bytes to encode

VARIABLES
  client,       \* who speaks: an object of class http, or miniget
  page,         \* the response of this connection, and what is left of it
  http,         \* [state, buf, length, offset, opens]
  got,          \* history: what read() gave, or what miniget wrote
  spoilt        \* history: a recv() failed, or an old blank line was found

http_vars == <<client, page, http, got, spoilt>>

Blank == "blank"        \* the end of the headers, and any blank line
Zero == "0"             \* a line's end replaced by 0
Unset == "unset"        \* memory that was never written

HttpInit ==
  /\ client \in {"http", "miniget"}
  /\ page = [all |-> <<>>, left |-> <<>>]
  /\ http = [state |-> "closed", buf |-> [i \in 1..BufSize |-> Unset],
             length |-> 0, offset |-> 0, opens |-> 0]
  /\ got = <<>> /\ spoilt = FALSE

-----------------------------------------------------------------------------
(* The buffer after n lines were received into it. *)
Received(buf, left, n) == [i \in 1..BufSize |-> IF i <= n THEN left[i] ELSE buf[i]]

Smaller(a, b) == IF a < b THEN a ELSE b

(* strstr(buf, "\r\n\r\n") goes on to the first 0, whatever length is, and *)
(* past what was received.                                                 *)
HeadersEnd(buf, length) ==
  {i \in 1..BufSize : buf[i] = Blank /\ \A j \in 1..i - 1 : buf[j] \notin {Blank, Zero}}

(* Mutant of OpenBuffer: the body is taken to begin one line later. *)
OpenBufferLate(buf, length, at) ==
  [http EXCEPT !.state = "open", !.opens = @ + 1, !.length = length, !.offset = at + 1,
     !.buf = [i \in 1..BufSize |-> IF i <= at \/ i = length + 1 THEN Zero ELSE buf[i]]]

(* What open() leaves of the buffer when it found the blank line: it ends  *)
(* the data and each line of the headers with 0.                           *)
OpenBuffer(buf, length, at) ==
  [http EXCEPT !.state = "open", !.opens = @ + 1, !.length = length, !.offset = at,
     !.buf = [i \in 1..BufSize |-> IF i <= at \/ i = length + 1 THEN Zero ELSE buf[i]]]

OpenFails(buf, length) ==
  [http EXCEPT !.state = "closed", !.opens = @ + 1, !.length = length, !.offset = 0,
     !.buf = IF length > 0 THEN [buf EXCEPT ![length + 1] = Zero] ELSE buf]

(* connect() closes what is open; there may be no address, no socket or no *)
(* answer.                                                                 *)
ConnectFails ==
  /\ http' = [http EXCEPT !.state = "closed", !.opens = @ + 1]
  /\ page' = [all |-> <<>>, left |-> <<>>]
  /\ spoilt' = FALSE

(* open(): one recv() must bring all headers.  When it does not, a blank   *)
(* line of an earlier answer may be found behind it.                       *)
HttpOpen(p) ==
  /\ client = "http" /\ http.state # "crashed" /\ http.opens < MaxOpens
  /\ got' = <<>>
  /\ \/ \E n \in 1..Smaller(BufSize - 1, Len(p)) :
          LET buf == Received(http.buf, p, n)
          IN /\ page' = [all |-> p, left |-> SubSeq(p, n + 1, Len(p))]
             /\ IF HeadersEnd(buf, n) = {} THEN http' = OpenFails(buf, n) /\ spoilt' = FALSE
                ELSE \E at \in HeadersEnd(buf, n) :
                       http' = OpenBuffer(buf, n, at) /\ spoilt' = (at > n)
     \/ page' = [all |-> p, left |-> <<>>] /\ http' = OpenFails(http.buf, 0) /\ spoilt' = FALSE
     \/ ConnectFails
  /\ UNCHANGED client

(* read(): first from the buffer; the rest by one recv(), through the      *)
(* buffer unless it is too large for it.  A recv() that fails is copied as *)
(* a length of -1, or takes one from the count.                            *)
HttpRead(size) ==
  LET held == IF http.length > http.offset THEN Smaller(http.length - http.offset, size) ELSE 0
      first == SubSeq(http.buf, http.offset + 1, http.offset + held)
      more == size - held
      Direct(n) == /\ got' = got \o first \o SubSeq(page.left, 1, n)
                   /\ http' = [http EXCEPT !.offset = @ + held]
      Buffered(n) == /\ got' = got \o first \o SubSeq(page.left, 1, Smaller(more, n))
                     /\ http' = [http EXCEPT !.buf = Received(@, page.left, n), !.length = n,
                                             !.offset = Smaller(more, n)]
  IN /\ client = "http" /\ http.state = "open"
     /\ \/ /\ more = 0
           /\ got' = got \o first /\ http' = [http EXCEPT !.offset = @ + held]
           /\ UNCHANGED <<page, spoilt>>
        \/ /\ more > 0
           /\ \E n \in 0..Smaller(Len(page.left), IF more >= BufSize THEN more ELSE BufSize) :
                /\ n = 0 => page.left = <<>>
                /\ IF more >= BufSize THEN Direct(n) ELSE Buffered(n)
                /\ page' = [page EXCEPT !.left = SubSeq(@, n + 1, Len(@))]
           /\ UNCHANGED spoilt
        \/ /\ more > 0 /\ spoilt' = TRUE
           /\ IF more >= BufSize
              THEN /\ got' = got \o SubSeq(first, 1, held - 1)
                   /\ http' = [http EXCEPT !.offset = @ + held]
              ELSE http' = [http EXCEPT !.state = "crashed"] /\ UNCHANGED got
           /\ page' = [page EXCEPT !.left = <<>>]
     /\ UNCHANGED client

-----------------------------------------------------------------------------
(* miniget: main(). *)

(* Mutant of MiniOpen: what came with the headers is not written. *)
MiniOpenEmpty(p, n) ==
  \E at \in {i \in 1..n : p[i] = Blank /\ \A j \in 1..i - 1 : p[j] # Blank} :
    /\ http' = [http EXCEPT !.state = "open", !.opens = @ + 1]
    /\ got' = <<>>

MiniOpen(p, n) ==
  \E at \in {i \in 1..n : p[i] = Blank /\ \A j \in 1..i - 1 : p[j] # Blank} :
    /\ http' = [http EXCEPT !.state = "open", !.opens = @ + 1]
    /\ got' = SubSeq(p, at + 1, n)

(* The first recv() must bring all headers, or the program ends. *)
MiniGet(p) ==
  /\ client = "miniget" /\ http.opens = 0
  /\ \/ \E n \in 1..Smaller(BufSize - 1, Len(p)) :
          /\ page' = [all |-> p, left |-> SubSeq(p, n + 1, Len(p))]
          /\ \/ MiniOpen(p, n)
             \/ /\ \A i \in 1..n : p[i] # Blank
                /\ http' = [http EXCEPT !.opens = @ + 1] /\ UNCHANGED got
          /\ UNCHANGED spoilt
     \/ ConnectFails /\ UNCHANGED got
  /\ UNCHANGED client

(* The loop: it ends when read() gives nothing or fails. *)
MiniCopy ==
  /\ client = "miniget" /\ http.state = "open"
  /\ \/ \E n \in 1..Smaller(BufSize, Len(page.left)) :
          /\ got' = got \o SubSeq(page.left, 1, n)
          /\ page' = [page EXCEPT !.left = SubSeq(@, n + 1, Len(@))]
          /\ UNCHANGED <<http, spoilt>>
     \/ /\ http' = [http EXCEPT !.state = "closed"]
        /\ page' = [page EXCEPT !.left = <<>>]
        /\ spoilt' = (page.left # <<>>)
        /\ UNCHANGED got
  /\ UNCHANGED client

HttpNext ==
  \/ \E p \in Pages : HttpOpen(p) \/ MiniGet(p)
  \/ \E size \in ReadSizes : HttpRead(size)
  \/ MiniCopy

-----------------------------------------------------------------------------
(* options: an array of keys and values. *)

VARIABLES options, written   \* items; history: what each key has

options_vars == <<options, written>>

OptionsInit == options = <<>> /\ written = [k \in {} |-> 0]

(* read(): the first item with the key. *)
OptionRead(items, key) ==
  LET with == {i \in DOMAIN items : items[i].key = key}
  IN IF with = {} THEN "default" ELSE items[CHOOSE i \in with : \A j \in with : i <= j].value

OptionWrite(key, value) ==
  /\ options' = IF \E i \in DOMAIN options : options[i].key = key
                THEN [i \in DOMAIN options |-> IF options[i].key = key
                        THEN [options[i] EXCEPT !.value = value] ELSE options[i]]
                ELSE Append(options, [key |-> key, value |-> value])
  /\ written' = [k \in DOMAIN written \union {key} |-> IF k = key THEN value ELSE written[k]]

(* Mutant of OptionRemove: the last item is moved when it is the one. *)
OptionRemoveLast(key) ==
  /\ options' = IF \E i \in DOMAIN options : options[i].key = key
                THEN SubSeq(options, 1, Len(options) - 1) ELSE options
  /\ written' = [k \in DOMAIN written \ {key} |-> written[k]]

(* remove(): the last item takes the place of the one removed. *)
OptionRemove(key) ==
  /\ options' = IF \E i \in DOMAIN options : options[i].key = key
                THEN [i \in 1..Len(options) - 1 |->
                        IF options[i].key = key THEN options[Len(options)] ELSE options[i]]
                ELSE options
  /\ written' = [k \in DOMAIN written \ {key} |-> written[k]]

OptionsClear == options' = <<>> /\ written' = [k \in {} |-> 0]

OptionsNext ==
  \/ \E key \in Keys : OptionRemove(key) \/ \E value \in Values : OptionWrite(key, value)
  \/ OptionsClear

-----------------------------------------------------------------------------
(* url_parse(): a URL is a sequence of characters. *)

Absent == <<"absent">>

Places(s, c) == {i \in DOMAIN s : s[i] = c}
FirstOf(set, otherwise) == IF set = {} THEN otherwise ELSE CHOOSE i \in set : \A j \in set : i <= j
From(s, i) == SubSeq(s, i, Len(s))

(* Mutant of PathOf: the query ends with the text. *)
PathOfQueryLast(u) ==
  LET hash == FirstOf(Places(u, "#"), Len(u) + 1)
      mark == FirstOf(Places(u, "?"), Len(u) + 1)
      end == Smaller(hash, mark)
  IN [path |-> SubSeq(u, 1, end - 1),
      query |-> IF mark <= Len(u) THEN From(u, mark + 1) ELSE Absent,
      fragment |-> IF hash <= Len(u) THEN From(u, hash + 1) ELSE Absent]

(* The path, the query and the fragment. *)
PathOf(u) ==
  LET hash == FirstOf(Places(u, "#"), Len(u) + 1)
      mark == FirstOf(Places(SubSeq(u, 1, hash - 1), "?"), hash)
  IN [path |-> SubSeq(u, 1, mark - 1),
      query |-> IF mark < hash THEN SubSeq(u, mark + 1, hash - 1) ELSE Absent,
      fragment |-> IF hash <= Len(u) THEN From(u, hash + 1) ELSE Absent]

(* What is before and after the first colon that comes before end. *)
Split(u, end) ==
  LET colon == FirstOf(Places(SubSeq(u, 1, end - 1), ":"), end)
  IN <<SubSeq(u, 1, colon - 1), IF colon < end THEN SubSeq(u, colon + 1, end - 1) ELSE Absent>>

UrlParse(s) ==
  LET scheme == FirstOf({i \in Places(s, ":") : i + 2 <= Len(s) /\ s[i + 1] = "/" /\ s[i + 2] = "/"}, 0)
      u == From(s, scheme + 3)
      at == FirstOf(Places(u, "@"), 0)
      h == From(u, at + 1)
      slash == FirstOf(Places(h, "/"), 0)
      p == PathOf(From(h, slash))
  IN IF scheme = 0 \/ slash = 0 THEN <<>>
     ELSE [scheme |-> SubSeq(s, 1, scheme - 1),
           user |-> IF at = 0 THEN Absent ELSE Split(u, at)[1],
           pass |-> IF at = 0 THEN Absent ELSE Split(u, at)[2],
           host |-> Split(h, slash)[1], port |-> Split(h, slash)[2],
           path |-> p.path, query |-> p.query, fragment |-> p.fragment]

-----------------------------------------------------------------------------
(* base64_encode() and base64_decode(): digits are numbers. *)

Padding == 64

RECURSIVE Base64Encode(_)
Base64Encode(b) ==
  LET b1 == b[1]
      b2 == IF Len(b) > 1 THEN b[2] ELSE 0
      b3 == IF Len(b) > 2 THEN b[3] ELSE 0
      digits == <<b1 \div 4, (b1 % 4) * 16 + b2 \div 16, (b2 % 16) * 4 + b3 \div 64, b3 % 64>>
  IN IF b = <<>> THEN <<>>
     ELSE IF Len(b) < 3
          THEN [i \in 1..4 |-> IF i <= Len(b) + 1 THEN digits[i] ELSE Padding]
     ELSE digits \o Base64Encode(From(b, 4))

(* Mutant of Base64Decode: a part of four digits is dropped. *)
RECURSIVE Base64DecodeWhole(_)
Base64DecodeWhole(d) ==
  IF Len(d) < 4 \/ Padding \in {d[i] : i \in 1..4} THEN <<>>
  ELSE <<d[1] * 4 + d[2] \div 16, (d[2] % 16) * 16 + d[3] \div 4, (d[3] % 4) * 64 + d[4]>>
         \o Base64DecodeWhole(From(d, 5))

(* The digits end at the padding; the last i of them give i - 1 bytes.     *)
RECURSIVE Base64Decode(_)
Base64Decode(d) ==
  LET n == Smaller(4, FirstOf(Places(d, Padding), Len(d) + 1) - 1)
      Digit(i) == IF i <= n THEN d[i] ELSE 63
      bytes == <<Digit(1) * 4 + Digit(2) \div 16, (Digit(2) % 16) * 16 + Digit(3) \div 4,
                 (Digit(3) % 4) * 64 + Digit(4)>>
  IN IF n = 0 THEN <<>>
     ELSE SubSeq(bytes, 1, n - 1) \o IF n = 4 THEN Base64Decode(From(d, 5)) ELSE <<>>

-----------------------------------------------------------------------------
(* Properties *)

BodyOf(p) == LET blank == FirstOf(Places(p, Blank), Len(p)) IN From(p, blank + 1)

(* What read() gives, in pieces of any size, and what miniget writes, is   *)
(* the body from its first byte on, in order and without a hole, with the  *)
(* rest in the buffer or still to come: however the answer is cut, and     *)
(* whatever an earlier answer left in the buffer, unless recv() fails or   *)
(* the blank line that open() finds is an earlier answer's                 *)
(* (http.cpp:33-133, miniget.c:75-191).                                   *)
BodyExact ==
  http.state = "open" /\ ~spoilt =>
    LET held == IF client = "http" /\ http.length > http.offset
                THEN SubSeq(http.buf, http.offset + 1, http.length) ELSE <<>>
    IN got \o held \o page.left = BodyOf(page.all)

(* options are a map: a key has what was written last, and an item's       *)
(* removal loses no other (options.cpp:45-111).                            *)
OptionsAreMap ==
  \A k \in Keys : OptionRead(options, k) = IF k \in DOMAIN written THEN written[k] ELSE "default"

UrlText(u) ==
  LET Opt(before, part) == IF part = Absent THEN <<>> ELSE before \o part
  IN u.scheme \o <<":", "/", "/">>
     \o (IF u.user = Absent THEN <<>> ELSE u.user \o Opt(<<":">>, u.pass) \o <<"@">>)
     \o u.host \o Opt(<<":">>, u.port) \o u.path \o Opt(<<"?">>, u.query) \o Opt(<<"#">>, u.fragment)

(* url_parse() finds the parts a URL was made of, as long as an '@' in the *)
(* path or behind it comes after a user's (nanourl.c:7-113).               *)
UrlsParsed ==
  \A u \in Urls :
    u.user # Absent \/ "@" \notin {(u.path \o u.query \o u.fragment)[i] :
                                    i \in DOMAIN (u.path \o u.query \o u.fragment)}
    => UrlParse(UrlText(u)) = u

(* Texts of any length come back from base64 (base64.cpp:43-134). *)
TextsDecoded == \A t \in Texts : Base64Decode(Base64Encode(t)) = t

HttpSound == BodyExact /\ OptionsAreMap /\ UrlsParsed /\ TextsDecoded
=============================================================================
