----------------------------- MODULE MCPigro -----------------------------
(* Addresses on both sides of a page of the program, which is 16 words,    *)
(* and of one of the chip, which is 32.                                    *)
EXTENDS Pigro

MCAddr == {0, 1, 31, 32, 64}
D(addr, data) == [kind |-> "data", addr |-> addr, data |-> data]
Other(kind)   == [kind |-> kind, addr |-> 0, data |-> <<>>]

MCFiles == {
  <<D(0, <<7, 255>>), D(31, <<9, 3>>), Other("end")>>,  \* a record that crosses pages
  <<D(64, <<3>>), D(0, <<0>>)>>,                        \* pages out of order, no end
  <<D(0, <<7>>), Other("other"), Other("wrong"), D(32, <<3>>)>>,
  <<D(0, <<3>>), D(0, <<7>>)>> }                        \* an address twice

Filled(hex) == [a \in MCAddr |->
  IF \E r \in DOMAIN hex : a - hex[r].addr \in 0..Len(hex[r].data) - 1
  THEN LET r == CHOOSE q \in DOMAIN hex : a - hex[q].addr \in 0..Len(hex[q].data) - 1
       IN hex[r].data[a - hex[r].addr + 1]
  ELSE 255]

MCFlashes == {Filled(f) : f \in MCFiles} \cup {[a \in MCAddr |-> IF a = 64 THEN 3 ELSE 255]}
=============================================================================
