----------------------------- MODULE MCFormats -----------------------------
(* What one end writes the other reads, one at a time: XML, ffcairo's      *)
(* packets, SNMP, a page over HTTP; and a table of options.                *)
EXTENDS XmlReader, AvcStream, Snmp, HttpGet

VARIABLE subject

MCOids == {<<1, 3, 6, 0, 127>>, <<2, 39, 128, 16383>>,
           <<1, 0>> \o [i \in 1..62 |-> 300]}
MCIds == {<<104, 200, 0, 255>>}
MCOidValues == {<<0, 0, 1, 200>>, <<255, 255, 255, 255>>}
MCCommunities == {<<112, 117>>}

(* Pages as lines: headers, a blank line, a body. *)
MCPages ==
  {<<"h", "blank", "l1", "l2", "l3">>, <<"h", "h", "h", "blank", "l4", "l5">>,
   <<"h", "blank", "l6", "blank", "l7">>}

Optional(parts) == parts \union {Absent}
MCUrls ==
  [scheme : {<<"a">>}, user : Optional({<<"b">>}), pass : {Absent}, host : {<<"a", "b">>},
   port : Optional({<<"1">>}), path : {<<"/">>, <<"/", "a", "/", ":", "b">>, <<"/", "@">>},
   query : Optional({<<>>, <<"a", "?", "/">>}),
   fragment : Optional({<<"b", "?", "@">>, <<"#">>, <<>>})]
    \union
  [scheme : {<<>>}, user : {<<"b">>}, pass : {<<>>, <<"a", ":">>}, host : {<<"a">>},
   port : Optional({<<>>}), path : {<<"/", "@", "a">>}, query : {Absent},
   fragment : Optional({<<"b", ":", "@">>})]

MCTexts == UNION {[1..n -> {0, 1, 77, 255}] : n \in 0..4}

FormatsInit ==
  /\ subject \in {"xml", "packets", "snmp", "http", "options"}
  /\ Init /\ AvcInit /\ SnmpInit /\ HttpInit /\ OptionsInit
  /\ client = "miniget" => subject = "http"

Xml(Action) ==
  subject = "xml" /\ Action /\ UNCHANGED <<subject, avc_vars, snmp_vars, http_vars, options_vars>>

FormatsNext ==
  \/ Xml(Next)
  \/ subject = "packets" /\ AvcNext /\ UNCHANGED <<subject, vars, snmp_vars, http_vars, options_vars>>
  \/ subject = "snmp" /\ SnmpNext /\ UNCHANGED <<subject, vars, avc_vars, http_vars, options_vars>>
  \/ subject = "http" /\ HttpNext /\ UNCHANGED <<subject, vars, avc_vars, snmp_vars, options_vars>>
  \/ subject = "options" /\ OptionsNext /\ UNCHANGED <<subject, vars, avc_vars, snmp_vars, http_vars>>

formats_vars == <<subject, vars, avc_vars, snmp_vars, http_vars, options_vars>>

FormatsSpec ==
  /\ FormatsInit /\ [][FormatsNext]_formats_vars
  /\ WF_formats_vars(Xml(ParseStream)) /\ WF_formats_vars(Xml(ReadStep))

(* The reader of XML and the tags it makes. *)
TagsUnderstood == ReadsWhatWasMeant /\ TagsFaithful

(* The two binary formats: lengths and what they enclose, whatever TCP     *)
(* splits and a datagram cuts off.                                         *)
BytesUnderstood == PacketsWhole /\ SnmpUnderstood
=============================================================================
