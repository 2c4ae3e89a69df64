------------------------------- MODULE SouthXml -------------------------------
(***************************************************************************)
(* libsouth_interface/southxml.cpp: upload makes an XML document of each   *)
(* monitor of a device, writes it to libsouth.xml, where it replaces the   *)
(* one before, and hands it to a function of UploadStatus.dll.  A program  *)
(* that reads libsouth.xml (TinyXmlDocument) may do so at any time.        *)
(***************************************************************************)
EXTENDS TinyXmlDocument

CONSTANTS
  Devices         \* the sequences of monitors a device may have

VARIABLES
  pFun,           \* the function of the library has been found
  left,           \* the monitors upload has still to send
  sent            \* the monitor sent last and the text it was sent as, or Null

vars == <<docVars, pFun, left, sent>>

Attribute(n, v) == IF v = Null THEN <<>> ELSE <<[name |-> n, value |-> v]>>

\* toUtf8, which every text passes through, changes the bytes of a character and
\* not which characters there are.
target_make_xml(t) ==
  Element("param",
          Attribute("name", t.label)
            \o (IF t.unit = <<>> THEN <<>> ELSE Attribute("unit", t.unit))
            \o Attribute("type", t.type),
          IF t.value = Null THEN <<>> ELSE <<Leaf("text", t.value)>>)

monitor_make_xml(m) ==
  Element("command", Attribute("software", m.label) \o Attribute("device", m.device),
          [i \in DOMAIN m.targets |-> target_make_xml(m.targets[i])])

Header(f) == CASE f = "version" -> <<"1.0">> [] f = "encoding" -> <<"UTF-8">>
               [] f = "standalone" -> <<>>

monitor_document(m) ==
  <<Declaration(Header),
    Element("service", <<>>, <<Element("info", <<>>, <<monitor_make_xml(m)>>)>>)>>

Init ==
  /\ DocInit
  /\ pFun = FALSE /\ left = <<>> /\ sent = Null

(* upload finds the library and the function in it the first time; without  *)
(* them it returns and has changed nothing.                                 *)
upload(monitors) ==
  /\ left = <<>>
  /\ pFun' = TRUE
  /\ left' = monitors
  /\ UNCHANGED <<docVars, sent>>

(* monitor_to_string, whose file may not open, and the call of pFun, whose  *)
(* result only shows in a message.  Who has read the file before is gone.   *)
monitor_to_string ==
  LET d == monitor_document(Head(left)) IN
     /\ left # <<>>
     /\ \/ file' = DocumentPrint(d) /\ saved' = d
        \/ UNCHANGED <<file, saved>>
     /\ sent' = [monitor |-> Head(left), text |-> DocumentPrintS(d)]
     /\ left' = Tail(left)
     /\ doc' = <<>> /\ error' = None /\ loaded' = FALSE
     /\ UNCHANGED pFun

(* The process that uploads ends between two steps; its file stays. *)
Crash ==
  /\ pFun
  /\ pFun' = FALSE /\ left' = <<>> /\ sent' = Null
  /\ UNCHANGED docVars

Next ==
  \/ (Reread \/ (~pFun /\ Edit)) /\ UNCHANGED <<pFun, left, sent>>
  \/ doc = <<>> /\ error = None /\ \E ms \in Devices : upload(ms)
  \/ monitor_to_string
  \/ Crash

Spec == Init /\ [][Next]_vars

-----------------------------------------------------------------------------
(* A document that was saved whole is loaded as it was, without an error:   *)
(* what Print escapes, quotes, indents and breaks into lines, Parse takes   *)
(* back (tinyxml.cpp:1011, 1050; tinyxmlparser.cpp:704).                    *)
RoundTrip ==
  loaded /\ saved \notin {Null, <<>>} /\ Whole /\ AllPrintable(saved)
    => doc = saved /\ error = None

(* Of a file that was cut short LoadFile reports an error, or every element *)
(* it has loaded is one that was saved, complete and in order.  Each level  *)
(* of the recursive parser has its own way to notice the end of the text.   *)
ElementsWhole ==
  loaded /\ saved # Null /\ AllPrintable(saved) /\ error = None
    => IsPrefix(Elements(doc), Elements(saved))

(* The text handed to UploadStatus.dll says what the monitor is: its labels *)
(* and its targets in order with their values, whatever characters these    *)
(* have.  It is printed by TiXmlPrinter, the file by Print.                 *)
UploadReadsBack ==
  sent # Null =>
    LET d == monitor_document(sent.monitor) IN
      AllPrintable(d) => Parse(sent.text) = [nodes |-> d, err |-> None]
===============================================================================
