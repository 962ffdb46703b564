----------------------------- MODULE MCHttpPayload -----------------------------
(* Responses for a small instance of HttpPayload: every status line and     *)
(* every header line of a few tokens, two headers in all their orders, and  *)
(* more headers than the array first holds.                                *)
EXTENDS HttpPayload, FiniteSets

MCSpace == {" ", "\r", "\n"}
MCToken == MCSpace \cup {":", "HTTP/1.1", "101", "OK", "Accept", "Host", "digest", "other"}
CRLF == <<"\r", "\n">>
Lines(tokens, n) == UNION {{s \o CRLF : s \in [1 .. k -> tokens]} : k \in 0 .. n}

Switching == <<"HTTP/1.1", " ", "101", " ", "OK">> \o CRLF
Header(key, value) == <<key, ":", " ", value>> \o CRLF
Good == Header("Accept", "digest")

HeaderLine ==
  { Good, Header("Accept", "other"), Header("Host", "digest"),
    <<"Accept", ":">> \o CRLF, <<"Accept", " ">> \o CRLF,
    <<" ", "Accept", " ", ":", "digest", " ">> \o CRLF }

MCResponse ==
  { <<s, Good>> : s \in Lines({" ", "HTTP/1.1", "101"}, 5) }
  \cup { <<Switching, h>> : h \in Lines({" ", ":", "Accept", "digest"}, 4) \ {CRLF} }
  \cup { <<Switching, g, h>> : g, h \in HeaderLine }
  \cup { <<Switching>> \o [i \in 1 .. n |-> Header("Host", "other")] \o <<Good>> :
           n \in {7, 8} }
===============================================================================
