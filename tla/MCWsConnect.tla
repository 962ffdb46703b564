------------------------------ MODULE MCWsConnect ------------------------------
(* Answers a server may give, well-formed and not, for a small instance of  *)
(* WsConnect.                                                              *)
EXTENDS WsConnect

Line(token) == <<token>> \o CRLF
Status(code) == Line(<<"status", code>>)
Accept(k) == Line(<<"accept", k>>)

\* A correct answer with a frame behind it.
Correct(k) ==
  { Status(101) \o Line(Tok("header")) \o Accept(k) \o CRLF \o <<Tok("frame")>> }

\* Refusals, wrong or missing accept headers, and lines the parser rejects.
Incorrect(k) ==
  { Status(400) \o CRLF,
    Status(0) \o CRLF,
    CRLF \o CRLF,
    Status(101) \o CRLF,
    Status(101) \o Line(<<"Accept", k>>) \o CRLF,
    Status(101) \o <<Tok("sp")>> \o CRLF \o CRLF,
    Status(400) \o <<Tok("sp")>> \o CRLF \o CRLF }
  \cup { Status(101) \o Accept(j) \o Accept(k) \o CRLF : j \in Key }

\* The answers to every other key than 1, to keep the instance small.
Few(k) ==
  { Status(101) \o Accept(k) \o CRLF }
    \cup { Status(101) \o Accept(j) \o CRLF : j \in Key \ {k} }

MCResponse == [k \in Key |-> IF k = 1 THEN Correct(k) \cup Incorrect(k) ELSE Few(k)]
MCCorrectResponse == [k \in Key |-> Correct(k)]

ASSUME StartAssumption == AnswersStartLines
ASSUME WellFormedAssumption == AnswersWellFormed
===============================================================================
