----------------------------- MODULE MCProcess -----------------------------
(* A small instance of Process. *)
EXTENDS Process

Flags == {"unknown", "setup", "nali", "version", "json", "ipv4", "ipv6", "tcp", "udp", "mtu", "mtr",
  "report", "wide", "raw", "table", "classic", "route", "output", "outputDefault", "from", "deploy",
  "listen", "mcp", "token", "fast", "file", "probe", "psize", "tos", "badTos", "queries", "init",
  "dn42", "source", "ipinfo", "noTarget", "nomap", "dot"}
MCCommandLines == { {"speed"}, {"deploy", "listen", "token"}, {"nali", "noTarget", "ipv4"}, {"from", "json", "nomap"} }
                  \cup { {a, b} : a \in Flags, b \in Flags }

MCListens == { [ok |-> TRUE, host |-> h] : h \in {"", "localhost", "loopback", "name"} }
             \cup { [ok |-> FALSE, host |-> ""] }

\* A cursor key, a function key, focus events, mouse reports, a paste marker, a key with Alt,
\* title reports.
MCItems == { <<"ESC", "[", "final">>, <<"ESC", "O", "p">>, <<"ESC", "[", "I">>, <<"ESC", "[", "O">>,
             <<"ESC", "[", "M", " ", "q", "r">>, <<"ESC", "[", "<", "0", "M">>, <<"ESC", "[", "<", "0", "m">>,
             <<"ESC", "[", "2", "0", "final">>, <<"ESC", "q">>, <<"ESC", "]", "q", "BEL">>, <<"ESC", "]", "p", "ESC", "final">> }

Base == [help |-> FALSE, timeout |-> 1000, threads |-> 1, latencyCount |-> 1, source |-> FALSE,
         dev |-> FALSE, metadata |-> FALSE, json |-> FALSE, endpoint |-> TRUE, tty |-> TRUE,
         nonInteractive |-> FALSE]
MCRequests == { [Base EXCEPT !.help = TRUE], [Base EXCEPT !.threads = 65],
                [Base EXCEPT !.endpoint = FALSE, !.source = TRUE, !.metadata = TRUE, !.json = TRUE],
                [Base EXCEPT !.endpoint = FALSE], [Base EXCEPT !.threads = 2] }
=============================================================================
