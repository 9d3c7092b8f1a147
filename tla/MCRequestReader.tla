--------------------------- MODULE MCRequestReader ---------------------------
(***************************************************************************)
(* Requests for RequestReader: what the clients of the repository send,    *)
(* with one header line standing for all, and what the code refuses.       *)
(***************************************************************************)
EXTENDS RequestReader

End == <<"CRLF", "CRLF">>

\* c.c:192, in the root: to this proxy (or server) itself.
Direct    == <<"GET", "/index.html", "HTTP/1.0">> \o End
\* New/Client/Client/c.c:158-166: through the proxy, with header lines.
Proxied   == <<"GET", "proxy", "host/page", "HTTP/1.0", "CRLF", "Accept:">> \o End
Posted    == <<"POST", "/index.html", "HTTP/1.1">> \o End
NoVersion == <<"GET", "/index.html", "CRLF", "Accept:", "text">> \o End
WithHeader == <<"GET", "/index.html", "HTTP/1.0", "CRLF", "Accept:">> \o End
\* RequestHandlers.h:126-135: the proxy's own request.
Local1    == <<"LOCAL-GET", "/index.html", "HTTP/1.0", "CRLF", "&key=1">> \o End
Local2    == <<"LOCAL-GET", "/index.html", "HTTP/1.0", "CRLF", "&key=2">> \o End

MCKeyWords     == {"&key=1", "&key=2"}
MCInputs       == [proxy  |-> {Direct, Proxied, Posted, NoVersion},
                   server |-> {Direct, Posted, NoVersion, WithHeader, Local1 \o Local2, Local2}]
=============================================================================
