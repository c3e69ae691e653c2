--------------------------------- MODULE Config ---------------------------------
(***************************************************************************)
(* What load_config makes of a site configuration.  A document is the kind *)
(* of each of its parts: what is "other" has a JSON type that is not       *)
(* looked for, and a URL or a name is classed by the one thing about it    *)
(* that a rule of the code or of config/schema/stack.schema.json sees.     *)
(***************************************************************************)
EXTENDS FiniteSets

File == {"missing", "binary", "malformed", "other", "object"}

Name == {"absent", "other", "short", "placeholder", "name"}

\* "bracket" is a host that opens a bracket and does not close it; "space" has
\* a space or a quote; "short" is a host without a scheme, or another scheme.
Url == {"absent", "null", "other", "space", "bracket", "short", "port",
        "credentials", "path", "placeholder", "origin"}

\* A list of names, or one with something wrong with its entries.
Bypass == {"absent", "other", "number", "twice", "empty", "syntax", "names"}

Proxy ==
  {[is |-> k, url |-> "absent", noProxy |-> "absent", stray |-> FALSE] :
     k \in {"absent", "null", "other"}}
    \cup [is : {"object"}, url : Url, noProxy : Bypass, stray : BOOLEAN]

\* stray: there is a field that is not known; services: the retired block.
Document ==
  {d \in [file : File, host : Name, schema : {"text", "other"}, stray : BOOLEAN,
          services : BOOLEAN, proxy : Proxy] :
     d.file = "object" \/ (d.host = "absent" /\ d.proxy.is = "absent")}

-----------------------------------------------------------------------------
\* Mutant: unknown fields of the proxy are ignored.
ProxyRejectedWithoutStray(p) ==
  \/ p.is = "other"
  \/ p.noProxy \notin {"absent", "names"}
  \/ p.url \notin {"absent", "null", "bracket", "origin"}

\* A URL that Python cannot split raises an error that is not a
\* ConfigurationError, if nothing is found wrong before it is looked at.
ProxyRejected(p) ==
  \/ p.is = "other" \/ p.stray
  \/ p.noProxy \notin {"absent", "names"}
  \/ p.url \notin {"absent", "null", "bracket", "origin"}

Rejected(d) ==
  \/ d.file \in {"missing", "malformed", "other"}
  \/ /\ d.file = "object"
     /\ \/ d.services \/ d.stray
        \/ d.proxy.is = "absent"
        \/ d.host # "name"
        \/ ProxyRejected(d.proxy)

Escapes(d) ==
  \/ d.file = "binary"
  \/ ~Rejected(d) /\ d.proxy.url = "bracket"

Accepted(d) == ~Rejected(d) /\ ~Escapes(d)

\* Without a URL there is no proxy, whatever else the object says.
ProxyEnabled(d) == d.proxy.url = "origin"

\* The reference: what the schema says of the same document.
SchemaValid(d) ==
  /\ d.file = "object"
  /\ ~d.services /\ ~d.stray /\ d.schema = "text"
  /\ d.host \in {"name", "placeholder"}
  /\ \/ d.proxy.is = "null"
     \/ /\ d.proxy.is = "object" /\ ~d.proxy.stray
        /\ d.proxy.url \notin {"absent", "other"}
        /\ d.proxy.noProxy \in {"absent", "names", "syntax"}
================================================================================
