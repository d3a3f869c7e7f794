-------------------------- MODULE MCHttpConnection --------------------------
(* Instances of HttpConnection for TLC. *)
EXTENDS HttpConnection

Kind(method, framing, body, flaw, close) ==
  [method |-> method, framing |-> framing, body |-> body, flaw |-> flaw, close |-> close]

SomeKinds ==
  {Kind("GET", "none", 0, "none", FALSE), Kind("GET", "length", 1, "none", FALSE),
   Kind("POST", "length", 2, "none", FALSE), Kind("POST", "length", 1, "none", TRUE),
   Kind("POST", "chunked", 1, "none", FALSE), Kind("POST", "none", 0, "none", FALSE), Kind("POST", "none", 1, "none", FALSE),
   Kind("DELETE", "none", 0, "none", FALSE), Kind("DELETE", "length", 1, "none", FALSE),
   Kind("DELETE", "chunked", 1, "none", FALSE),
   Kind("POST", "length", 1, "line", FALSE), Kind("POST", "length", 1, "uri", FALSE),
   Kind("POST", "length", 1, "header", FALSE), Kind("POST", "length", 1, "form", FALSE),
   Kind("POST", "length", 1, "range", FALSE), Kind("POST", "length", 1, "encoding", TRUE)}
=============================================================================
