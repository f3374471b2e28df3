------------------------------- MODULE MCVfs --------------------------------
(* Vfs for TLC: a root and two more inodes, names a and b, two fd slots.   *)
EXTENDS Vfs

CONSTANTS v0, v1, v2, a, b, dot, dotdot, long, f1, f2

MCVnodes == {v0, v1, v2}
MCFiles == {f1, f2}

Path(abs, comps, slash) == [abs |-> abs, comps |-> comps, slash |-> slash]

(* /a, /a/b, b, /a/ (trailing slash), a/. and /a/LONG/b (a long middle   *)
(* component).                                                             *)
MCPaths ==
    { Path(TRUE, <<a>>, FALSE), Path(TRUE, <<a, b>>, FALSE), Path(FALSE, <<b>>, FALSE),
      Path(TRUE, <<a>>, TRUE), Path(FALSE, <<a, dot>>, FALSE),
      Path(TRUE, <<a, long, b>>, FALSE) }

(* /a, /a/b and b for link(2) and rename(2).                             *)
MCLinkFromTo == { Path(TRUE, <<a>>, FALSE), Path(TRUE, <<a, b>>, FALSE), Path(FALSE, <<b>>, FALSE) }

(* O_RDONLY, O_RDONLY|O_CREAT, O_RDWR|O_CREAT, O_WRONLY|O_APPEND.         *)
MCOpenFlags == { {}, {"CREAT"}, {"RDWR", "CREAT"}, {"WRONLY", "APPEND"} }

(* Inputs of the single-property runs.                                    *)
(* LONG/b: a long first component, met while curVNode is still NULL.      *)
MCLongPaths == { Path(FALSE, <<long, b>>, FALSE), Path(TRUE, <<a>>, FALSE) }

(* O_RDONLY|O_APPEND.                                                      *)
MCAppendFlags == { {"APPEND"} }

=============================================================================
