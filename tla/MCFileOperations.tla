-------------------------- MODULE MCFileOperations --------------------------
(* FileOperations for TLC: a folder with a file, and a file beside it, on  *)
(* one device, and an empty second device.                                 *)
EXTENDS FileOperations, TLC

CONSTANTS home, usb, a, b, c1, c2, c3

MCPaths ==
  {<<home>>, <<home, a>>, <<home, a, a>>, <<home, a, b>>, <<home, b>>,
   <<usb>>, <<usb, a>>, <<usb, a, a>>}

MCTree ==
  [p \in Paths |->
     IF p \in Tops \cup {<<home, a>>} THEN Dir
     ELSE IF p = <<home, a, a>> THEN c1
     ELSE IF p = <<home, b>> THEN c2
     ELSE Nothing]

MCSearched == {<<usb>>}
=============================================================================
