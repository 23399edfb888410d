---- MODULE MCContainerStream ----
(* ContainerStream on small instances. *)
EXTENDS ContainerStream
====
