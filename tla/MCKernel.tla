------------------------------ MODULE MCKernel ------------------------------
(* Kernel with the sizes of the build: 32-bit pointers, names of 256 bytes *)
EXTENDS Kernel

MCSizeOf == [o \in Objects |->
  CASE o = "current_task" -> 20
    [] o = "fs_root"      -> 312
    [] o = "mounted"      -> 312
    [] o = "nodes"        -> 64 * 28
    [] o = "block_bitmap" -> 1024 \div 8
    [] o = "blocks"       -> 1024 * 4096]
=============================================================================
