---------------------------- MODULE MCUserMemory ----------------------------
(* Small address spaces: a heap of one table, a stack in another. *)
EXTENDS UserMemory

Stack1 == <<2>>
Image1 == <<8>>
Low == 1 .. 14
AllCalls == {"spawn", "fork", "reap", "exec", "write", "mmap", "munmap", "brk",
             "shmget", "shmat", "shmdt", "shmrm"}
LifeCalls == {"spawn", "reap"}
=============================================================================
