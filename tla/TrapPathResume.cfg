CONSTANTS
  MaxPc = 3
  SyscallNumbers = {0, 20, 21}
SPECIFICATION Spec
CHECK_DEADLOCK FALSE
PROPERTY KernelCodeResumes
