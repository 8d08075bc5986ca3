SPECIFICATION Spec
CONSTANTS
    ARCHES = {"x86_64", "aarch64", "riscv64"}
CHECK_DEADLOCK FALSE
INVARIANTS ShareIsServed
