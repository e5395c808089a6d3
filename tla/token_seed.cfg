SPECIFICATION Spec
CONSTANT Env = {}
INVARIANT SeedSucceeds
