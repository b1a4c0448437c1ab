-------------------------- MODULE MCStorageVisitor --------------------------
(***************************************************************************)
(* Instance of StorageVisitor: trees of up to five nodes, two function     *)
(* names, and statements in the shapes the documentation names, each with  *)
(* its effects written down beside it.                                     *)
(***************************************************************************)
EXTENDS StorageVisitor, Expression

Env == Path(<<"env">>)
Key == Path(<<"k">>)
Owned == Path(<<"DataKey", "Owner">>)
Instance == MethodCall(MethodCall(Env, "storage", <<>>), "instance", <<>>)
ClientVar == Path(<<"client">>)

Statement(expr, effects, clients) == [expr |-> expr, effects |-> effects, clients |-> clients]
Does(kind, key) == [kind |-> kind, key |-> key]
Client1(method) == [method |-> method, receiver |-> "client"]

MCStatements == {
  \* env.storage().instance().set(&DataKey::Owner, env..get(&DataKey::Owner) + 1)
  Statement(MethodCall(Instance, "set",
              <<Reference(Owned), OtherExpr(<<MethodCall(Instance, "get", <<Reference(Owned)>>)>>)>>),
            <<Does("write", "Owner"), Does("read", "Owner")>>, <<>>),
  \* s.storage.has(symbol_short!("Owner")): a field named storage
  Statement(MethodCall(Field(Path(<<"s">>), "storage"), "has",
                       <<Macro("symbol_short", <<Literal("Owner")>>)>>),
            <<Does("read", "Owner")>>, <<>>),
  \* env.storage().remove(&(Symbol::new("Owner")))
  Statement(MethodCall(MethodCall(Env, "storage", <<>>), "remove",
              <<Reference(Paren(Call(Path(<<"Symbol", "new">>), <<Literal("Owner")>>)))>>),
            <<Does("write", "Owner")>>, <<>>),
  \* env.storage().del(k): the key is a variable
  Statement(MethodCall(MethodCall(Env, "storage", <<>>), "del", <<Key>>),
            <<Does("write", Dynamic)>>, <<>>),
  \* client.put(&env.storage().instance().get(&k)): a client's method with a
  \* storage name, a read in its argument
  Statement(MethodCall(ClientVar, "put", <<Reference(MethodCall(Instance, "get", <<Reference(Key)>>))>>),
            <<Does("read", Dynamic)>>, <<Client1("put")>>),
  \* client::new(&env).run(): the receiver is a constructor's result
  Statement(MethodCall(Call(Path(<<"client", "new">>), <<Reference(Env)>>), "run", <<>>),
            <<>>, <<Client1("run")>>) }
=============================================================================
